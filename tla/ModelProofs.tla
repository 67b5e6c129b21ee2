------------------------------ MODULE ModelProofs ------------------------------
(***************************************************************************)
(* Proofs about the models and the proofs of inference: the files and the  *)
(* updates of ModelStore, the grants, limits and consents of PrivateModels *)
(* and the batches, verifications, caches and keys of Ezkl, for any models,*)
(* tasks, limits and clocks.  Each component has one inductive invariant.  *)
(***************************************************************************)
EXTENDS ModelStore, PrivateModels, Ezkl, FiniteSums, FiniteSetTheorems, SequenceTheorems, TLAPS

-----------------------------------------------------------------------------
(* ModelStore: the slots of the downloads.                                 *)

DownloadTask == [pc : {"idle", "permit", "space", "try"}, file : MsFiles \cup {"none"}, retries : Nat,
                 result : {"none", "ok", "failed", "mismatch"}]

DownloadFields ==
    [permits : 0 .. MsSlots, disk : SUBSET MsFiles, tracked : [MsFiles -> {"none", "InProgress", "Paused", "Cancelled"}],
     task : [MsTasks -> DownloadTask], ops : Nat]

\* The downloads that hold a slot.
DownloadsRun(s) == {t \in MsTasks : s.task[t].pc \in {"space", "try"}}

DownloadOK(s) ==
    /\ s \in DownloadFields /\ s.permits + Cardinality(DownloadsRun(s)) = MsSlots
    /\ \A t \in MsTasks : s.task[t].pc # "idle" => s.task[t].file \in MsFiles

LEMMA DownloadFieldsOf ==
    ASSUME NEW s \in DownloadFields
    PROVE  /\ s.permits \in 0 .. MsSlots /\ s.permits \in Nat /\ s.disk \in SUBSET MsFiles /\ s.task \in [MsTasks -> DownloadTask] /\ s.ops \in Nat
           /\ s.tracked \in [MsFiles -> {"none", "InProgress", "Paused", "Cancelled"}]
           /\ \A t \in MsTasks : s.task[t] \in DownloadTask /\ s.task[t].file \in MsFiles \cup {"none"} /\ s.task[t].retries \in Nat
           /\ IsFiniteSet(DownloadsRun(s)) /\ Cardinality(DownloadsRun(s)) \in Nat
<1>1. /\ s.permits \in 0 .. MsSlots /\ s.disk \in SUBSET MsFiles /\ s.task \in [MsTasks -> DownloadTask] /\ s.ops \in Nat
      /\ s.tracked \in [MsFiles -> {"none", "InProgress", "Paused", "Cancelled"}]
  BY DEF DownloadFields
<1>2. s.permits \in Nat  BY <1>1, MsAssumption
<1>3. \A t \in MsTasks : s.task[t] \in DownloadTask /\ s.task[t].file \in MsFiles \cup {"none"} /\ s.task[t].retries \in Nat
  BY <1>1 DEF DownloadTask
<1>4. DownloadsRun(s) \subseteq MsTasks /\ IsFiniteSet(MsTasks)  BY MsAssumption DEF DownloadsRun
<1>5. IsFiniteSet(DownloadsRun(s)) /\ Cardinality(DownloadsRun(s)) \in Nat  BY <1>4, FS_Subset, FS_CardinalityType
<1> QED BY <1>1, <1>2, <1>3, <1>5

\* A slot is taken or given back with the download that holds it.
LEMMA DownloadMoves ==
    ASSUME DownloadOK(downloads), NEW t \in MsTasks, NEW u \in DownloadTask, NEW d \in SUBSET MsFiles, NEW n \in Nat, NEW k \in Nat,
           downloads' = [downloads EXCEPT !.permits = k, !.disk = d, !.task = [downloads.task EXCEPT ![t] = u], !.ops = n],
           k = downloads.permits + (IF downloads.task[t].pc \in {"space", "try"} THEN 1 ELSE 0)
                                 - (IF u.pc \in {"space", "try"} THEN 1 ELSE 0),
           u.pc # "idle" => u.file \in MsFiles
    PROVE  DownloadOK(downloads')
<1> DEFINE f == DownloadsRun(downloads)
           g == DownloadsRun(downloads')
<1>1. downloads \in DownloadFields /\ downloads.permits + Cardinality(f) = MsSlots  BY DEF DownloadOK
<1>2. downloads.task \in [MsTasks -> DownloadTask] /\ IsFiniteSet(f) /\ Cardinality(f) \in Nat /\ downloads.permits \in Nat
  BY <1>1, DownloadFieldsOf
<1>3. downloads'.permits = k /\ downloads'.task = [downloads.task EXCEPT ![t] = u]  BY <1>1 DEF DownloadFields
<1>4. g = (f \ {t}) \cup (IF u.pc \in {"space", "try"} THEN {t} ELSE {})  BY <1>2, <1>3 DEF DownloadsRun
<1>5. t \in f <=> downloads.task[t].pc \in {"space", "try"}  BY DEF DownloadsRun
<1> HIDE DEF f, g
<1>6. IsFiniteSet(f \ {t}) /\ Cardinality(f \ {t}) = Cardinality(f) - (IF t \in f THEN 1 ELSE 0) /\ t \notin f \ {t}
  <2>1. IsFiniteSet(f) /\ Cardinality(f) \in Nat  BY <1>2
  <2>2. IsFiniteSet(f \ {t}) /\ Cardinality(f \ {t}) = IF t \in f THEN Cardinality(f) - 1 ELSE Cardinality(f)
    BY ONLY <2>1, FS_RemoveElement
  <2> QED BY ONLY <2>1, <2>2
<1>7. Cardinality(g) = Cardinality(f \ {t}) + (IF u.pc \in {"space", "try"} THEN 1 ELSE 0)
  <2>1. CASE u.pc \in {"space", "try"}  BY <1>4, <1>6, <2>1, FS_AddElement
  <2>2. CASE u.pc \notin {"space", "try"}
    <3>1. g = f \ {t}  BY <1>4, <2>2
    <3>2. Cardinality(f \ {t}) \in Nat  BY <1>6, FS_CardinalityType
    <3> QED BY <2>2, <3>1, <3>2
  <2> QED BY <2>1, <2>2
<1>8. k + Cardinality(g) = MsSlots  BY <1>1, <1>2, <1>5, <1>6, <1>7
<1>9. k \in 0 .. MsSlots
  <2>1. Cardinality(f \ {t}) \in Nat  BY <1>6, FS_CardinalityType
  <2>2. Cardinality(g) \in Nat  BY <1>7, <2>1
  <2> QED BY <1>8, <2>2, MsAssumption
<1>10. downloads' \in DownloadFields  BY <1>1, <1>2, <1>9 DEF DownloadFields
<1>11. \A x \in MsTasks : downloads'.task[x].pc # "idle" => downloads'.task[x].file \in MsFiles
  BY <1>2, <1>3 DEF DownloadOK
<1> QED BY <1>3, <1>8, <1>10, <1>11 DEF DownloadOK, g

\* A step that no download takes.
LEMMA DownloadStays ==
    ASSUME DownloadOK(downloads), downloads' \in DownloadFields, downloads'.task = downloads.task, downloads'.permits = downloads.permits
    PROVE  DownloadOK(downloads')  BY DEF DownloadOK, DownloadsRun

LEMMA TrackingKeeps ==
    ASSUME DownloadOK(downloads), NEW f \in MsFiles, StartDownload(f) \/ PauseDownload(f) \/ CancelFileDownload(f)
    PROVE  DownloadOK(downloads')
<1>1. downloads \in DownloadFields  BY DEF DownloadOK
<1>2. PICK st \in {"InProgress", "Paused", "Cancelled"}, d \in SUBSET MsFiles, n \in Nat :
          downloads' = [downloads EXCEPT !.tracked = [downloads.tracked EXCEPT ![f] = st], !.disk = d, !.ops = n]
  <2>1. downloads.disk \in SUBSET MsFiles /\ downloads.disk \ {f} \in SUBSET MsFiles /\ downloads.ops \in Nat /\ downloads.ops + 1 \in Nat
    BY <1>1, DownloadFieldsOf
  <2>2. CASE StartDownload(f)
    <3>1. downloads' = [downloads EXCEPT !.tracked = [downloads.tracked EXCEPT ![f] = "InProgress"], !.disk = downloads.disk, !.ops = downloads.ops + 1]
      BY <1>1, <2>2 DEF StartDownload, DownloadStep, DownloadFields
    <3> QED BY <2>1, <3>1, Zenon
  <2>3. CASE PauseDownload(f)
    <3>1. downloads' = [downloads EXCEPT !.tracked = [downloads.tracked EXCEPT ![f] = "Paused"], !.disk = downloads.disk, !.ops = downloads.ops]
      BY <1>1, <2>3 DEF PauseDownload, DownloadStep, DownloadFields
    <3> QED BY <2>1, <3>1, Zenon
  <2>4. CASE CancelFileDownload(f)
    <3>1. downloads' = [downloads EXCEPT !.tracked = [downloads.tracked EXCEPT ![f] = "Cancelled"], !.disk = downloads.disk \ {f}, !.ops = downloads.ops]
      BY <1>1, <2>4 DEF CancelFileDownload, DownloadStep, DownloadFields
    <3> QED BY <2>1, <3>1, Zenon
  <2> QED BY <2>2, <2>3, <2>4
<1>3. [downloads.tracked EXCEPT ![f] = st] \in [MsFiles -> {"none", "InProgress", "Paused", "Cancelled"}]
  BY <1>1, DownloadFieldsOf
<1>4. downloads' \in DownloadFields /\ downloads'.task = downloads.task /\ downloads'.permits = downloads.permits
  BY <1>1, <1>2, <1>3 DEF DownloadFields
<1> QED BY <1>4, DownloadStays

LEMMA DownloadTaskKeeps ==
    ASSUME DownloadOK(downloads), NEW t \in MsTasks,
           \/ AcquirePermit(t) \/ CheckSpace(t) \/ TryDownload(t) \/ TryFails(t)
           \/ \E f \in MsFiles : DownloadModelFile(t, f)
    PROVE  DownloadOK(downloads')
<1> DEFINE r == downloads.task[t]
<1>1. downloads \in DownloadFields  BY DEF DownloadOK
<1>2. /\ r \in DownloadTask /\ r.retries \in Nat /\ r.file \in MsFiles \cup {"none"} /\ downloads.permits \in Nat
      /\ downloads.disk \in SUBSET MsFiles /\ downloads.ops \in Nat /\ downloads.task \in [MsTasks -> DownloadTask]
      /\ (r.pc # "idle" => r.file \in MsFiles)
  BY <1>1, DownloadFieldsOf DEF DownloadOK
<1>3. ASSUME NEW f \in MsFiles, DownloadModelFile(t, f)
      PROVE  DownloadOK(downloads')
  <2> DEFINE u == [pc |-> "permit", file |-> f, retries |-> 0, result |-> "none"]
  <2>1. u \in DownloadTask /\ u.pc = "permit" /\ u.file \in MsFiles /\ r.pc = "idle"
    BY <1>3 DEF DownloadTask, DownloadModelFile, DownloadAt
  <2> HIDE DEF u
  <2>2. downloads' = [downloads EXCEPT !.permits = downloads.permits, !.disk = downloads.disk,
                                       !.task = [downloads.task EXCEPT ![t] = u], !.ops = downloads.ops + 1]
    BY <1>1, <1>3 DEF DownloadModelFile, DownloadStep, DownloadFields, u
  <2>3. downloads.ops + 1 \in Nat /\ downloads.permits = downloads.permits + 0 - 0  BY <1>2
  <2> QED BY <1>2, <2>1, <2>2, <2>3, DownloadMoves
<1>4. CASE AcquirePermit(t)
  <2> DEFINE u == [r EXCEPT !.pc = "space"]
             k == downloads.permits - 1
  <2>1. u \in DownloadTask /\ u.pc = "space" /\ r.pc = "permit" /\ u.file \in MsFiles
    BY <1>2, <1>4 DEF DownloadTask, AcquirePermit, DownloadAt
  <2>2. k \in Nat /\ k = downloads.permits + 0 - 1  BY <1>2, <1>4 DEF AcquirePermit
  <2>3. downloads' = [downloads EXCEPT !.permits = k, !.disk = downloads.disk,
                                       !.task = [downloads.task EXCEPT ![t] = u], !.ops = downloads.ops]
    BY <1>1, <1>2, <1>4 DEF AcquirePermit, DownloadStep, DownloadFields
  <2> HIDE DEF u, k, r
  <2> QED BY <1>2, <2>1, <2>2, <2>3, DownloadMoves DEF r
<1>5. ASSUME NEW res \in {"ok", "failed", "mismatch"}, NEW d \in SUBSET MsFiles, r.pc \in {"space", "try"},
             downloads' = DownloadReturns([downloads EXCEPT !.disk = d], t, res)
      PROVE  DownloadOK(downloads')
  <2> DEFINE u == [r EXCEPT !.pc = "idle", !.result = res]
             k == downloads.permits + 1
  <2>1. u \in DownloadTask /\ u.pc = "idle"  BY <1>2, <1>5 DEF DownloadTask
  <2>2. k \in Nat /\ k = downloads.permits + (IF r.pc \in {"space", "try"} THEN 1 ELSE 0) - (IF u.pc \in {"space", "try"} THEN 1 ELSE 0)
    <3>1. r.pc \in {"space", "try"} /\ u.pc \notin {"space", "try"}  BY <1>5, <2>1
    <3> HIDE DEF r, u
    <3> QED BY <1>2, <3>1
  <2>3. downloads' = [downloads EXCEPT !.permits = k, !.disk = d, !.task = [downloads.task EXCEPT ![t] = u], !.ops = downloads.ops]
    BY <1>1, <1>2, <1>5 DEF DownloadReturns, DownloadFields
  <2> HIDE DEF u, k, r
  <2> QED BY ONLY DownloadOK(downloads), t \in MsTasks, <1>2, d \in SUBSET MsFiles, <2>1, <2>2, <2>3, DownloadMoves DEF r
<1>6. ASSUME NEW n \in Nat, NEW p \in {"space", "try"}, r.pc \in {"space", "try"},
             downloads' = [downloads EXCEPT !.task[t] = [r EXCEPT !.pc = p, !.retries = n]]
      PROVE  DownloadOK(downloads')
  <2> DEFINE u == [r EXCEPT !.pc = p, !.retries = n]
  <2>1. u \in DownloadTask /\ u.pc = p /\ u.file \in MsFiles  BY <1>2, <1>6 DEF DownloadTask
  <2>2. downloads' = [downloads EXCEPT !.permits = downloads.permits, !.disk = downloads.disk,
                                       !.task = [downloads.task EXCEPT ![t] = u], !.ops = downloads.ops]
    BY <1>1, <1>2, <1>6 DEF DownloadFields
  <2>3. downloads.permits = downloads.permits + (IF r.pc \in {"space", "try"} THEN 1 ELSE 0) - (IF u.pc \in {"space", "try"} THEN 1 ELSE 0)
    <3>1. r.pc \in {"space", "try"} /\ u.pc \in {"space", "try"}  BY <1>6, <2>1
    <3> HIDE DEF r, u
    <3> QED BY <1>2, <3>1
  <2> HIDE DEF u, r
  <2> QED BY ONLY DownloadOK(downloads), t \in MsTasks, <1>2, <2>1, <2>2, <2>3, DownloadMoves DEF r
<1>7. downloads = [downloads EXCEPT !.disk = downloads.disk]  BY <1>1 DEF DownloadFields
<1>8. CASE CheckSpace(t)
  <2>1. r.pc = "space"  BY <1>8 DEF CheckSpace, DownloadAt
  <2>2. \/ downloads' = [downloads EXCEPT !.task[t].pc = "try"]
        \/ downloads' = DownloadReturns(downloads, t, "failed")
    BY <1>8 DEF CheckSpace, DownloadStep
  <2>3. [downloads EXCEPT !.task[t].pc = "try"] = [downloads EXCEPT !.task[t] = [r EXCEPT !.pc = "try", !.retries = r.retries]]
    BY <1>1, <1>2 DEF DownloadFields, DownloadTask
  <2> HIDE DEF r
  <2> QED BY <1>2, <1>5, <1>6, <1>7, <2>1, <2>2, <2>3
<1>9. CASE TryFails(t)
  <2> DEFINE n == r.retries + 1
  <2>1. r.pc = "try"  BY <1>9 DEF TryFails, DownloadAt
  <2>2. \/ downloads' = [downloads EXCEPT !.task[t].retries = n]
        \/ downloads' = DownloadReturns(downloads, t, "failed")
    BY <1>9 DEF TryFails, DownloadStep
  <2>4. n \in Nat  BY <1>2
  <2> HIDE DEF n
  <2>3. [downloads EXCEPT !.task[t].retries = n] = [downloads EXCEPT !.task[t] = [r EXCEPT !.pc = "try", !.retries = n]]
    <3>1. [r EXCEPT !.retries = n] = [r EXCEPT !.pc = "try", !.retries = n]
      <4> HIDE DEF r
      <4> QED BY ONLY <1>2, <2>1 DEF DownloadTask
    <3>2. [downloads EXCEPT !.task[t].retries = n] = [downloads EXCEPT !.task[t] = [r EXCEPT !.retries = n]]  OBVIOUS
    <3> QED BY <3>1, <3>2
  <2> HIDE DEF r
  <2> QED BY <1>2, <1>5, <1>6, <1>7, <2>1, <2>2, <2>3, <2>4
<1>10. CASE TryDownload(t)
  <2> DEFINE d == downloads.disk \cup {r.file}
  <2>1. r.pc = "try" /\ \E res \in {"ok", "mismatch"} : downloads' = DownloadReturns([downloads EXCEPT !.disk = d], t, res)
    BY <1>10, Zenon DEF TryDownload, DownloadAt, DownloadStep
  <2>2. r.file \in MsFiles  BY <1>2, <2>1
  <2>3. d \in SUBSET MsFiles  BY <1>2, <2>2
  <2> HIDE DEF r, d
  <2> QED BY <1>5, <2>1, <2>3
<1> QED BY <1>3, <1>4, <1>8, <1>9, <1>10

LEMMA DownloadStepKeeps == ASSUME DownloadOK(downloads), DownloadNext PROVE DownloadOK(downloads')
  BY TrackingKeeps, DownloadTaskKeeps DEF DownloadNext

-----------------------------------------------------------------------------
(* ModelStore: the check at startup.                                       *)

StartupCheck == [pc : {"idle", "approved", "details", "hash", "host", "ok", "refused", "unchecked"}, file : MsFiles \cup {"none"},
                 expected : MsContents \cup {"none"}]

\* Which models the registry approves.
Approvals == [MsFiles -> BOOLEAN]

StartupFields ==
    [approved : Approvals, hash : [MsFiles -> MsContents], authorized : SUBSET MsFiles,
     wasAuthorized : SUBSET MsFiles, disk : [MsFiles -> MsContents \cup {"absent"}], map : SUBSET MsFiles,
     cache : SUBSET MsFiles, enabled : BOOLEAN, seen : {"none"} \cup MsContents, ops : Nat, check : StartupCheck]

\* What a check has found by where it is: c is the check, x what was read, w the files
\* whose host was ever authorized.
CheckFound(c, x, w, on) ==
    /\ c.pc = "unchecked" => ~on
    /\ c.pc \notin {"idle", "refused"} => c.file \in MsFiles
    /\ c.pc \in {"hash", "host", "ok"} => c.expected \in MsContents
    /\ c.pc \in {"host", "ok"} => x = c.expected
    /\ c.pc = "ok" => c.file \in w

StartupOK(s) ==
    /\ s \in StartupFields
    /\ s.authorized \subseteq s.wasAuthorized /\ s.cache \subseteq s.wasAuthorized
    /\ CheckFound(s.check, s.seen, s.wasAuthorized, s.enabled)

LEMMA StartupFieldsOf ==
    ASSUME NEW s \in StartupFields
    PROVE  /\ s.approved \in Approvals /\ s.hash \in [MsFiles -> MsContents]
           /\ s.authorized \in SUBSET MsFiles /\ s.wasAuthorized \in SUBSET MsFiles /\ s.cache \in SUBSET MsFiles /\ s.map \in SUBSET MsFiles
           /\ s.disk \in [MsFiles -> MsContents \cup {"absent"}] /\ s.seen \in {"none"} \cup MsContents /\ s.ops \in Nat
           /\ s.check \in StartupCheck
  BY DEF StartupFields

\* A step of the check.
LEMMA CheckMoves ==
    ASSUME StartupOK(startup), NEW c \in StartupCheck, NEW x \in {"none"} \cup MsContents,
           NEW k \in SUBSET startup.wasAuthorized, CheckFound(c, x, startup.wasAuthorized, startup.enabled),
           startup' = [startup EXCEPT !.check = c, !.seen = x, !.cache = k]
    PROVE  StartupOK(startup')
<1>1. startup \in StartupFields /\ startup.authorized \subseteq startup.wasAuthorized  BY DEF StartupOK
<1>2. k \in SUBSET MsFiles  BY <1>1, StartupFieldsOf
<1>3. /\ startup' \in StartupFields /\ startup'.check = c /\ startup'.seen = x /\ startup'.cache = k
      /\ startup'.authorized = startup.authorized /\ startup'.wasAuthorized = startup.wasAuthorized /\ startup'.enabled = startup.enabled
  BY <1>1, <1>2 DEF StartupFields
<1> QED BY <1>1, <1>3 DEF StartupOK

\* A step of the contracts or the disk, or of the map of names.
LEMMA RegistryMoves ==
    ASSUME StartupOK(startup), startup' \in StartupFields, startup'.check = startup.check, startup'.seen = startup.seen,
           startup'.cache = startup.cache, startup.wasAuthorized \subseteq startup'.wasAuthorized,
           startup'.authorized \subseteq startup'.wasAuthorized, startup'.enabled = startup.enabled
    PROVE  StartupOK(startup')  BY DEF StartupOK, CheckFound

LEMMA ApprovalsKeep ==
    ASSUME StartupOK(startup), BuildModelMap \/ \E f \in MsFiles : ContractChanges(f)
    PROVE  StartupOK(startup')
<1> DEFINE n == startup.ops + 1
           s == startup
           StartupKept ==
                   /\ startup' \in StartupFields /\ startup'.check = startup.check /\ startup'.seen = startup.seen
                   /\ startup'.cache = startup.cache /\ startup.wasAuthorized \subseteq startup'.wasAuthorized
                   /\ startup'.authorized \subseteq startup'.wasAuthorized /\ startup'.enabled = startup.enabled
<1>1. s \in StartupFields /\ s.authorized \subseteq s.wasAuthorized  BY DEF StartupOK
<1>2. /\ s.approved \in Approvals /\ s.hash \in [MsFiles -> MsContents] /\ s.authorized \in SUBSET MsFiles
      /\ s.wasAuthorized \in SUBSET MsFiles /\ s.disk \in [MsFiles -> MsContents \cup {"absent"}] /\ s.map \in SUBSET MsFiles /\ n \in Nat
  BY <1>1, StartupFieldsOf
<1>3. CASE BuildModelMap
  <2> DEFINE m == {f \in MsFiles : s.approved[f]}
  <2>1. m \in SUBSET MsFiles  OBVIOUS
  <2>2. startup' = [startup EXCEPT !.map = m, !.ops = n]
    BY <1>1, <1>3 DEF BuildModelMap, StartupOp, StartupStep, StartupFields
  <2> HIDE DEF m, n
  <2>3. StartupKept  BY ONLY <1>1, <1>2, <2>1, <2>2 DEF StartupFields
  <2> QED BY <2>3, RegistryMoves
<1>4. ASSUME NEW f \in MsFiles, ContractChanges(f)
      PROVE  StartupOK(startup')
  <2> DEFINE a == [s.approved EXCEPT ![f] = ~s.approved[f]]
             au == IF f \in s.authorized THEN s.authorized \ {f} ELSE s.authorized \cup {f}
             w == s.wasAuthorized \cup {f}
             d(h) == [s.disk EXCEPT ![f] = h]
             e(h) == [s.hash EXCEPT ![f] = h]
  <2>1. \/ startup' = [startup EXCEPT !.approved = a, !.ops = n]
        \/ startup' = [startup EXCEPT !.authorized = au, !.wasAuthorized = w, !.ops = n]
        \/ \E h \in MsContents : startup' = [startup EXCEPT !.disk = d(h), !.ops = n]
        \/ \E h \in MsContents : startup' = [startup EXCEPT !.hash = e(h), !.ops = n]
    <3>1. CASE StartupOp([startup EXCEPT !.approved[f] = ~@])  BY <1>1, <3>1 DEF StartupOp, StartupStep, StartupFields
    <3>2. CASE StartupOp([startup EXCEPT !.authorized = IF f \in @ THEN @ \ {f} ELSE @ \cup {f}, !.wasAuthorized = @ \cup {f}])
      BY <1>1, <3>2 DEF StartupOp, StartupStep, StartupFields
    <3>3. ASSUME NEW h \in MsContents, StartupOp([startup EXCEPT !.disk[f] = h])
          PROVE  startup' = [startup EXCEPT !.disk = d(h), !.ops = n]
      BY <1>1, <3>3 DEF StartupOp, StartupStep, StartupFields
    <3>4. ASSUME NEW h \in MsContents, StartupOp([startup EXCEPT !.hash[f] = h])
          PROVE  startup' = [startup EXCEPT !.hash = e(h), !.ops = n]
      BY <1>1, <3>4 DEF StartupOp, StartupStep, StartupFields
    <3> QED BY <1>4, <3>1, <3>2, <3>3, <3>4, Zenon DEF ContractChanges
  <2>2. a \in Approvals  BY <1>2 DEF Approvals
  <2>3. au \in SUBSET MsFiles /\ w \in SUBSET MsFiles /\ au \subseteq w /\ s.wasAuthorized \subseteq w  BY <1>1, <1>2
  <2>4. \A h \in MsContents : d(h) \in [MsFiles -> MsContents \cup {"absent"}] /\ e(h) \in [MsFiles -> MsContents]
    BY <1>2
  <2> HIDE DEF a, au, w, d, e, n
  <2>5. CASE startup' = [startup EXCEPT !.approved = a, !.ops = n]
    <3>1. StartupKept  BY ONLY <1>1, <1>2, <2>2, <2>5 DEF StartupFields
    <3> QED BY <3>1, RegistryMoves
  <2>6. CASE startup' = [startup EXCEPT !.authorized = au, !.wasAuthorized = w, !.ops = n]
    <3>1. StartupKept  BY ONLY <1>1, <1>2, <2>3, <2>6 DEF StartupFields
    <3> QED BY <3>1, RegistryMoves
  <2>7. ASSUME NEW h \in MsContents, startup' = [startup EXCEPT !.disk = d(h), !.ops = n] \/ startup' = [startup EXCEPT !.hash = e(h), !.ops = n]
        PROVE  StartupOK(startup')
    <3>1. StartupKept  BY ONLY <1>1, <1>2, <2>4, <2>7 DEF StartupFields
    <3> QED BY <3>1, RegistryMoves
  <2> QED BY <2>1, <2>5, <2>6, <2>7
<1> QED BY <1>3, <1>4

LEMMA CheckKeeps ==
    ASSUME StartupOK(startup),
           \/ ClearAuthorizationCache \/ CheckApproved \/ GetDetails \/ VerifyHash \/ CheckHost \/ StartupAgain
           \/ \E f \in MsFiles : ValidateAtStartup(f)
    PROVE  StartupOK(startup')
<1> DEFINE c == startup.check
           w == startup.wasAuthorized
           Goes(d, x, k) == startup' = [startup EXCEPT !.check = d, !.seen = x, !.cache = k]
<1>1. /\ startup \in StartupFields /\ startup.cache \subseteq w /\ startup.authorized \subseteq w /\ CheckFound(c, startup.seen, w, startup.enabled)
      /\ startup.cache \in SUBSET w
  BY DEF StartupOK
<1>2. /\ c \in StartupCheck /\ startup.seen \in {"none"} \cup MsContents /\ startup.hash \in [MsFiles -> MsContents]
      /\ startup.disk \in [MsFiles -> MsContents \cup {"absent"}] /\ startup.cache \in SUBSET w /\ {} \in SUBSET w
  BY <1>1, StartupFieldsOf
<1>3. c.file \in MsFiles \cup {"none"} /\ c.expected \in MsContents \cup {"none"}  BY <1>2 DEF StartupCheck
<1>4. ASSUME NEW d \in StartupCheck, NEW x \in {"none"} \cup MsContents, NEW k \in SUBSET w, CheckFound(d, x, w, startup.enabled), Goes(d, x, k)
      PROVE  StartupOK(startup')  BY <1>4, CheckMoves
<1>5. CASE ClearAuthorizationCache
  <2>1. Goes(c, startup.seen, {})  BY <1>1, <1>5 DEF ClearAuthorizationCache, StartupStep, StartupFields
  <2> HIDE DEF Goes, c, w
  <2> QED BY <1>1, <1>2, <1>4, <2>1
<1>6. ASSUME startup' = [startup EXCEPT !.check.pc = "refused"]
      PROVE  StartupOK(startup')
  <2> DEFINE d == [c EXCEPT !.pc = "refused"]
  <2>1. d \in StartupCheck /\ CheckFound(d, startup.seen, w, startup.enabled)  BY <1>2 DEF StartupCheck, CheckFound
  <2>2. Goes(d, startup.seen, startup.cache)  BY <1>1, <1>6 DEF StartupFields
  <2> HIDE DEF Goes, d, w
  <2> QED BY <1>2, <1>4, <2>1, <2>2
<1>7. CASE CheckApproved
  <2> DEFINE d == [c EXCEPT !.pc = "details"]
  <2>1. c.pc = "approved" /\ (startup' = [startup EXCEPT !.check.pc = "details"] \/ startup' = [startup EXCEPT !.check.pc = "refused"])
    BY <1>7 DEF CheckApproved, StartupAt, StartupStep, Refused
  <2>2. d \in StartupCheck /\ CheckFound(d, startup.seen, w, startup.enabled)
    BY <1>1, <1>2, <2>1 DEF StartupCheck, CheckFound
  <2>3. CASE startup' = [startup EXCEPT !.check.pc = "details"]
    <3>1. Goes(d, startup.seen, startup.cache)  BY <1>1, <2>3 DEF StartupFields
    <3> HIDE DEF Goes, d, w
    <3> QED BY <1>2, <1>4, <2>2, <3>1
  <2> QED BY <1>6, <2>1, <2>3
<1>8. CASE GetDetails
  <2> DEFINE h == startup.hash[c.file]
             d == [c EXCEPT !.expected = h, !.pc = "hash"]
  <2>1. c.pc = "details" /\ (startup' = [startup EXCEPT !.check.expected = h, !.check.pc = "hash"] \/ startup' = [startup EXCEPT !.check.pc = "refused"])
    BY <1>8 DEF GetDetails, StartupAt, StartupStep, Refused
  <2>2. c.file \in MsFiles /\ h \in MsContents  BY <1>1, <1>2, <2>1 DEF CheckFound
  <2> HIDE DEF h
  <2>3. d \in StartupCheck /\ CheckFound(d, startup.seen, w, startup.enabled)
    BY <1>2, <2>2 DEF StartupCheck, CheckFound
  <2>4. CASE startup' = [startup EXCEPT !.check.expected = h, !.check.pc = "hash"]
    <3>1. Goes(d, startup.seen, startup.cache)  BY <1>1, <2>4 DEF StartupFields
    <3> HIDE DEF Goes, d, w
    <3> QED BY <1>2, <1>4, <2>3, <3>1
  <2> QED BY <1>6, <2>1, <2>4
<1>9. CASE VerifyHash
  <2> DEFINE x == startup.disk[c.file]
             d == [c EXCEPT !.pc = "host"]
  <2>1. c.pc = "hash" /\ (\/ x = c.expected /\ startup' = [startup EXCEPT !.seen = x, !.check.pc = "host"]
                          \/ startup' = [startup EXCEPT !.check.pc = "refused"])
    BY <1>9 DEF VerifyHash, StartupAt, StartupStep, Refused
  <2> HIDE DEF x
  <2>2. CASE x = c.expected /\ startup' = [startup EXCEPT !.seen = x, !.check.pc = "host"]
    <3>1. x \in {"none"} \cup MsContents  BY <1>3, <2>2
    <3>2. d \in StartupCheck /\ CheckFound(d, x, w, startup.enabled)
      BY <1>1, <1>2, <2>1, <2>2 DEF StartupCheck, CheckFound
    <3>3. Goes(d, x, startup.cache)  BY <1>1, <2>2 DEF StartupFields
    <3> HIDE DEF Goes, d, w
    <3> QED BY <1>2, <1>4, <3>1, <3>2, <3>3
  <2> QED BY <1>6, <2>1, <2>2
<1>10. CASE CheckHost
  <2> DEFINE d == [c EXCEPT !.pc = "ok"]
             k == startup.cache \cup {c.file}
  <2>1. /\ c.pc = "host"
        /\ \/ c.file \in startup.cache /\ startup' = [startup EXCEPT !.check.pc = "ok"]
           \/ c.file \in startup.authorized /\ startup' = [startup EXCEPT !.check.pc = "ok", !.cache = k]
           \/ startup' = [startup EXCEPT !.check.pc = "refused"]
    BY <1>10 DEF CheckHost, StartupAt, StartupStep, Refused
  <2>2. c.file \in w => d \in StartupCheck /\ CheckFound(d, startup.seen, w, startup.enabled) /\ k \in SUBSET w
    BY <1>1, <1>2, <2>1 DEF StartupCheck, CheckFound
  <2>3. CASE c.file \in startup.cache /\ startup' = [startup EXCEPT !.check.pc = "ok"]
    <3>1. Goes(d, startup.seen, startup.cache)  BY <1>1, <2>3 DEF StartupFields
    <3>2. c.file \in w  BY <1>1, <2>3
    <3> HIDE DEF Goes, d, w, k
    <3> QED BY <1>2, <1>4, <2>2, <3>1, <3>2
  <2>4. CASE c.file \in startup.authorized /\ startup' = [startup EXCEPT !.check.pc = "ok", !.cache = k]
    <3>1. Goes(d, startup.seen, k)  BY <1>1, <2>4 DEF StartupFields
    <3>2. c.file \in w  BY <1>1, <2>4
    <3> HIDE DEF Goes, d, w, k
    <3> QED BY <1>2, <1>4, <2>2, <3>1, <3>2
  <2> QED BY <1>6, <2>1, <2>3, <2>4
<1>11. CASE StartupAgain
  <2>1. NoCheck \in StartupCheck /\ CheckFound(NoCheck, startup.seen, w, startup.enabled)
    BY DEF NoCheck, StartupCheck, CheckFound
  <2>2. Goes(NoCheck, startup.seen, startup.cache)  BY <1>1, <1>11 DEF StartupAgain, StartupStep, StartupFields
  <2> HIDE DEF Goes, w
  <2> QED BY <1>2, <1>4, <2>1, <2>2
<1>12. ASSUME NEW f \in MsFiles, ValidateAtStartup(f)
       PROVE  StartupOK(startup')
  <2> DEFINE d == [pc |-> IF ~startup.enabled THEN "unchecked"
                          ELSE IF startup.disk[f] # "absent" /\ f \in startup.map THEN "approved" ELSE "refused",
                   file |-> f, expected |-> "none"]
  <2>1. d \in StartupCheck /\ CheckFound(d, "none", w, startup.enabled)  BY DEF StartupCheck, CheckFound
  <2>2. startup' = [startup EXCEPT !.seen = "none", !.check = d]  BY <1>12 DEF ValidateAtStartup, StartupStep
  <2> HIDE DEF d
  <2>3. Goes(d, "none", startup.cache)  BY <1>1, <2>2 DEF StartupFields
  <2> HIDE DEF Goes, w
  <2> QED BY <1>2, <1>4, <2>1, <2>3
<1> QED BY <1>5, <1>7, <1>8, <1>9, <1>10, <1>11, <1>12

LEMMA StartupStepKeeps == ASSUME StartupOK(startup), StartupNext PROVE StartupOK(startup')
  BY ApprovalsKeep, CheckKeeps DEF StartupNext

LEMMA StartupSafe == StartupOK(startup) => StartupIsChecked
<1> SUFFICES ASSUME StartupOK(startup), startup.enabled, startup.check.pc \in {"ok", "unchecked"}
             PROVE  /\ startup.seen = startup.check.expected /\ startup.seen # "none"
                    /\ startup.check.file \in startup.wasAuthorized
  BY DEF StartupIsChecked
<1> QED BY MsAssumption DEF StartupOK, CheckFound

-----------------------------------------------------------------------------
(* ModelStore: the checks of a file.                                       *)

FileContents == MsContents \cup {"absent", "corrupted", "huge", "other format"}
FileCheck == [pc : {"idle", "validate"}, expected : MsContents \cup {"none"}]
FileResult == [status : {"none", "Valid", "error"}, verified : BOOLEAN, expected : MsContents \cup {"none"}]
FileFields == [content : FileContents, matched : BOOLEAN, ops : Nat, check : FileCheck, result : FileResult]

\* Only a check that read the matching contents goes on to validate.
FileOK(s) ==
    /\ s \in FileFields
    /\ s.check.pc = "validate" => s.matched
    /\ s.check.pc = "idle" => s.check.expected = "none"
    /\ s.result.verified /\ s.result.expected # "none" => s.matched

LEMMA FileStepKeeps == ASSUME FileOK(filecheck), FileNext PROVE FileOK(filecheck')
<1> DEFINE s == filecheck
           n == s.ops + 1
<1>1. s \in FileFields /\ (s.check.pc = "validate" => s.matched) /\ (s.check.pc = "idle" => s.check.expected = "none")
      /\ (s.result.verified /\ s.result.expected # "none" => s.matched)
  BY DEF FileOK
<1>2. s.content \in FileContents /\ s.matched \in BOOLEAN /\ n \in Nat /\ s.check \in FileCheck /\ s.result \in FileResult
  BY <1>1 DEF FileFields
<1>3. ASSUME NEW c \in FileContents, FileChanges(c)
      PROVE  FileOK(filecheck')
  <2>1. filecheck' = [filecheck EXCEPT !.content = c, !.ops = n]
    BY <1>1, <1>3 DEF FileChanges, FileOp, FileStep, FileFields
  <2> HIDE DEF n
  <2>2. filecheck' \in FileFields /\ filecheck'.check = s.check /\ filecheck'.result = s.result /\ filecheck'.matched = s.matched
    BY ONLY <1>1, <1>2, <1>3, <2>1 DEF FileFields
  <2> QED BY <1>1, <2>2 DEF FileOK
<1>4. ASSUME NEW h \in MsContents, ValidateWithIntegrity(h)
      PROVE  FileOK(filecheck')
  <2> DEFINE m == s.content = h
             c == IF m THEN [pc |-> "validate", expected |-> h] ELSE s.check
             q == IF m THEN s.result ELSE [status |-> "error", verified |-> FALSE, expected |-> h]
  <2>1. filecheck' = [filecheck EXCEPT !.matched = m, !.check = c, !.result = q, !.ops = n] /\ s.check.pc = "idle"
    BY <1>1, <1>4 DEF ValidateWithIntegrity, FileOp, FileStep, FileFields
  <2>2. /\ m \in BOOLEAN /\ c \in FileCheck /\ q \in FileResult /\ (c.pc = "validate" => m) /\ (c.pc = "idle" => c.expected = "none")
        /\ (q.verified => m)
    BY <1>1, <1>2, <2>1 DEF FileCheck, FileResult
  <2> HIDE DEF m, c, q, n
  <2>3. filecheck' \in FileFields /\ filecheck'.check = c /\ filecheck'.result = q /\ filecheck'.matched = m
    BY ONLY <1>1, <1>2, <2>1, <2>2 DEF FileFields
  <2> QED BY <2>2, <2>3 DEF FileOK
<1>5. CASE ValidateModelFile
  <2> DEFINE ok == s.content \in MsContents
             c == [pc |-> "idle", expected |-> "none"]
             q == [status |-> IF ok THEN "Valid" ELSE "error", verified |-> ok, expected |-> s.check.expected]
  <2>1. filecheck' = [filecheck EXCEPT !.check = c, !.result = q, !.ops = n]
    BY <1>1, <1>5 DEF ValidateModelFile, FileOp, FileStep, FileFields
  <2>2. s.check.expected \in MsContents \cup {"none"} /\ s.check.pc \in {"idle", "validate"}  BY <1>2 DEF FileCheck
  <2>3. ok \in BOOLEAN  OBVIOUS
  <2> HIDE DEF ok
  <2>4. c \in FileCheck /\ q \in FileResult /\ c.pc = "idle" /\ c.expected = "none" /\ (q.expected # "none" => s.matched)
    BY <1>1, <2>2, <2>3 DEF FileCheck, FileResult
  <2> HIDE DEF c, q, n
  <2>5. filecheck' \in FileFields /\ filecheck'.check = c /\ filecheck'.result = q /\ filecheck'.matched = s.matched
    BY ONLY <1>1, <1>2, <2>1, <2>4 DEF FileFields
  <2> QED BY <2>4, <2>5 DEF FileOK
<1> QED BY <1>3, <1>4, <1>5 DEF FileNext, FileContents

LEMMA FileSafe == FileOK(filecheck) => VerifiedWasMatched  BY DEF FileOK, VerifiedWasMatched

-----------------------------------------------------------------------------
(* ModelStore: adapters, and the search for the cheapest model.            *)

AdapterFields == [registered : [MsFiles -> Nat], loaded : [MsFiles -> Nat], sessions : SUBSET MsFiles, ops : Nat]

LEMMA AdapterStepKeeps ==
    ASSUME adapters \in AdapterFields, NEW f \in MsFiles,
           RegisterFinetuned(f) \/ AdapterFilesChange(f) \/ LoadAdapter(f) \/ LoadBaseModel(f)
    PROVE  adapters' \in AdapterFields
<1> DEFINE n == adapters.ops + 1
           k == [adapters.registered EXCEPT ![f] = 1]
           l == [adapters.registered EXCEPT ![f] = adapters.registered[f] + 1]
           m == [adapters.loaded EXCEPT ![f] = adapters.registered[f]]
           q == adapters.sessions \cup {f}
<1>1. n \in Nat /\ k \in [MsFiles -> Nat] /\ l \in [MsFiles -> Nat] /\ m \in [MsFiles -> Nat] /\ q \in SUBSET MsFiles
  BY DEF AdapterFields
<1>2. \/ adapters' = [adapters EXCEPT !.registered = k, !.ops = n] \/ adapters' = [adapters EXCEPT !.registered = l, !.ops = n]
      \/ adapters' = [adapters EXCEPT !.loaded = m, !.ops = n] \/ adapters' = [adapters EXCEPT !.sessions = q, !.ops = n]
  BY DEF RegisterFinetuned, AdapterFilesChange, LoadAdapter, LoadBaseModel, AdapterOp, AdapterFields
<1> HIDE DEF n, k, l, m, q
<1> QED BY <1>1, <1>2 DEF AdapterFields

SearchState == [pc : {"idle", "scan", "found", "none"}, left : SUBSET MsSpecs, best : MsSpecs \cup {"none"},
                minAccuracy : MsCosts, maxCost : MsCosts, cost : Nat]

SpecialFields ==
    [models : SUBSET MsSpecs, accuracy : [MsSpecs -> MsCosts], cost : [MsSpecs -> MsCosts \cup {-1}],
     discounted : SUBSET MsSpecs, language : SUBSET MsSpecs, ensemble : SUBSET MsSpecs, ops : Nat, search : SearchState]

\* What the scan has kept is the best of what it has seen.
BestSoFar ==
    LET s == specials.search
        seen == {m \in specials.models \ s.left : CostEligible(m)}
    IN s.pc = "scan" =>
        /\ s.left \subseteq specials.models
        /\ IF s.best = "none" THEN seen = {}
           ELSE s.best \in seen /\ s.cost = EffectiveCost(s.best) /\ \A m \in seen : s.cost <= EffectiveCost(m)

SpecialInv == specials \in SpecialFields /\ BestSoFar

LEMMA SpecialFieldsOf ==
    ASSUME NEW s \in SpecialFields
    PROVE  /\ s.models \in SUBSET MsSpecs /\ s.accuracy \in [MsSpecs -> MsCosts] /\ s.cost \in [MsSpecs -> MsCosts \cup {-1}]
           /\ s.discounted \in SUBSET MsSpecs /\ s.language \in SUBSET MsSpecs /\ s.ensemble \in SUBSET MsSpecs /\ s.ops \in Nat
           /\ s.search \in SearchState
  BY DEF SpecialFields

\* An operation while no search is under way.
LEMMA SpecialOpKeeps ==
    ASSUME SpecialInv, specials' \in SpecialFields, specials'.search = specials.search, specials.search.pc # "scan"
    PROVE  SpecialInv'  BY DEF SpecialInv, BestSoFar

LEMMA SpecializationsKeep ==
    ASSUME SpecialInv, NEW m \in MsSpecs,
           \/ SetLanguageSupport(m)
           \/ \E a \in MsCosts : RegisterSpecialization(m, a) \/ UpdateFromBenchmark(m, a)
           \/ \E c \in MsCosts, d \in BOOLEAN : SetCostProfile(m, c, d)
    PROVE  SpecialInv'
<1> DEFINE s == specials
           n == s.ops + 1
           l == s.language \cup {m}
           k == s.models \cup {m}
           acc(a) == [s.accuracy EXCEPT ![m] = a]
           co(c) == [s.cost EXCEPT ![m] = c]
           di(d) == IF d THEN s.discounted \cup {m} ELSE s.discounted \ {m}
<1>1. s \in SpecialFields  BY DEF SpecialInv
<1>2. /\ n \in Nat /\ l \in SUBSET MsSpecs /\ k \in SUBSET MsSpecs /\ s.models \in SUBSET MsSpecs
      /\ \A a \in MsCosts : acc(a) \in [MsSpecs -> MsCosts] /\ co(a) \in [MsSpecs -> MsCosts \cup {-1}]
      /\ \A d \in BOOLEAN : di(d) \in SUBSET MsSpecs
  BY <1>1, SpecialFieldsOf
<1>3. s.search.pc # "scan"
  BY DEF SetLanguageSupport, RegisterSpecialization, UpdateFromBenchmark, SetCostProfile, SpecialOp
<1>4. \/ specials' = [specials EXCEPT !.language = l, !.ops = n]
      \/ \E a \in MsCosts : \/ specials' = [specials EXCEPT !.models = k, !.accuracy = acc(a), !.ops = n]
                            \/ specials' = [specials EXCEPT !.accuracy = acc(a), !.ops = n]
      \/ \E c \in MsCosts, d \in BOOLEAN : specials' = [specials EXCEPT !.cost = co(c), !.discounted = di(d), !.ops = n]
  <2>1. CASE SetLanguageSupport(m)  BY <1>1, <2>1 DEF SetLanguageSupport, SpecialOp, SpecialStep, SpecialFields
  <2>2. ASSUME NEW a \in MsCosts, RegisterSpecialization(m, a)
        PROVE  specials' = [specials EXCEPT !.models = k, !.accuracy = acc(a), !.ops = n]
    BY <1>1, <2>2 DEF RegisterSpecialization, SpecialOp, SpecialStep, SpecialFields
  <2>3. ASSUME NEW a \in MsCosts, UpdateFromBenchmark(m, a)
        PROVE  specials' = [specials EXCEPT !.accuracy = acc(a), !.ops = n]
    BY <1>1, <2>3 DEF UpdateFromBenchmark, SpecialOp, SpecialStep, SpecialFields
  <2>4. ASSUME NEW c \in MsCosts, NEW d \in BOOLEAN, SetCostProfile(m, c, d)
        PROVE  specials' = [specials EXCEPT !.cost = co(c), !.discounted = di(d), !.ops = n]
    BY <1>1, <2>4 DEF SetCostProfile, SpecialOp, SpecialStep, SpecialFields
  <2> HIDE DEF n, l, k, acc, co, di
  <2> QED BY <2>1, <2>2, <2>3, <2>4
<1> HIDE DEF n, l, k, acc, co, di
<1>5. specials' \in SpecialFields /\ specials'.search = specials.search  BY ONLY <1>1, <1>2, <1>4 DEF SpecialFields
<1> QED BY <1>3, <1>5, SpecialOpKeeps

LEMMA EnsembleKeeps == ASSUME SpecialInv, NEW ms \in SUBSET MsSpecs, CreateEnsemble(ms) PROVE SpecialInv'
<1> DEFINE n == specials.ops + 1
<1>1. specials \in SpecialFields /\ specials.search.pc # "scan"  BY DEF SpecialInv, CreateEnsemble, SpecialOp
<1>2. n \in Nat  BY <1>1, SpecialFieldsOf
<1>3. specials' = [specials EXCEPT !.ensemble = ms, !.ops = n]
  BY <1>1 DEF CreateEnsemble, SpecialOp, SpecialStep, SpecialFields
<1> HIDE DEF n
<1>4. specials' \in SpecialFields /\ specials'.search = specials.search  BY <1>1, <1>2, <1>3 DEF SpecialFields
<1> QED BY <1>1, <1>4, SpecialOpKeeps

LEMMA SearchBegins == ASSUME SpecialInv, NEW a \in MsCosts, NEW c \in MsCosts, FindOptimal(a, c) PROVE SpecialInv'
<1> DEFINE q == [pc |-> "scan", left |-> specials.models, best |-> "none", minAccuracy |-> a, maxCost |-> c, cost |-> 0]
           n == specials.ops + 1
<1>1. specials \in SpecialFields  BY DEF SpecialInv
<1>2. n \in Nat /\ q \in SearchState /\ q.left = specials.models /\ q.best = "none"
  BY <1>1, SpecialFieldsOf DEF SearchState
<1>3. specials' = [specials EXCEPT !.search = q, !.ops = n]
  BY <1>1 DEF FindOptimal, SpecialOp, SpecialStep, SpecialFields
<1> HIDE DEF q, n
<1>4. specials' \in SpecialFields /\ specials'.search = q /\ specials'.models = specials.models
  BY ONLY <1>1, <1>2, <1>3 DEF SpecialFields
<1> QED BY <1>2, <1>4 DEF SpecialInv, BestSoFar

\* A step of the search leaves what it compares alone.
LEMMA SearchMoves ==
    ASSUME SpecialInv, NEW q \in SearchState, specials' = [specials EXCEPT !.search = q],
           q.minAccuracy = specials.search.minAccuracy, q.maxCost = specials.search.maxCost
    PROVE  /\ specials' \in SpecialFields /\ specials'.search = q /\ specials'.models = specials.models
           /\ \A m \in MsSpecs : EffectiveCost(m)' = EffectiveCost(m) /\ (CostEligible(m)' <=> CostEligible(m))
<1>1. specials \in SpecialFields  BY DEF SpecialInv
<1>2. /\ specials' \in SpecialFields /\ specials'.search = q /\ specials'.models = specials.models
      /\ specials'.cost = specials.cost /\ specials'.discounted = specials.discounted /\ specials'.accuracy = specials.accuracy
  BY <1>1 DEF SpecialFields
<1> QED BY <1>2 DEF EffectiveCost, CostEligible

LEMMA EligibleCosts == ASSUME SpecialInv, NEW m \in MsSpecs PROVE EffectiveCost(m) \in Int /\ (CostEligible(m) => EffectiveCost(m) \in Nat)
<1>1. specials.cost[m] \in MsCosts \cup {-1}  BY SpecialFieldsOf DEF SpecialInv
<1> DEFINE c == specials.cost[m]
<1>3. EffectiveCost(m) = IF m \in specials.discounted THEN c \div 2 ELSE c  BY DEF EffectiveCost
<1>4. CostEligible(m) => c # -1  BY DEF CostEligible
<1> HIDE DEF c
<1>2. c \in MsCosts \cup {-1} /\ MsCosts \subseteq Nat  BY <1>1, MsAssumption DEF c
<1>5. c \in Int /\ (c # -1 => c \in Nat)  BY ONLY <1>2
<1>6. c \div 2 \in Int /\ (c \in Nat => c \div 2 \in Nat)  BY <1>5
<1> QED BY <1>3, <1>4, <1>5, <1>6

LEMMA ScanKeeps == ASSUME SpecialInv, NEW m \in MsSpecs, ScanModel(m) PROVE SpecialInv'
<1> DEFINE s == specials.search
           better == CostEligible(m) /\ (s.best = "none" \/ EffectiveCost(m) < s.cost)
           l == s.left \ {m}
           b == IF better THEN m ELSE s.best
           c == IF better THEN EffectiveCost(m) ELSE s.cost
           q == [s EXCEPT !.left = l, !.best = b, !.cost = c]
           seen == {x \in specials.models \ s.left : CostEligible(x)}
           now == {x \in specials.models \ l : CostEligible(x)}
<1>1. specials \in SpecialFields /\ s.pc = "scan" /\ m \in s.left  BY DEF SpecialInv, ScanModel
<1>2. s \in SearchState /\ specials.models \in SUBSET MsSpecs  BY <1>1, SpecialFieldsOf
<1>3. specials' = [specials EXCEPT !.search = q]  BY DEF ScanModel, SpecialStep
<1>4. /\ s.left \subseteq specials.models
      /\ IF s.best = "none" THEN seen = {}
         ELSE s.best \in seen /\ s.cost = EffectiveCost(s.best) /\ \A x \in seen : s.cost <= EffectiveCost(x)
  BY <1>1 DEF SpecialInv, BestSoFar
<1>5. s.left \in SUBSET MsSpecs /\ s.best \in MsSpecs \cup {"none"} /\ s.cost \in Nat  BY <1>2 DEF SearchState
<1>6. l \in SUBSET MsSpecs /\ b \in MsSpecs \cup {"none"} /\ c \in Nat  BY <1>5, EligibleCosts
<1>7. q \in SearchState /\ q.best = b /\ q.cost = c /\ q.left = l /\ q.minAccuracy = s.minAccuracy /\ q.maxCost = s.maxCost
  <2> HIDE DEF l, b, c
  <2> QED BY <1>2, <1>6 DEF SearchState
<1>8. IF b = "none" THEN now = {}
      ELSE b \in now /\ c = EffectiveCost(b) /\ \A x \in now : c <= EffectiveCost(x)
  <2>1. now = seen \cup (IF m \in specials.models /\ CostEligible(m) THEN {m} ELSE {})  BY <1>1
  <2>2. \A x \in now \cup {m} : EffectiveCost(x) \in Int  BY <1>2, EligibleCosts
  <2>3. m \in specials.models  BY <1>1, <1>4
  <2>4. m # "none"  BY MsAssumption
  <2> HIDE DEF seen, now
  <2>5. CASE better  BY <1>4, <1>5, <2>1, <2>2, <2>3, <2>4, <2>5
  <2>6. CASE ~better  BY <1>4, <1>5, <2>1, <2>2, <2>3, <2>4, <2>6
  <2> QED BY <2>5, <2>6
<1>9. /\ specials' \in SpecialFields /\ specials'.search = q /\ specials'.models = specials.models
      /\ \A x \in MsSpecs : EffectiveCost(x)' = EffectiveCost(x) /\ (CostEligible(x)' <=> CostEligible(x))
  <2> HIDE DEF q
  <2> QED BY <1>3, <1>7, SearchMoves
<1>10. {x \in specials'.models \ specials'.search.left : CostEligible(x)'} = now  BY <1>2, <1>7, <1>9
<1>11. b # "none" => b \in MsSpecs  BY <1>6
<1>12. BestSoFar'
  <2>1. q.left \subseteq specials'.models  BY <1>4, <1>7, <1>9
  <2> HIDE DEF now, q, b, c, l
  <2>2. \A x \in now : x \in MsSpecs  BY <1>2 DEF now
  <2>3. ASSUME NEW z, z = b
        PROVE  IF z = "none" THEN now = {} ELSE z \in now /\ c = EffectiveCost(z)' /\ \A x \in now : c <= EffectiveCost(x)'
    BY <1>8, <1>9, <1>11, <2>2, <2>3
  <2>4. PICK z : z = b  OBVIOUS
  <2>5. specials'.search.best = z /\ specials'.search.cost = c  BY <1>7, <1>9, <2>4
  <2> QED BY <1>9, <1>10, <2>1, <2>3, <2>4, <2>5 DEF BestSoFar, EffectiveCost
<1> QED BY <1>9, <1>12 DEF SpecialInv

LEMMA ScanEndKeeps == ASSUME SpecialInv, ScanEnds PROVE SpecialInv'
<1> DEFINE s == specials.search
           p == IF s.best = "none" THEN "none" ELSE "found"
           q == [s EXCEPT !.pc = p]
<1>1. specials \in SpecialFields /\ specials' = [specials EXCEPT !.search.pc = p]
  BY DEF SpecialInv, ScanEnds, SpecialStep
<1>2. s \in SearchState  BY <1>1, SpecialFieldsOf
<1>3. q \in SearchState /\ q.pc # "scan"  BY <1>2 DEF SearchState
<1>4. specials' = [specials EXCEPT !.search = q]  BY <1>1 DEF SpecialFields
<1> HIDE DEF q
<1>5. specials' \in SpecialFields /\ specials'.search = q  BY <1>1, <1>3, <1>4 DEF SpecialFields
<1> QED BY <1>3, <1>5 DEF SpecialInv, BestSoFar

LEMMA SpecialStepKeeps == ASSUME SpecialInv, SpecialNext PROVE SpecialInv'
  BY SpecializationsKeep, EnsembleKeeps, SearchBegins, ScanKeeps, ScanEndKeeps DEF SpecialNext

LEMMA SpecialSafe == SpecialInv => CheapestIsFound  BY DEF SpecialInv, BestSoFar, CheapestIsFound

-----------------------------------------------------------------------------
(* ModelStore: the parts together.                                         *)

MsInv ==
    /\ DownloadOK(downloads) /\ StartupOK(startup) /\ FileOK(filecheck) /\ adapters \in AdapterFields
    /\ SpecialInv

LEMMA MsInitial == MsInit => MsInv
<1> SUFFICES ASSUME MsInit PROVE MsInv  OBVIOUS
<1>1. DownloadOK(downloads)
  <2>1. MsIdle \in DownloadTask /\ MsIdle.pc = "idle"  BY DEF MsIdle, DownloadTask
  <2>2. downloads \in DownloadFields /\ downloads.permits = MsSlots /\ downloads.task = [t \in MsTasks |-> MsIdle]
    BY <2>1, MsAssumption DEF MsInit, DownloadFields
  <2>3. DownloadsRun(downloads) = {}  BY <2>1, <2>2 DEF DownloadsRun
  <2>4. Cardinality({}) = 0  BY FS_EmptySet
  <2> QED BY <2>1, <2>2, <2>3, <2>4, MsAssumption DEF DownloadOK
<1>2. StartupOK(startup)
  <2> DEFINE h == CHOOSE x \in MsContents : TRUE
  <2>1. h \in MsContents  BY MsAssumption
  <2>2. PICK e \in BOOLEAN :
        startup = [approved |-> [f \in MsFiles |-> TRUE], hash |-> [f \in MsFiles |-> h], authorized |-> {},
                   wasAuthorized |-> {}, disk |-> [f \in MsFiles |-> "absent"], map |-> {}, cache |-> {},
                   enabled |-> e, seen |-> "none", ops |-> 0, check |-> NoCheck]  BY DEF MsInit
  <2> HIDE DEF h
  <2>3. NoCheck \in StartupCheck /\ NoCheck.pc = "idle"  BY DEF NoCheck, StartupCheck
  <2>4. [f \in MsFiles |-> TRUE] \in Approvals  BY DEF Approvals
  <2> QED BY <2>1, <2>2, <2>3, <2>4 DEF StartupOK, StartupFields, CheckFound
<1>3. FileOK(filecheck)  BY DEF MsInit, FileOK, FileFields, FileContents, FileCheck, FileResult
<1>4. adapters \in AdapterFields  BY DEF MsInit, AdapterFields
<1>5. SpecialInv
  <2>1. LowCost \in MsCosts
    <3>1. MsCosts \in SUBSET Nat /\ MsCosts # {}  BY MsAssumption
    <3>2. \E m \in MsCosts : \A n \in MsCosts : m <= n  BY <3>1, NatLeast
    <3> QED BY <3>2 DEF LowCost
  <2> DEFINE q == [pc |-> "idle", left |-> {}, best |-> "none", minAccuracy |-> LowCost, maxCost |-> LowCost, cost |-> 0]
  <2>2. q \in SearchState /\ q.pc = "idle"  BY <2>1 DEF SearchState
  <2>3. specials = [models |-> {}, accuracy |-> [m \in MsSpecs |-> LowCost], cost |-> [m \in MsSpecs |-> -1],
                    discounted |-> {}, language |-> {}, ensemble |-> {}, ops |-> 0, search |-> q]  BY DEF MsInit
  <2> HIDE DEF q
  <2>4. [m \in MsSpecs |-> LowCost] \in [MsSpecs -> MsCosts] /\ [m \in MsSpecs |-> -1] \in [MsSpecs -> MsCosts \cup {-1}]
    BY <2>1
  <2>5. specials \in SpecialFields /\ specials.search = q  BY <2>2, <2>3, <2>4 DEF SpecialFields
  <2> QED BY <2>2, <2>5 DEF SpecialInv, BestSoFar
<1> QED BY <1>1, <1>2, <1>3, <1>4, <1>5 DEF MsInv

LEMMA MsStep == ASSUME MsInv, [MsNext]_msVars PROVE MsInv'
<1>1. DownloadOK(downloads) /\ StartupOK(startup) /\ FileOK(filecheck) /\ adapters \in AdapterFields /\ SpecialInv
  BY DEF MsInv
<1>2. specials' = specials => SpecialInv'  BY <1>1 DEF SpecialInv, BestSoFar, CostEligible, EffectiveCost
<1>3. CASE DownloadNext
  <2>1. UNCHANGED <<startup, filecheck, adapters, specials>>
    BY <1>3, Zenon DEF DownloadNext, StartDownload, PauseDownload, CancelFileDownload, AcquirePermit, CheckSpace, TryDownload,
                       TryFails, DownloadModelFile, DownloadStep
  <2> QED BY <1>1, <1>2, <1>3, <2>1, DownloadStepKeeps DEF MsInv
<1>4. CASE StartupNext
  <2>1. UNCHANGED <<downloads, filecheck, adapters, specials>>
    BY <1>4, Zenon DEF StartupNext, ContractChanges, ValidateAtStartup, BuildModelMap, ClearAuthorizationCache, CheckApproved,
                       GetDetails, VerifyHash, CheckHost, StartupAgain, StartupOp, StartupStep, Refused
  <2> QED BY <1>1, <1>2, <1>4, <2>1, StartupStepKeeps DEF MsInv
<1>5. CASE FileNext
  <2>1. UNCHANGED <<downloads, startup, adapters, specials>>
    BY <1>5, Zenon DEF FileNext, FileChanges, ValidateWithIntegrity, ValidateModelFile, FileOp, FileStep
  <2> QED BY <1>1, <1>2, <1>5, <2>1, FileStepKeeps DEF MsInv
<1>6. CASE SpecialNext
  <2>1. UNCHANGED <<downloads, startup, filecheck, adapters>>
    BY <1>6, Zenon DEF SpecialNext, SetLanguageSupport, ScanModel, RegisterSpecialization, UpdateFromBenchmark, SetCostProfile,
                       CreateEnsemble, FindOptimal, ScanEnds, SpecialOp, SpecialStep
  <2> QED BY <1>1, <1>6, <2>1, SpecialStepKeeps DEF MsInv
<1>7. ASSUME NEW f \in MsFiles, RegisterFinetuned(f) \/ AdapterFilesChange(f) \/ LoadAdapter(f) \/ LoadBaseModel(f)
      PROVE  MsInv'
  <2>1. UNCHANGED <<downloads, startup, filecheck, specials>>
    BY <1>7, Zenon DEF RegisterFinetuned, AdapterFilesChange, LoadAdapter, LoadBaseModel, AdapterOp
  <2> QED BY <1>1, <1>2, <1>7, <2>1, AdapterStepKeeps DEF MsInv
<1>8. CASE UNCHANGED msVars  BY <1>1, <1>2, <1>8 DEF MsInv, msVars
<1> QED BY <1>3, <1>4, <1>5, <1>6, <1>7, <1>8 DEF MsNext

LEMMA MsSafe == MsInv => MsTypeOK /\ StartupIsChecked /\ VerifiedWasMatched /\ DownloadSlotsKept /\ CheapestIsFound
<1> SUFFICES ASSUME MsInv PROVE MsTypeOK /\ StartupIsChecked /\ VerifiedWasMatched /\ DownloadSlotsKept /\ CheapestIsFound
  OBVIOUS
<1>1. downloads \in DownloadState  BY DEF MsInv, DownloadOK, DownloadFields, DownloadTask, DownloadState
<1>2. startup \in StartupState  BY DEF MsInv, StartupOK, StartupFields, StartupCheck, Approvals, StartupState
<1>3. filecheck \in FileCheckState
  BY DEF MsInv, FileOK, FileFields, FileContents, FileCheck, FileResult, FileCheckState
<1>4. adapters \in AdapterState  BY DEF MsInv, AdapterFields, AdapterState
<1>5. specials \in SpecialState  BY DEF MsInv, SpecialInv, SpecialFields, SearchState, SpecialState
<1>6. DownloadSlotsKept  BY DEF MsInv, DownloadOK, DownloadsRun, DownloadSlotsKept
<1> QED BY <1>1, <1>2, <1>3, <1>4, <1>5, <1>6, StartupSafe, FileSafe, SpecialSafe DEF MsInv, MsTypeOK

-----------------------------------------------------------------------------
(* ModelStore: updates.                                                    *)

UpdEntry == [m : UpdModels, v : ModelVersion]

UpdTask == [pc : {"idle", "backup", "download", "record"}, plan : Seq(UpdEntry), ok : Nat, failed : Nat, backup : Nat, hot : BOOLEAN]

UpdFields ==
    [now : 0 .. MaxUpdNow, ops : 0 .. MaxUpdates, history : [UpdModels -> Seq(ModelVersion)],
     backups : [UpdModels -> Seq(0 .. MaxUpdNow)], updates : Seq(UpdateTracking),
     file : [m : UpdModels \cup {"none"}, v : ModelVersion], task : [UpdTasks -> UpdTask],
     restored : SUBSET RecoveryInfo, told : Nat, done : [UpdModels -> Nat]]

\* The tasks that are past the backup of a model, and whether one is.
PastBackup(s, m) == {t \in UpdTasks : s.task[t].pc \in {"download", "record"} /\ Head(s.task[t].plan).m = m}
IsPast(u, m) == IF u.pc \in {"download", "record"} /\ Head(u.plan).m = m THEN 1 ELSE 0

UpdOK(s) ==
    /\ s \in UpdFields
    /\ \A t \in UpdTasks : s.task[t].pc # "idle" => s.task[t].plan # <<>>
    /\ \A m \in UpdModels : s.done[m] + Cardinality(PastBackup(s, m)) <= Len(s.backups[m])

LEMMA UpdFieldsOf ==
    ASSUME NEW s \in UpdFields
    PROVE  /\ s.now \in 0 .. MaxUpdNow /\ s.now \in Nat /\ s.ops \in 0 .. MaxUpdates /\ s.ops \in Nat
           /\ s.history \in [UpdModels -> Seq(ModelVersion)] /\ s.backups \in [UpdModels -> Seq(0 .. MaxUpdNow)]
           /\ s.updates \in Seq(UpdateTracking) /\ s.file \in [m : UpdModels \cup {"none"}, v : ModelVersion]
           /\ s.task \in [UpdTasks -> UpdTask] /\ s.restored \in SUBSET RecoveryInfo /\ s.told \in Nat /\ s.done \in [UpdModels -> Nat]
           /\ \A t \in UpdTasks : s.task[t] \in UpdTask
           /\ \A m \in UpdModels : s.done[m] \in Nat /\ Len(s.backups[m]) \in Nat /\ s.backups[m] \in Seq(0 .. MaxUpdNow)
                                   /\ s.history[m] \in Seq(ModelVersion)
           /\ \A m \in UpdModels : IsFiniteSet(PastBackup(s, m)) /\ Cardinality(PastBackup(s, m)) \in Nat
<1>1. /\ s.now \in 0 .. MaxUpdNow /\ s.ops \in 0 .. MaxUpdates
      /\ s.history \in [UpdModels -> Seq(ModelVersion)] /\ s.backups \in [UpdModels -> Seq(0 .. MaxUpdNow)]
      /\ s.updates \in Seq(UpdateTracking) /\ s.file \in [m : UpdModels \cup {"none"}, v : ModelVersion]
      /\ s.task \in [UpdTasks -> UpdTask] /\ s.restored \in SUBSET RecoveryInfo /\ s.told \in Nat /\ s.done \in [UpdModels -> Nat]
  BY DEF UpdFields
<1>2. s.now \in Nat /\ s.ops \in Nat  BY <1>1, UpdAssumption
<1>3. \A m \in UpdModels : s.done[m] \in Nat /\ Len(s.backups[m]) \in Nat /\ s.backups[m] \in Seq(0 .. MaxUpdNow)
                           /\ s.history[m] \in Seq(ModelVersion)
  BY <1>1, LenProperties
<1>4. \A m \in UpdModels : PastBackup(s, m) \subseteq UpdTasks  BY DEF PastBackup
<1>5. \A m \in UpdModels : IsFiniteSet(PastBackup(s, m)) /\ Cardinality(PastBackup(s, m)) \in Nat
  BY <1>4, UpdAssumption, FS_Subset, FS_CardinalityType
<1>6. \A t \in UpdTasks : s.task[t] \in UpdTask  BY <1>1
<1> QED BY <1>1, <1>2, <1>3, <1>5, <1>6

\* A task moves on, and what it installs or leaves behind is backed up.
LEMMA UpdMoves ==
    ASSUME UpdOK(updater), updater' \in UpdFields, NEW t \in UpdTasks, NEW u \in UpdTask, u.pc # "idle" => u.plan # <<>>,
           updater'.task = [updater.task EXCEPT ![t] = u],
           \A m \in UpdModels : updater'.done[m] + IsPast(u, m) + Len(updater.backups[m])
                                   <= Len(updater'.backups[m]) + updater.done[m] + IsPast(updater.task[t], m)
    PROVE  UpdOK(updater')
<1>1. updater \in UpdFields  BY DEF UpdOK
<1>2. updater.task \in [UpdTasks -> UpdTask]  BY <1>1, UpdFieldsOf
<1>3. \A x \in UpdTasks : updater'.task[x].pc # "idle" => updater'.task[x].plan # <<>>  BY <1>2 DEF UpdOK
<1>4. ASSUME NEW m \in UpdModels
      PROVE  updater'.done[m] + Cardinality(PastBackup(updater', m)) <= Len(updater'.backups[m])
  <2> DEFINE f == PastBackup(updater, m)
             g == PastBackup(updater', m)
  <2>1. IsFiniteSet(f) /\ Cardinality(f) \in Nat /\ updater.done[m] \in Nat /\ Len(updater.backups[m]) \in Nat
    BY <1>1, UpdFieldsOf
  <2>2. Cardinality(g) \in Nat /\ updater'.done[m] \in Nat /\ Len(updater'.backups[m]) \in Nat  BY UpdFieldsOf
  <2>3. updater.done[m] + Cardinality(f) <= Len(updater.backups[m])  BY DEF UpdOK
  <2>4. g = (f \ {t}) \cup (IF IsPast(u, m) = 1 THEN {t} ELSE {})  BY <1>2 DEF PastBackup, IsPast
  <2>5. (t \in f <=> IsPast(updater.task[t], m) = 1) /\ IsPast(updater.task[t], m) \in {0, 1} /\ IsPast(u, m) \in {0, 1}
    BY DEF PastBackup, IsPast
  <2> HIDE DEF f, g
  <2>6. IsFiniteSet(f \ {t}) /\ Cardinality(f \ {t}) = Cardinality(f) - (IF t \in f THEN 1 ELSE 0) /\ t \notin f \ {t}
    <3>1. IsFiniteSet(f) /\ Cardinality(f) \in Nat  BY <2>1
    <3>2. IsFiniteSet(f \ {t}) /\ Cardinality(f \ {t}) = IF t \in f THEN Cardinality(f) - 1 ELSE Cardinality(f)
      BY ONLY <3>1, FS_RemoveElement
    <3> QED BY ONLY <3>1, <3>2
  <2>7. Cardinality(f \ {t}) \in Nat  BY <2>6, FS_CardinalityType
  <2>8. Cardinality(g) = Cardinality(f \ {t}) + IsPast(u, m)
    <3>1. CASE IsPast(u, m) = 1  BY <2>4, <2>6, <3>1, FS_AddElement
    <3>2. CASE IsPast(u, m) = 0
      <4>1. g = f \ {t}  BY <2>4, <3>2
      <4> QED BY <2>7, <3>2, <4>1
    <3> QED BY <2>5, <3>1, <3>2
  <2>9. updater'.done[m] + IsPast(u, m) + Len(updater.backups[m]) <= Len(updater'.backups[m]) + updater.done[m] + IsPast(updater.task[t], m)
    OBVIOUS
  <2> DEFINE a == updater.done[m]
             b == Len(updater.backups[m])
             c == updater'.done[m]
             d == Len(updater'.backups[m])
             x == IsPast(u, m)
             y == IsPast(updater.task[t], m)
             z == Cardinality(f)
             k == Cardinality(g)
  <2>10. k = z - y + x  BY <2>1, <2>5, <2>6, <2>8
  <2>11. a \in Nat /\ b \in Nat /\ c \in Nat /\ d \in Nat /\ x \in Nat /\ y \in Nat /\ z \in Nat /\ a + z <= b /\ c + x + b <= d + a + y
    BY <2>1, <2>2, <2>3, <2>5, <2>9
  <2> HIDE DEF a, b, c, d, x, y, z, k
  <2>12. c + k <= d  BY <2>10, <2>11
  <2> QED BY <2>12 DEF c, d, k, g
<1> QED BY <1>3, <1>4 DEF UpdOK

\* A step that no task takes.
LEMMA UpdStays ==
    ASSUME UpdOK(updater), updater' \in UpdFields, updater'.task = updater.task, updater'.done = updater.done, updater'.backups = updater.backups
    PROVE  UpdOK(updater')  BY DEF UpdOK, PastBackup

\* What NextOfBatch leaves of a task.
LEMMA NextOfBatchIs ==
    ASSUME NEW t \in UpdTasks, updater.task[t] \in UpdTask, updater.task[t].plan # <<>>, NEW ok \in BOOLEAN
    PROVE  /\ NextOfBatch(t, ok) \in UpdTask
           /\ NextOfBatch(t, ok).pc \in {"idle", "backup"}
           /\ NextOfBatch(t, ok).pc # "idle" => NextOfBatch(t, ok).plan # <<>>
<1> DEFINE u == updater.task[t]
           k == IF ok THEN u.ok + 1 ELSE u.ok
           f == IF ok THEN u.failed ELSE u.failed + 1
           q == Tail(u.plan)
           p == IF Len(u.plan) > 1 THEN "backup" ELSE "idle"
<1>1. u \in UpdTask /\ u.plan \in Seq(UpdEntry) /\ u.plan # <<>> /\ u.ok \in Nat /\ u.failed \in Nat  BY DEF UpdTask
<1>2. NextOfBatch(t, ok) = [u EXCEPT !.ok = k, !.failed = f, !.plan = q, !.backup = 0, !.pc = p]  BY DEF NextOfBatch
<1>3. k \in Nat /\ f \in Nat  BY <1>1
<1>4. q \in Seq(UpdEntry) /\ Len(q) = Len(u.plan) - 1 /\ Len(u.plan) \in Nat  BY <1>1, HeadTailProperties, LenProperties
<1>5. p \in {"idle", "backup"} /\ (p # "idle" => q # <<>>)
  <2>1. ASSUME Len(u.plan) > 1, q = <<>>
        PROVE  FALSE  BY <1>4, <2>1, EmptySeq
  <2> QED BY <2>1
<1> HIDE DEF u, k, f, q, p
<1>6. [u EXCEPT !.ok = k, !.failed = f, !.plan = q, !.backup = 0, !.pc = p] \in UpdTask
      /\ [u EXCEPT !.ok = k, !.failed = f, !.plan = q, !.backup = 0, !.pc = p].pc = p
      /\ [u EXCEPT !.ok = k, !.failed = f, !.plan = q, !.backup = 0, !.pc = p].plan = q
  BY ONLY <1>1, <1>3, <1>4, <1>5 DEF UpdTask
<1> QED BY ONLY <1>2, <1>5, <1>6

\* The task alone moves, and not past a backup it was not past before.
LEMMA UpdTaskMoves ==
    ASSUME UpdOK(updater), NEW t \in UpdTasks, NEW u \in UpdTask, u.pc # "idle" => u.plan # <<>>, NEW n \in 0 .. MaxUpdates,
           NEW e \in [m : UpdModels \cup {"none"}, v : ModelVersion],
           updater' = [updater EXCEPT !.task = [updater.task EXCEPT ![t] = u], !.ops = n, !.file = e],
           \A m \in UpdModels : IsPast(u, m) <= IsPast(updater.task[t], m)
    PROVE  UpdOK(updater')
<1>1. updater \in UpdFields  BY DEF UpdOK
<1>2. [updater.task EXCEPT ![t] = u] \in [UpdTasks -> UpdTask]  BY <1>1, UpdFieldsOf
<1>3. /\ updater' \in UpdFields /\ updater'.task = [updater.task EXCEPT ![t] = u]
      /\ updater'.done = updater.done /\ updater'.backups = updater.backups
  BY <1>1, <1>2 DEF UpdFields
<1>4. ASSUME NEW m \in UpdModels
      PROVE  updater'.done[m] + IsPast(u, m) + Len(updater.backups[m]) <= Len(updater'.backups[m]) + updater.done[m] + IsPast(updater.task[t], m)
  <2>1. updater.done[m] \in Nat /\ Len(updater.backups[m]) \in Nat  BY <1>1, UpdFieldsOf
  <2>2. IsPast(u, m) \in Nat /\ IsPast(updater.task[t], m) \in Nat /\ IsPast(u, m) <= IsPast(updater.task[t], m)
    BY DEF IsPast
  <2> QED BY <1>3, <2>1, <2>2
<1> QED BY <1>3, <1>4, UpdMoves

LEMMA BeginsKeep ==
    ASSUME UpdOK(updater), NEW t \in UpdTasks, NEW plan \in Seq(UpdEntry), plan # <<>>, NEW hot \in BOOLEAN, BeginUpdates(t, plan, hot)
    PROVE  UpdOK(updater')
<1> DEFINE u == [UpdTaskIdle EXCEPT !.pc = "backup", !.plan = plan, !.hot = hot]
           n == updater.ops + Len(plan)
<1>1. updater \in UpdFields  BY DEF UpdOK
<1>2. n \in 0 .. MaxUpdates  BY <1>1, UpdFieldsOf, LenProperties, UpdAssumption DEF BeginUpdates
<1>3. u \in UpdTask /\ u.pc = "backup" /\ u.plan = plan  BY DEF UpdTask, UpdTaskIdle
<1>4. updater' = [updater EXCEPT !.ops = n, !.task[t] = u]  BY DEF BeginUpdates
<1> HIDE DEF u, n
<1>5. updater' = [updater EXCEPT !.task = [updater.task EXCEPT ![t] = u], !.ops = n, !.file = updater.file]
  BY <1>1, <1>4 DEF UpdFields
<1>6. updater.file \in [m : UpdModels \cup {"none"}, v : ModelVersion]  BY <1>1, UpdFieldsOf
<1>7. \A m \in UpdModels : IsPast(u, m) <= IsPast(updater.task[t], m)  BY <1>3 DEF IsPast
<1> QED BY <1>2, <1>3, <1>5, <1>6, <1>7, UpdTaskMoves

\* An update of the batch that fails.
LEMMA BatchFails ==
    ASSUME UpdOK(updater), NEW t \in UpdTasks, updater.task[t].pc # "idle", updater' = [updater EXCEPT !.task[t] = NextOfBatch(t, FALSE)]
    PROVE  UpdOK(updater')
<1> DEFINE u == NextOfBatch(t, FALSE)
<1>1. updater \in UpdFields /\ updater.task[t].plan # <<>>  BY DEF UpdOK
<1>2. updater.task[t] \in UpdTask /\ updater.ops \in 0 .. MaxUpdates /\ updater.file \in [m : UpdModels \cup {"none"}, v : ModelVersion]
  BY <1>1, UpdFieldsOf
<1>3. u \in UpdTask /\ u.pc \in {"idle", "backup"} /\ (u.pc # "idle" => u.plan # <<>>)  BY <1>1, <1>2, NextOfBatchIs
<1> HIDE DEF u
<1>4. updater' = [updater EXCEPT !.task = [updater.task EXCEPT ![t] = u], !.ops = updater.ops, !.file = updater.file]
  BY <1>1 DEF UpdFields, u
<1>5. \A m \in UpdModels : IsPast(u, m) <= IsPast(updater.task[t], m)  BY <1>3 DEF IsPast
<1> QED BY <1>2, <1>3, <1>4, <1>5, UpdTaskMoves

LEMMA BackupKeeps == ASSUME UpdOK(updater), NEW t \in UpdTasks, CreateBackup(t) PROVE UpdOK(updater')
<1> DEFINE r == updater.task[t]
           m == Head(r.plan).m
           u == [r EXCEPT !.pc = "download", !.backup = updater.now]
           b == Append(updater.backups[m], updater.now)
           k == [updater.backups EXCEPT ![m] = b]
<1>1. updater \in UpdFields /\ r.pc = "backup" /\ r.plan # <<>>  BY DEF UpdOK, CreateBackup
<1>2. /\ r \in UpdTask /\ updater.now \in 0 .. MaxUpdNow /\ updater.now \in Nat /\ updater.task \in [UpdTasks -> UpdTask]
      /\ updater.backups \in [UpdModels -> Seq(0 .. MaxUpdNow)]
  BY <1>1, UpdFieldsOf
<1>3. m \in UpdModels
  <2>1. r.plan \in Seq(UpdEntry)  BY <1>2 DEF UpdTask
  <2>2. Head(r.plan) \in UpdEntry  BY <1>1, <2>1, HeadTailProperties
  <2> QED BY <2>2 DEF UpdEntry
<1>4. b \in Seq(0 .. MaxUpdNow) /\ Len(b) = Len(updater.backups[m]) + 1 /\ Len(updater.backups[m]) \in Nat
  BY <1>2, <1>3, AppendProperties, LenProperties
<1>5. u \in UpdTask /\ u.pc = "download" /\ u.plan = r.plan  BY <1>1, <1>2 DEF UpdTask
<1>6. \/ updater' = [updater EXCEPT !.backups[m] = b, !.task[t] = u]
      \/ updater' = [updater EXCEPT !.task[t] = NextOfBatch(t, FALSE)]
  BY DEF CreateBackup
<1>7. CASE updater' = [updater EXCEPT !.backups[m] = b, !.task[t] = u]
  <2> HIDE DEF r, m, u, b
  <2>1. k \in [UpdModels -> Seq(0 .. MaxUpdNow)] /\ [updater.task EXCEPT ![t] = u] \in [UpdTasks -> UpdTask]
    BY <1>2, <1>3, <1>4, <1>5
  <2>2. updater' = [updater EXCEPT !.backups = k, !.task = [updater.task EXCEPT ![t] = u]]  BY <1>1, <1>7 DEF UpdFields
  <2> HIDE DEF k
  <2>3. updater' \in UpdFields /\ updater'.task = [updater.task EXCEPT ![t] = u] /\ updater'.done = updater.done /\ updater'.backups = k
    BY <1>1, <2>1, <2>2 DEF UpdFields
  <2>4. ASSUME NEW x \in UpdModels
        PROVE  updater'.done[x] + IsPast(u, x) + Len(updater.backups[x]) <= Len(updater'.backups[x]) + updater.done[x] + IsPast(updater.task[t], x)
    <3>1. updater.done[x] \in Nat /\ Len(updater.backups[x]) \in Nat  BY <1>1, UpdFieldsOf
    <3>2. IsPast(u, x) = IF x = m THEN 1 ELSE 0  BY <1>5 DEF IsPast, m
    <3>3. IsPast(updater.task[t], x) = 0  BY <1>1 DEF IsPast, r
    <3>4. updater'.backups[x] = IF x = m THEN b ELSE updater.backups[x]  BY <1>2, <1>3, <2>3 DEF k
    <3>5. Len(updater'.backups[x]) = Len(updater.backups[x]) + (IF x = m THEN 1 ELSE 0)
      <4>1. CASE x = m  BY ONLY <1>4, <3>4, <4>1
      <4>2. CASE x # m  BY ONLY <3>1, <3>4, <4>2
      <4> QED BY <4>1, <4>2
    <3> DEFINE d == updater.done[x]
               l == Len(updater.backups[x])
               i == IF x = m THEN 1 ELSE 0
    <3>6. /\ updater'.done[x] = d /\ IsPast(u, x) = i /\ Len(updater'.backups[x]) = l + i /\ IsPast(updater.task[t], x) = 0
          /\ d \in Nat /\ l \in Nat /\ i \in Nat
      BY <2>3, <3>1, <3>2, <3>3, <3>5
    <3> HIDE DEF d, l, i
    <3>7. d + i + l <= l + i + d + 0  BY ONLY <3>6
    <3> QED BY <3>6, <3>7 DEF l, d
  <2> QED BY <1>1, <1>5, <2>3, <2>4, UpdMoves
<1> QED BY <1>1, <1>6, <1>7, BatchFails

LEMMA DownloadUpdateKeeps == ASSUME UpdOK(updater), NEW t \in UpdTasks, DownloadUpdate(t) PROVE UpdOK(updater')
<1> DEFINE r == updater.task[t]
           u == [r EXCEPT !.pc = "record"]
           e == Head(r.plan)
<1>1. updater \in UpdFields /\ r.pc = "download" /\ r.plan # <<>>  BY DEF UpdOK, DownloadUpdate
<1>2. r \in UpdTask /\ updater.ops \in 0 .. MaxUpdates  BY <1>1, UpdFieldsOf
<1>3. e \in UpdEntry  BY <1>1, <1>2, HeadTailProperties DEF UpdTask
<1>4. e \in [m : UpdModels \cup {"none"}, v : ModelVersion]  BY <1>3 DEF UpdEntry
<1>5. u \in UpdTask /\ u.pc = "record" /\ u.plan = r.plan  BY <1>2 DEF UpdTask
<1>6. \/ updater' = [updater EXCEPT !.file = e, !.task[t].pc = "record"]
      \/ updater' = [updater EXCEPT !.task[t] = NextOfBatch(t, FALSE)]
  BY DEF DownloadUpdate
<1>7. CASE updater' = [updater EXCEPT !.file = e, !.task[t].pc = "record"]
  <2> HIDE DEF e
  <2>1. updater' = [updater EXCEPT !.task = [updater.task EXCEPT ![t] = u], !.ops = updater.ops, !.file = e]
    BY <1>1, <1>7 DEF UpdFields
  <2> HIDE DEF u
  <2>2. \A m \in UpdModels : IsPast(u, m) <= IsPast(updater.task[t], m)  BY <1>1, <1>5 DEF IsPast
  <2> QED BY <1>1, <1>2, <1>4, <1>5, <2>1, <2>2, UpdTaskMoves
<1> QED BY <1>1, <1>6, <1>7, BatchFails

LEMMA RecordVersionKeeps == ASSUME UpdOK(updater), NEW t \in UpdTasks, RecordVersion(t) PROVE UpdOK(updater')
<1> DEFINE r == updater.task[t]
           e == Head(r.plan)
           m == e.m
           u == NextOfBatch(t, TRUE)
           h == Append(updater.history[m], e.v)
           k == [updater.history EXCEPT ![m] = h]
           c == [updater.done EXCEPT ![m] = updater.done[m] + 1]
<1>1. updater \in UpdFields /\ r.pc = "record" /\ r.plan # <<>>  BY DEF UpdOK, RecordVersion
<1>2. /\ r \in UpdTask /\ updater.task \in [UpdTasks -> UpdTask] /\ updater.history \in [UpdModels -> Seq(ModelVersion)]
      /\ updater.done \in [UpdModels -> Nat]
  BY <1>1, UpdFieldsOf
<1>3. e \in UpdEntry  BY <1>1, <1>2, HeadTailProperties DEF UpdTask
<1>4. m \in UpdModels /\ e.v \in ModelVersion  BY <1>3 DEF UpdEntry
<1>5. h \in Seq(ModelVersion)  BY <1>2, <1>4, AppendProperties
<1>6. u \in UpdTask /\ u.pc \in {"idle", "backup"} /\ (u.pc # "idle" => u.plan # <<>>)  BY <1>1, <1>2, NextOfBatchIs
<1>7. updater' = [updater EXCEPT !.history[m] = h, !.done[m] = updater.done[m] + 1, !.task[t] = u]  BY DEF RecordVersion
<1> HIDE DEF u, h, m
<1>8. k \in [UpdModels -> Seq(ModelVersion)] /\ c \in [UpdModels -> Nat] /\ [updater.task EXCEPT ![t] = u] \in [UpdTasks -> UpdTask]
  BY <1>2, <1>4, <1>5, <1>6
<1>9. updater' = [updater EXCEPT !.history = k, !.done = c, !.task = [updater.task EXCEPT ![t] = u]]
  BY <1>1, <1>7 DEF UpdFields
<1> HIDE DEF k, c
<1>10. updater' \in UpdFields /\ updater'.task = [updater.task EXCEPT ![t] = u] /\ updater'.done = c /\ updater'.backups = updater.backups
  BY <1>1, <1>8, <1>9 DEF UpdFields
<1>11. ASSUME NEW x \in UpdModels
       PROVE  updater'.done[x] + IsPast(u, x) + Len(updater.backups[x]) <= Len(updater'.backups[x]) + updater.done[x] + IsPast(updater.task[t], x)
  <2> DEFINE d == updater.done[x]
             l == Len(updater.backups[x])
             i == IF x = m THEN 1 ELSE 0
  <2>1. d \in Nat /\ l \in Nat /\ i \in Nat  BY <1>1, UpdFieldsOf
  <2>2. IsPast(u, x) = 0 /\ IsPast(updater.task[t], x) = i  BY <1>1, <1>6 DEF IsPast, m
  <2>3. updater'.done[x] = d + i  BY <1>2, <1>4, <1>10 DEF c
  <2>4. Len(updater'.backups[x]) = l  BY <1>10
  <2> HIDE DEF d, l, i
  <2>5. d + i + 0 + l <= l + d + i  BY ONLY <2>1
  <2> QED BY <2>2, <2>3, <2>4, <2>5 DEF l, d
<1> QED BY <1>6, <1>10, <1>11, UpdMoves

LEMMA VersionsOf == /\ VersionNew(0, 0, 0) \in ModelVersion /\ VersionNew(0, 0, 1) \in ModelVersion
                    /\ WithPreRelease(VersionNew(0, 0, 1)) \in ModelVersion
  BY UpdAssumption DEF VersionNew, WithPreRelease, ModelVersion

LEMMA ApplyKeeps == ASSUME UpdOK(updater), NEW t \in UpdTasks, NEW m \in UpdModels, NEW v \in ModelVersion, ApplyUpdate(t, m, v) PROVE UpdOK(updater')
<1> DEFINE plan == <<[m |-> m, v |-> v]>>
<1>1. PICK hot \in BOOLEAN : BeginUpdates(t, plan, hot)  BY DEF ApplyUpdate
<1>2. [m |-> m, v |-> v] \in UpdEntry  BY DEF UpdEntry
<1>3. plan \in Seq(UpdEntry) /\ plan # <<>>  BY <1>2
<1> HIDE DEF plan
<1> QED BY <1>1, <1>3, BeginsKeep

LEMMA BatchUpdatesKeep == ASSUME UpdOK(updater), NEW t \in UpdTasks, ApplyBatchUpdates(t) PROVE UpdOK(updater')
<1> DEFINE cur == [m \in UpdModels |-> IF updater.history[m] = <<>> THEN VersionNew(0, 0, 0) ELSE Last(updater.history[m])]
           next(m) == VersionNew(cur[m].major, cur[m].minor, cur[m].patch + 1)
           found == CheckBatchUpdates(UpdModels, cur)
           S == {[m |-> i.model, v |-> i.new] : i \in {j \in found : j.new.patch <= MaxPart + 1}}
           M == {m \in UpdModels : [m |-> m, v |-> next(m)] \in S}
           f == [m \in M |-> [m |-> m, v |-> next(m)]]
<1>1. PICK p \in SetToSeqs(S) : p # <<>> /\ BeginUpdates(t, p, FALSE)  BY Zenon DEF ApplyBatchUpdates
<1>2. updater.history \in [UpdModels -> Seq(ModelVersion)]  BY UpdFieldsOf DEF UpdOK
<1>3. \A m \in UpdModels : cur[m] \in ModelVersion
  <2> SUFFICES ASSUME NEW m \in UpdModels PROVE cur[m] \in ModelVersion  OBVIOUS
  <2>1. CASE updater.history[m] = <<>>  BY <2>1, VersionsOf
  <2>2. CASE updater.history[m] # <<>>
    <3>1. Last(updater.history[m]) \in ModelVersion  BY <1>2, <2>2, LenProperties, ElementOfSeq, EmptySeq DEF Last
    <3> QED BY <2>2, <3>1
  <2> QED BY <2>1, <2>2
<1> HIDE DEF cur
<1>4. ASSUME NEW e \in S
      PROVE  \E m \in UpdModels : e = [m |-> m, v |-> next(m)] /\ next(m).patch <= MaxPart + 1
  <2>1. PICK i \in found : e = [m |-> i.model, v |-> i.new] /\ i.new.patch <= MaxPart + 1  BY Zenon
  <2>2. PICK m \in UpdModels : i \in CheckForUpdates(m, cur[m])  BY <2>1, Zenon DEF CheckBatchUpdates
  <2>3. i.model = m /\ i.new = next(m)  BY <2>2 DEF CheckForUpdates
  <2> QED BY <2>1, <2>3
<1>5. \A m \in UpdModels : next(m).patch <= MaxPart + 1 => [m |-> m, v |-> next(m)] \in UpdEntry
  BY <1>3, UpdAssumption DEF VersionNew, ModelVersion, UpdEntry
<1> HIDE DEF next, S
<1>6. S \subseteq UpdEntry  BY <1>4, <1>5
<1>7. f \in Surjection(M, S)
  <2>1. f \in [M -> S]  OBVIOUS
  <2>2. \A e \in S : \E m \in M : f[m] = e  BY <1>4
  <2> QED BY <2>1, <2>2, Zenon DEF Surjection
<1>8. IsFiniteSet(M)
  <2>1. M \subseteq UpdModels  OBVIOUS
  <2> QED BY <2>1, UpdAssumption, FS_Subset
<1>9. IsFiniteSet(S)
  <2> HIDE DEF M, f
  <2> QED BY <1>7, <1>8, FS_Surjection
<1>10. Cardinality(S) \in Nat  BY <1>9, FS_CardinalityType
<1>11. p \in [1 .. Cardinality(S) -> S]  BY <1>1 DEF SetToSeqs
<1>12. p \in Seq(UpdEntry)  BY <1>6, <1>10, <1>11
<1> QED BY <1>1, <1>12, BeginsKeep

\* The clock, subscribers, rollbacks, schedules and hot updates.
LEMMA UpdOtherKeeps ==
    ASSUME UpdOK(updater),
           \/ UpdTick \/ SubscribeNotifications
           \/ \E i \in DOMAIN updater.updates : CancelUpdate(i)
           \/ \E m \in UpdModels : RollbackUpdate(m) \/ \E v \in ModelVersion : ScheduleUpdate(m, v) \/ PrepareHotUpdate(m, v)
    PROVE  UpdOK(updater')
<1> DEFINE s == updater
           Stays == updater' \in UpdFields /\ updater'.task = s.task /\ updater'.done = s.done /\ updater'.backups = s.backups
<1>1. s \in UpdFields  BY DEF UpdOK
<1>2. /\ s.now \in Nat /\ s.now \in 0 .. MaxUpdNow /\ s.ops \in Nat /\ s.ops \in 0 .. MaxUpdates /\ s.told \in Nat
      /\ s.updates \in Seq(UpdateTracking) /\ s.backups \in [UpdModels -> Seq(0 .. MaxUpdNow)]
  BY <1>1, UpdFieldsOf
<1>3. CASE UpdTick
  <2> DEFINE n == s.now + 1
  <2>1. updater' = [updater EXCEPT !.now = n] /\ n \in 0 .. MaxUpdNow  BY <1>2, <1>3, UpdAssumption DEF UpdTick
  <2> HIDE DEF n
  <2>2. Stays  BY <1>1, <2>1 DEF UpdFields
  <2> QED BY <2>2, UpdStays
<1>4. CASE SubscribeNotifications
  <2> DEFINE n == s.told + 1
  <2>1. updater' = [updater EXCEPT !.told = n] /\ n \in Nat  BY <1>2, <1>4 DEF SubscribeNotifications
  <2> HIDE DEF n
  <2>2. Stays  BY <1>1, <2>1 DEF UpdFields
  <2> QED BY <2>2, UpdStays
<1>5. ASSUME NEW i \in DOMAIN s.updates, CancelUpdate(i)
      PROVE  UpdOK(updater')
  <2> DEFINE st == IF GetUpdateStatus(i) \subseteq {"Downloading", "Installing"} THEN "Cancelled" ELSE s.updates[i].status
             e == [s.updates[i] EXCEPT !.status = st]
             q == [s.updates EXCEPT ![i] = e]
  <2>1. updater' = [updater EXCEPT !.updates[i].status = st]  BY <1>5 DEF CancelUpdate
  <2>2. s.updates[i] \in UpdateTracking  BY <1>2, ElementOfSeq, LenProperties
  <2>3. st \in UpdateStatus  BY <2>2 DEF UpdateTracking, UpdateStatus
  <2> HIDE DEF st
  <2>4. e \in UpdateTracking  BY <2>2, <2>3 DEF UpdateTracking
  <2>5. updater' = [updater EXCEPT !.updates = q]  BY <1>1, <2>1 DEF UpdFields
  <2> HIDE DEF e
  <2>6. q \in Seq(UpdateTracking)  BY <1>2, <2>4, ExceptSeq
  <2> HIDE DEF q
  <2>7. Stays  BY <1>1, <2>5, <2>6 DEF UpdFields
  <2> QED BY <2>7, UpdStays
<1>6. ASSUME NEW m \in UpdModels, RollbackUpdate(m)
      PROVE  UpdOK(updater')
  <2> DEFINE q == {[model |-> m, at |-> Head(s.backups[m])]}
  <2>1. Head(s.backups[m]) \in 0 .. MaxUpdNow  BY <1>2, <1>6, HeadTailProperties DEF RollbackUpdate
  <2>2. q \in SUBSET RecoveryInfo /\ updater' = [updater EXCEPT !.restored = q]
    BY <1>6, <2>1 DEF RecoveryInfo, RollbackUpdate
  <2> HIDE DEF q
  <2>3. Stays  BY <1>1, <2>2 DEF UpdFields
  <2> QED BY <2>3, UpdStays
<1>7. ASSUME NEW m \in UpdModels, NEW v \in ModelVersion, ScheduleUpdate(m, v)
      PROVE  UpdOK(updater')
  <2> DEFINE n == s.ops + 1
             e == [model |-> m, version |-> v, status |-> "Available"]
             q == Append(s.updates, e)
  <2>5. n \in 0 .. MaxUpdates
    <3>1. s.ops < MaxUpdates  BY <1>7, Zenon DEF ScheduleUpdate
    <3>2. s.ops \in Nat /\ MaxUpdates \in Nat  BY <1>2, UpdAssumption
    <3> HIDE DEF s
    <3> QED BY <3>1, <3>2
  <2>1. updater' = [updater EXCEPT !.ops = n, !.updates = q]  BY <1>1, <1>7 DEF ScheduleUpdate, UpdFields
  <2>2. e \in UpdateTracking  BY DEF UpdateTracking, UpdateStatus
  <2>3. q \in Seq(UpdateTracking)
    <3> HIDE DEF e
    <3> QED BY <1>2, <2>2, AppendProperties
  <2> HIDE DEF n, q
  <2>4. Stays  BY <1>1, <2>1, <2>3, <2>5 DEF UpdFields
  <2> QED BY <2>4, UpdStays
<1>8. ASSUME NEW m \in UpdModels, NEW v \in ModelVersion, PrepareHotUpdate(m, v)
      PROVE  UpdOK(updater')
  <2> DEFINE n == s.ops + 1
             e == [m |-> m, v |-> v]
  <2>1. n \in 0 .. MaxUpdates
    <3>1. s.ops < MaxUpdates  BY <1>8, Zenon DEF PrepareHotUpdate
    <3>2. s.ops \in Nat /\ MaxUpdates \in Nat  BY <1>2, UpdAssumption
    <3> HIDE DEF s
    <3> QED BY <3>1, <3>2
  <2>4. updater' = [updater EXCEPT !.ops = n, !.file = e]  BY <1>1, <1>8 DEF PrepareHotUpdate, UpdFields
  <2>2. e \in [m : UpdModels \cup {"none"}, v : ModelVersion]  OBVIOUS
  <2> HIDE DEF n, e
  <2>3. Stays  BY <1>1, <2>1, <2>2, <2>4 DEF UpdFields
  <2> QED BY <2>3, UpdStays
<1> QED BY <1>3, <1>4, <1>5, <1>6, <1>7, <1>8

LEMMA CleanupKeeps == ASSUME UpdOK(updater), NEW m \in UpdModels, NEW keep \in RollbackPolicy, CleanupOldVersions(m, keep) PROVE UpdOK(updater')
<1> DEFINE h == updater.history[m]
<1>1. updater \in UpdFields  BY DEF UpdOK
<1>2. updater.history \in [UpdModels -> Seq(ModelVersion)] /\ h \in Seq(ModelVersion)  BY <1>1, UpdFieldsOf
<1>3. Len(h) \in Nat /\ DOMAIN h = 1 .. Len(h) /\ (\A i \in DOMAIN h : h[i] \in ModelVersion) /\ keep \in Nat
  BY <1>2, LenProperties, ElementOfSeq DEF RollbackPolicy
<1>4. Len(h) > keep  BY DEF CleanupOldVersions
<1>5. PICK p \in [DOMAIN h -> DOMAIN h] : updater' = [updater EXCEPT !.history[m] = [i \in 1 .. keep |-> h[p[Len(h) - keep + i]]]]
  BY Zenon DEF CleanupOldVersions
<1> DEFINE q == [i \in 1 .. keep |-> h[p[Len(h) - keep + i]]]
           k == [updater.history EXCEPT ![m] = q]
<1>6. q \in Seq(ModelVersion)
  <2>1. ASSUME NEW i \in 1 .. keep PROVE h[p[Len(h) - keep + i]] \in ModelVersion
    <3>1. Len(h) - keep + i \in DOMAIN h
      <4> DEFINE l == Len(h)
                 D == DOMAIN h
      <4>1. l \in Nat /\ D = 1 .. l /\ keep \in Nat /\ l > keep  BY <1>3, <1>4
      <4> HIDE DEF l, D
      <4>2. l - keep + i \in D  BY ONLY <4>1, i \in 1 .. keep
      <4> QED BY <4>2 DEF l, D
    <3> QED BY <1>3, <1>5, <3>1
  <2> QED BY <1>3, <2>1
<1> HIDE DEF q
<1>7. k \in [UpdModels -> Seq(ModelVersion)]  BY <1>2, <1>6
<1>8. updater' = [updater EXCEPT !.history = k]  BY <1>1, <1>5 DEF UpdFields, q
<1> HIDE DEF k
<1>9. updater' \in UpdFields /\ updater'.task = updater.task /\ updater'.done = updater.done /\ updater'.backups = updater.backups
  BY <1>1, <1>7, <1>8 DEF UpdFields
<1> QED BY <1>9, UpdStays

UpdInv == UpdOK(updater)

LEMMA UpdInitial == UpdInit => UpdInv
<1> SUFFICES ASSUME UpdInit PROVE UpdOK(updater)  BY DEF UpdInv
<1> DEFINE e == [m |-> "none", v |-> VersionNew(0, 0, 0)]
           k == [t \in UpdTasks |-> UpdTaskIdle]
           h == [m \in UpdModels |-> <<>>]
           d == [m \in UpdModels |-> 0]
<1>1. UpdTaskIdle \in UpdTask /\ UpdTaskIdle.pc = "idle"  BY DEF UpdTaskIdle, UpdTask
<1>2. e \in [m : UpdModels \cup {"none"}, v : ModelVersion]  BY VersionsOf
<1>3. /\ k \in [UpdTasks -> UpdTask] /\ h \in [UpdModels -> Seq(ModelVersion)] /\ h \in [UpdModels -> Seq(0 .. MaxUpdNow)]
      /\ d \in [UpdModels -> Nat] /\ <<>> \in Seq(UpdateTracking) /\ 0 \in 0 .. MaxUpdNow /\ 0 \in 0 .. MaxUpdates
  BY <1>1, UpdAssumption
<1>4. updater = [now |-> 0, ops |-> 0, history |-> h, backups |-> h, updates |-> <<>>, file |-> e, task |-> k,
                 restored |-> {}, told |-> 0, done |-> d]  BY DEF UpdInit
<1> HIDE DEF e
<1>5. updater \in UpdFields
  <2> HIDE DEF k, h, d
  <2> QED BY <1>2, <1>3, <1>4 DEF UpdFields
<1>6. updater.task = k /\ updater.done = d /\ updater.backups = h  BY <1>4
<1>7. \A m \in UpdModels : PastBackup(updater, m) = {}  BY <1>1, <1>6 DEF PastBackup
<1>8. Cardinality({}) = 0  BY FS_EmptySet
<1>9. \A m \in UpdModels : updater.done[m] = 0 /\ Len(updater.backups[m]) = 0  BY <1>6
<1>10. \A t \in UpdTasks : updater.task[t].pc = "idle"  BY <1>1, <1>6
<1>11. \A m \in UpdModels : updater.done[m] + Cardinality(PastBackup(updater, m)) <= Len(updater.backups[m])
  <2> SUFFICES ASSUME NEW m \in UpdModels PROVE updater.done[m] + Cardinality(PastBackup(updater, m)) <= Len(updater.backups[m])
    OBVIOUS
  <2>1. updater.done[m] = 0 /\ Cardinality(PastBackup(updater, m)) = 0 /\ Len(updater.backups[m]) = 0
    BY <1>7, <1>8, <1>9
  <2> QED BY ONLY <2>1
<1> QED BY <1>5, <1>10, <1>11 DEF UpdOK

LEMMA UpdStep == ASSUME UpdInv, [UpdNext]_updater PROVE UpdInv'
<1>1. UpdOK(updater)  BY DEF UpdInv
<1>2. CASE updater' = updater  BY <1>1, <1>2 DEF UpdInv
<1>3. {VersionNew(0, 0, 1), WithPreRelease(VersionNew(0, 0, 1))} \subseteq ModelVersion  BY VersionsOf
<1>4. CASE UpdNext
  <2>1. UpdOK(updater')
    BY <1>1, <1>3, <1>4, UpdOtherKeeps, CleanupKeeps, ApplyKeeps, BatchUpdatesKeep, BackupKeeps, DownloadUpdateKeeps,
       RecordVersionKeeps DEF UpdNext
  <2> QED BY <2>1 DEF UpdInv
<1> QED BY <1>2, <1>4

\* The order of versions, field by field.
LEMMA VersionOrder ==
    ASSUME NEW v \in ModelVersion, NEW w \in ModelVersion
    PROVE  /\ v.major \in Int /\ v.minor \in Int /\ v.patch \in Int /\ v.pre \in Int
           /\ VersionLess(v, w) =>
                \/ v.major < w.major
                \/ v.major = w.major /\ v.minor < w.minor
                \/ v.major = w.major /\ v.minor = w.minor /\ v.patch < w.patch
                \/ v.major = w.major /\ v.minor = w.minor /\ v.patch = w.patch
           /\ v.major = w.major /\ v.minor = w.minor /\ v.patch < w.patch => VersionLess(v, w)
<1>1. v.major \in Int /\ v.minor \in Int /\ v.patch \in Int /\ v.pre \in Int  BY DEF ModelVersion
<1>2. /\ VersionParts(v)[1] = v.major /\ VersionParts(v)[2] = v.minor /\ VersionParts(v)[3] = v.patch /\ VersionParts(v)[4] = v.pre
      /\ VersionParts(w)[1] = w.major /\ VersionParts(w)[2] = w.minor /\ VersionParts(w)[3] = w.patch /\ VersionParts(w)[4] = w.pre
  BY DEF VersionParts
<1>3. ASSUME VersionLess(v, w)
      PROVE  \/ v.major < w.major
             \/ v.major = w.major /\ v.minor < w.minor
             \/ v.major = w.major /\ v.minor = w.minor /\ v.patch < w.patch
             \/ v.major = w.major /\ v.minor = w.minor /\ v.patch = w.patch
  <2>1. PICK i \in 1 .. 4 : /\ VersionParts(v)[i] < VersionParts(w)[i]
                            /\ \A k \in 1 .. i - 1 : VersionParts(v)[k] = VersionParts(w)[k]
    BY <1>3 DEF VersionLess
  <2>2. i = 1 \/ i = 2 \/ i = 3 \/ i = 4  OBVIOUS
  <2>3. CASE i = 1  BY <1>2, <2>1, <2>3
  <2>4. CASE i = 2
    <3>1. 1 \in 1 .. i - 1  BY <2>4
    <3> QED BY <1>2, <2>1, <2>4, <3>1
  <2>5. CASE i = 3
    <3>1. 1 \in 1 .. i - 1 /\ 2 \in 1 .. i - 1  BY <2>5
    <3> QED BY <1>2, <2>1, <2>5, <3>1
  <2>6. CASE i = 4
    <3>1. 1 \in 1 .. i - 1 /\ 2 \in 1 .. i - 1 /\ 3 \in 1 .. i - 1  BY <2>6
    <3> QED BY <1>2, <2>1, <2>6, <3>1
  <2> QED BY <2>2, <2>3, <2>4, <2>5, <2>6
<1>4. ASSUME v.major = w.major, v.minor = w.minor, v.patch < w.patch
      PROVE  VersionLess(v, w)
  <2>1. 3 \in 1 .. 4 /\ \A k \in 1 .. 3 - 1 : k = 1 \/ k = 2  OBVIOUS
  <2>2. VersionParts(v)[3] < VersionParts(w)[3] /\ \A k \in 1 .. 3 - 1 : VersionParts(v)[k] = VersionParts(w)[k]
    BY <1>2, <1>4, <2>1
  <2> QED BY <2>1, <2>2 DEF VersionLess
<1> QED BY <1>1, <1>3, <1>4

LEMMA UpdatesGoUp == NoDowngrade
<1> SUFFICES ASSUME NEW s \in UpdateStrategy, NEW v \in ModelVersion, NEW w \in ModelVersion, NEW security \in BOOLEAN,
                    ShouldApplyUpdate(s, v, w, security)
             PROVE  /\ CompareVersions(v, w) # "Downgrade" /\ VersionAtMost(v, w)
                    /\ s \in {"Conservative", "Balanced"} => IsCompatibleWith(v, w)
  BY DEF NoDowngrade
<1>1. \/ s = "Conservative" /\ w.major = v.major /\ w.minor = v.minor /\ w.patch > v.patch
      \/ s = "Balanced" /\ w.major = v.major /\ VersionAtMost(v, w)
      \/ s \in {"Aggressive", "SecurityOnly"} /\ VersionLess(v, w)
  BY DEF ShouldApplyUpdate, UpdateStrategy, ShouldApplySecurityUpdate
<1>2. v.major \in Int /\ v.minor \in Int /\ v.patch \in Int /\ w.major \in Int /\ w.minor \in Int /\ w.patch \in Int
  BY VersionOrder
<1>3. VersionAtMost(v, w)  BY <1>1, <1>2, VersionOrder DEF VersionAtMost
<1>4. \/ v.major < w.major
      \/ v.major = w.major /\ v.minor < w.minor
      \/ v.major = w.major /\ v.minor = w.minor /\ v.patch < w.patch
      \/ v.major = w.major /\ v.minor = w.minor /\ v.patch = w.patch
  BY <1>3, VersionOrder DEF VersionAtMost
<1>5. CompareVersions(v, w) # "Downgrade"  BY <1>2, <1>4 DEF CompareVersions
<1>6. s \in {"Conservative", "Balanced"} => IsCompatibleWith(v, w)  BY <1>1 DEF IsCompatibleWith
<1> QED BY <1>3, <1>5, <1>6

LEMMA UpdSafe == UpdInv => UpdTypeOK /\ BackedUpFirst /\ NoDowngrade
<1> SUFFICES ASSUME UpdOK(updater) PROVE UpdTypeOK /\ BackedUpFirst  BY UpdatesGoUp DEF UpdInv
<1>1. updater \in UpdFields  BY DEF UpdOK
<1>2. BackedUpFirst  BY DEF UpdOK, BackedUpFirst, PastBackup
<1>3. \A i \in DOMAIN updater.updates : updater.updates[i] \in UpdateTracking
  BY <1>1, UpdFieldsOf, ElementOfSeq, LenProperties
<1>4. ASSUME NEW m \in UpdModels
      PROVE  GetRecoveryInfo(m) \subseteq RecoveryInfo
  <2>1. updater.backups[m] \in Seq(0 .. MaxUpdNow)  BY <1>1, UpdFieldsOf
  <2>2. CASE updater.backups[m] # <<>>
    <3> DEFINE b == updater.backups[m]
               R == 0 .. MaxUpdNow
    <3> HIDE DEF b, R
    <3>1. b \in Seq(R) /\ b # <<>>  BY <2>1, <2>2 DEF b, R
    <3>2. Len(b) \in 1 .. Len(b)  BY ONLY <3>1, LenProperties, EmptySeq
    <3>3. b[Len(b)] \in R  BY ONLY <3>1, <3>2, ElementOfSeq
    <3>4. Last(updater.backups[m]) \in 0 .. MaxUpdNow  BY <3>3 DEF Last, b, R
    <3> QED BY <2>2, <3>4 DEF GetRecoveryInfo, RecoveryInfo
  <2> QED BY <2>2 DEF GetRecoveryInfo
<1> QED BY <1>1, <1>2, <1>3, <1>4, UpdFieldsOf DEF UpdTypeOK

-----------------------------------------------------------------------------
(* PrivateModels.  The grants of a model that is not registered are gone,  *)
(* the two indexes name what the registry names, and a limiter never keeps *)
(* more requests than its limit.                                           *)

PmLimiter == [set : BOOLEAN, requests : [0 .. MaxPmNow -> Nat]]
PmGrants == [PmModels -> [PmUsers -> AccessLevel \cup {"None"}]]
PmFile == [sealed : BOOLEAN, owner : PmUsers \cup {"none"}, hard : BOOLEAN]

PmFields ==
    [now : 0 .. MaxPmNow, ops : Nat, used : SUBSET PmModels, audit : Nat, models : SUBSET PmModels,
     ownerOf : [PmModels -> PmUsers \cup {"none"}], orgOf : [PmModels -> PmOrgs \cup {"none"}],
     byOwner : [PmUsers -> SUBSET PmModels], byOrg : [PmOrgs -> SUBSET PmModels], perms : PmGrants,
     sharing : SUBSET PmModels, tokens : SUBSET AccessToken, licences : SUBSET PmModels,
     accepted : SUBSET (PmModels \X PmUsers), policies : SUBSET PmModels, noExport : SUBSET PmModels,
     usage : [PmModels -> [PmUsers -> Nat]], limiter : [PmModels -> PmLimiter],
     sessions : SUBSET IsolatedSession, keys : SUBSET PmUsers, file : PmFile]

PmIndexed(s) ==
    /\ \A u \in PmUsers : s.byOwner[u] = {m \in s.models : s.ownerOf[m] = u}
    /\ \A o \in PmOrgs : s.byOrg[o] = {m \in s.models : s.orgOf[m] = o}

PmOK(s) ==
    /\ s \in PmFields /\ s.models \subseteq s.used
    /\ \A m \in PmModels \ s.models : \A u \in PmUsers : s.perms[m][u] = "None"
    /\ PmIndexed(s)
    /\ \A m \in PmModels : RequestCount(s.limiter[m].requests) <= PmLimit

LEMMA PmFieldsOf ==
    ASSUME NEW s \in PmFields
    PROVE  /\ s.now \in 0 .. MaxPmNow /\ s.now \in Nat /\ s.ops \in Nat /\ s.used \in SUBSET PmModels /\ s.audit \in Nat
           /\ s.models \in SUBSET PmModels /\ s.ownerOf \in [PmModels -> PmUsers \cup {"none"}]
           /\ s.orgOf \in [PmModels -> PmOrgs \cup {"none"}] /\ s.byOwner \in [PmUsers -> SUBSET PmModels]
           /\ s.byOrg \in [PmOrgs -> SUBSET PmModels] /\ s.perms \in PmGrants /\ s.sharing \in SUBSET PmModels
           /\ s.tokens \in SUBSET AccessToken /\ s.licences \in SUBSET PmModels
           /\ s.accepted \in SUBSET (PmModels \X PmUsers) /\ s.policies \in SUBSET PmModels /\ s.noExport \in SUBSET PmModels
           /\ s.usage \in [PmModels -> [PmUsers -> Nat]] /\ s.limiter \in [PmModels -> PmLimiter]
           /\ s.sessions \in SUBSET IsolatedSession /\ s.keys \in SUBSET PmUsers /\ s.file \in PmFile
<1>1. s.now \in 0 .. MaxPmNow  BY DEF PmFields
<1>2. s.now \in Nat  BY <1>1, PmAssumption
<1> QED BY <1>1, <1>2 DEF PmFields

\* What does not touch the registry, the grants and the limiters.
LEMMA PmStays ==
    ASSUME NEW s, PmOK(s), NEW t \in PmFields, t.used = s.used, t.models = s.models, t.ownerOf = s.ownerOf, t.orgOf = s.orgOf,
           t.byOwner = s.byOwner, t.byOrg = s.byOrg, t.perms = s.perms, t.limiter = s.limiter
    PROVE  PmOK(t)
<1>1. PmIndexed(t)  BY DEF PmOK, PmIndexed
<1> QED BY <1>1 DEF PmOK

LEMMA AuditKeeps == ASSUME NEW s, PmOK(s) PROVE PmOK(AddAuditLog(s))
<1>1. s \in PmFields  BY DEF PmOK
<1>2. s.audit \in Nat  BY <1>1, PmFieldsOf
<1> DEFINE k == IF s.audit < MaxPmOps THEN s.audit + 1 ELSE s.audit
           t == [s EXCEPT !.audit = k]
<1>3. k \in Nat  BY <1>2
<1>4. AddAuditLog(s) = t  BY DEF AddAuditLog
<1> HIDE DEF k
<1>5. t \in PmFields  BY <1>1, <1>3 DEF PmFields
<1>6. /\ t.used = s.used /\ t.models = s.models /\ t.ownerOf = s.ownerOf /\ t.orgOf = s.orgOf
      /\ t.byOwner = s.byOwner /\ t.byOrg = s.byOrg /\ t.perms = s.perms /\ t.limiter = s.limiter
  BY <1>1 DEF PmFields
<1> HIDE DEF t
<1> QED BY <1>4, <1>5, <1>6, PmStays

\* The registry: a grant to a model that is, or is about to be, registered.
LEMMA GrantsSet ==
    ASSUME NEW s, PmOK(s), NEW t \in PmFields, t.used = s.used, t.models = s.models, t.ownerOf = s.ownerOf, t.orgOf = s.orgOf,
           t.byOwner = s.byOwner, t.byOrg = s.byOrg, t.limiter = s.limiter, NEW m \in s.models,
           \A x \in PmModels : x # m => t.perms[x] = s.perms[x]
    PROVE  PmOK(t)
<1>1. PmIndexed(t)  BY DEF PmOK, PmIndexed
<1>2. \A x \in PmModels \ t.models : \A u \in PmUsers : t.perms[x][u] = "None"  BY DEF PmOK
<1>3. \A x \in PmModels : RequestCount(t.limiter[x].requests) <= PmLimit  BY DEF PmOK
<1>4. t.models \subseteq t.used  BY DEF PmOK
<1> QED BY <1>1, <1>2, <1>3, <1>4 DEF PmOK

LEMMA CreateKeeps ==
    ASSUME PmOK(pm), NEW m \in PmModels, NEW u \in PmUsers, NEW org \in PmOrgs \cup {"none"}, CreatePrivateModel(m, u, org)
    PROVE  PmOK(pm')
<1> DEFINE s == pm
           g == [s.perms EXCEPT ![m] = [s.perms[m] EXCEPT ![u] = "FullAccess"]]
           us == s.used \cup {m}
           ms == s.models \cup {m}
           ow == [s.ownerOf EXCEPT ![m] = u]
           oo == [s.orgOf EXCEPT ![m] = org]
           bw == [s.byOwner EXCEPT ![u] = s.byOwner[u] \cup {m}]
           bo == [o \in PmOrgs |-> IF o = org THEN s.byOrg[o] \cup {m} ELSE s.byOrg[o]]
           t == [s EXCEPT !.used = us, !.perms = g, !.models = ms, !.ownerOf = ow, !.orgOf = oo, !.byOwner = bw, !.byOrg = bo]
<1>1. s \in PmFields /\ m \notin s.used  BY DEF PmOK, CreatePrivateModel
<1>2. m \notin s.models  BY <1>1 DEF PmOK
<1>3. pm' = AddAuditLog(Register(GrantAccess([s EXCEPT !.used = us], m, u, "FullAccess"), m, u, org))
  BY DEF CreatePrivateModel
<1>4. Register(GrantAccess([s EXCEPT !.used = us], m, u, "FullAccess"), m, u, org) = t
  BY <1>1, PmFieldsOf DEF Register, GrantAccess, PmFields
<1>5. /\ s.used \in SUBSET PmModels /\ s.models \in SUBSET PmModels /\ s.ownerOf \in [PmModels -> PmUsers \cup {"none"}]
      /\ s.orgOf \in [PmModels -> PmOrgs \cup {"none"}] /\ s.byOwner \in [PmUsers -> SUBSET PmModels]
      /\ s.byOrg \in [PmOrgs -> SUBSET PmModels] /\ s.perms \in PmGrants
  BY <1>1, PmFieldsOf
<1>6. /\ us \in SUBSET PmModels /\ ms \in SUBSET PmModels /\ ow \in [PmModels -> PmUsers \cup {"none"}]
      /\ oo \in [PmModels -> PmOrgs \cup {"none"}] /\ bw \in [PmUsers -> SUBSET PmModels]
      /\ bo \in [PmOrgs -> SUBSET PmModels] /\ g \in PmGrants
  BY <1>5 DEF PmGrants, AccessLevel
<1>7. \A x \in PmModels \ ms : \A v \in PmUsers : g[x][v] = "None"  BY <1>5 DEF PmOK, PmGrants
<1>8. \A v \in PmUsers : bw[v] = {x \in ms : ow[x] = v}  BY <1>5, <1>2 DEF PmOK, PmIndexed
<1>9. \A o \in PmOrgs : bo[o] = {x \in ms : oo[x] = o}  BY <1>5, <1>2 DEF PmOK, PmIndexed
<1>10. ms \subseteq us  BY DEF PmOK
<1> HIDE DEF g, us, ms, ow, oo, bw, bo
<1>11. t \in PmFields  BY <1>1, <1>6 DEF PmFields
<1>12. t.used = us /\ t.models = ms /\ t.ownerOf = ow /\ t.orgOf = oo /\ t.byOwner = bw /\ t.byOrg = bo
       /\ t.perms = g /\ t.limiter = s.limiter
  BY <1>1 DEF PmFields
<1> HIDE DEF t
<1>13. PmIndexed(t)  BY <1>8, <1>9, <1>12 DEF PmIndexed
<1>14. \A x \in PmModels : RequestCount(t.limiter[x].requests) <= PmLimit  BY <1>12 DEF PmOK
<1>15. PmOK(t)  BY <1>7, <1>10, <1>11, <1>12, <1>13, <1>14 DEF PmOK
<1> QED BY <1>3, <1>4, <1>15, AuditKeeps

LEMMA AccessIsToRegistered ==
    ASSUME PmOK(pm), NEW m \in PmModels, NEW u \in PmUsers, NEW l \in AccessLevel, CheckAccess(m, u, l)
    PROVE  m \in pm.models  BY DEF PmOK, CheckAccess

LEMMA DeleteKeeps ==
    ASSUME PmOK(pm), NEW m \in PmModels, NEW u \in PmUsers, DeletePrivateModel(m, u)
    PROVE  PmOK(pm')
<1> DEFINE s == pm
           g == [s.perms EXCEPT ![m] = [v \in PmUsers |-> "None"]]
           ms == s.models \ {m}
           bw == [s.byOwner EXCEPT ![s.ownerOf[m]] = s.byOwner[s.ownerOf[m]] \ {m}]
           bo == [o \in PmOrgs |-> IF o = s.orgOf[m] THEN s.byOrg[o] \ {m} ELSE s.byOrg[o]]
           sh == s.sharing \ {m}
           t == [s EXCEPT !.perms = g, !.models = ms, !.byOwner = bw, !.byOrg = bo, !.sharing = sh]
<1>1. s \in PmFields /\ CheckAccess(m, u, "FullAccess")  BY DEF PmOK, DeletePrivateModel
<1>2. m \in s.models  BY <1>1, AccessIsToRegistered DEF AccessLevel
<1>3. pm' = AddAuditLog([RemoveFromRegistry(s, m) EXCEPT !.perms[m] = [v \in PmUsers |-> "None"], !.sharing = @ \ {m}])
  BY DEF DeletePrivateModel
<1>4. [RemoveFromRegistry(s, m) EXCEPT !.perms[m] = [v \in PmUsers |-> "None"], !.sharing = @ \ {m}] = t
  BY <1>1, <1>2 DEF RemoveFromRegistry, PmFields
<1>5. /\ s.models \in SUBSET PmModels /\ s.ownerOf \in [PmModels -> PmUsers \cup {"none"}]
      /\ s.orgOf \in [PmModels -> PmOrgs \cup {"none"}] /\ s.byOwner \in [PmUsers -> SUBSET PmModels]
      /\ s.byOrg \in [PmOrgs -> SUBSET PmModels] /\ s.perms \in PmGrants /\ s.sharing \in SUBSET PmModels
  BY <1>1, PmFieldsOf
<1>6. /\ ms \in SUBSET PmModels /\ bw \in [PmUsers -> SUBSET PmModels] /\ sh \in SUBSET PmModels
      /\ bo \in [PmOrgs -> SUBSET PmModels] /\ g \in PmGrants
  BY <1>5 DEF PmGrants, AccessLevel
<1>7. \A x \in PmModels \ ms : \A v \in PmUsers : g[x][v] = "None"  BY <1>5 DEF PmOK, PmGrants
<1>8. \A v \in PmUsers : bw[v] = {x \in ms : s.ownerOf[x] = v}  BY <1>5, <1>2 DEF PmOK, PmIndexed
<1>9. \A o \in PmOrgs : bo[o] = {x \in ms : s.orgOf[x] = o}  BY <1>5, <1>2 DEF PmOK, PmIndexed
<1>10. ms \subseteq s.used  BY DEF PmOK
<1> HIDE DEF g, ms, bw, bo, sh
<1>11. t \in PmFields  BY <1>1, <1>6 DEF PmFields
<1>12. t.used = s.used /\ t.models = ms /\ t.ownerOf = s.ownerOf /\ t.orgOf = s.orgOf /\ t.byOwner = bw /\ t.byOrg = bo
       /\ t.perms = g /\ t.limiter = s.limiter
  BY <1>1 DEF PmFields
<1> HIDE DEF t
<1>13. PmIndexed(t)  BY <1>8, <1>9, <1>12 DEF PmIndexed
<1>14. \A x \in PmModels : RequestCount(t.limiter[x].requests) <= PmLimit  BY <1>12 DEF PmOK
<1>15. PmOK(t)  BY <1>7, <1>10, <1>11, <1>12, <1>13, <1>14 DEF PmOK
<1> QED BY <1>3, <1>4, <1>15, AuditKeeps

LEMMA ShareKeeps ==
    ASSUME PmOK(pm), NEW m \in PmModels, NEW u \in PmUsers, NEW with \in SUBSET PmUsers, NEW level \in AccessLevel,
           ShareModel(m, u, with, level)
    PROVE  PmOK(pm')
<1> DEFINE g == [pm.perms EXCEPT ![m] = [v \in PmUsers |-> IF v \in with THEN level ELSE pm.perms[m][v]]]
           sh == pm.sharing \cup {m}
<1>1. pm \in PmFields /\ CheckAccess(m, u, "FullAccess")  BY DEF PmOK, ShareModel
<1>2. m \in pm.models  BY <1>1, AccessIsToRegistered DEF AccessLevel
<1>3. pm' = [pm EXCEPT !.perms = g, !.sharing = sh]  BY <1>1 DEF ShareModel, PmFields
<1>4. pm.perms \in PmGrants /\ pm.sharing \in SUBSET PmModels  BY <1>1, PmFieldsOf
<1>5. g \in PmGrants /\ sh \in SUBSET PmModels /\ \A x \in PmModels : x # m => g[x] = pm.perms[x]
  BY <1>4 DEF PmGrants, AccessLevel
<1> HIDE DEF g, sh
<1>6. pm' \in PmFields  BY <1>1, <1>3, <1>5 DEF PmFields
<1>7. /\ pm'.used = pm.used /\ pm'.models = pm.models /\ pm'.ownerOf = pm.ownerOf /\ pm'.orgOf = pm.orgOf
      /\ pm'.byOwner = pm.byOwner /\ pm'.byOrg = pm.byOrg /\ pm'.perms = g /\ pm'.limiter = pm.limiter
  BY <1>1, <1>3 DEF PmFields
<1> QED BY <1>2, <1>5, <1>6, <1>7, GrantsSet

\* The other operations on the models change none of these.
PmApart(s, t) ==
    /\ t \in PmFields /\ t.used = s.used /\ t.models = s.models /\ t.ownerOf = s.ownerOf /\ t.orgOf = s.orgOf
    /\ t.byOwner = s.byOwner /\ t.byOrg = s.byOrg /\ t.perms = s.perms /\ t.limiter = s.limiter

LEMMA PmApartKeeps == ASSUME NEW s, NEW t, PmOK(s), PmApart(s, t) PROVE PmOK(t)  BY PmStays DEF PmApart

LEMMA PmSessionsKeep == ASSUME PmOK(pm), SessionsNext PROVE PmOK(pm')
<1>1. pm \in PmFields  BY DEF PmOK
<1>2. ASSUME NEW s \in pm.sessions, CleanupSession(s) PROVE PmOK(pm')
  <2> DEFINE k == (pm.sessions \ {s}) \cup {[s EXCEPT !.active = FALSE]}
  <2>1. pm.sessions \in SUBSET IsolatedSession  BY <1>1, PmFieldsOf
  <2>2. k \in SUBSET IsolatedSession  BY <2>1 DEF IsolatedSession
  <2>3. pm' = [pm EXCEPT !.sessions = k]  BY <1>2 DEF CleanupSession
  <2> HIDE DEF k
  <2>4. PmApart(pm, pm')  BY <1>1, <2>2, <2>3 DEF PmApart, PmFields
  <2> QED BY <2>4, PmApartKeeps
<1>3. ASSUME NEW u \in PmUsers, NEW hard \in BOOLEAN, EncryptModel(u, hard) PROVE PmOK(pm')
  <2> DEFINE f == [sealed |-> TRUE, owner |-> u, hard |-> hard]
             k == pm.keys \cup {u}
  <2>1. pm.keys \in SUBSET PmUsers  BY <1>1, PmFieldsOf
  <2>2. f \in PmFile /\ k \in SUBSET PmUsers  BY <2>1 DEF PmFile
  <2>3. pm' = [pm EXCEPT !.file = f, !.keys = k]  BY <1>3 DEF EncryptModel
  <2> HIDE DEF f, k
  <2>4. PmApart(pm, pm')  BY <1>1, <2>2, <2>3 DEF PmApart, PmFields
  <2> QED BY <2>4, PmApartKeeps
<1>4. ASSUME NEW m \in PmModels, NEW u \in PmUsers, CreateIsolatedSession(m, u) PROVE PmOK(pm')
  <2> DEFINE k == pm.sessions \cup {[model |-> m, owner |-> u, active |-> TRUE]}
  <2>1. pm.sessions \in SUBSET IsolatedSession  BY <1>1, PmFieldsOf
  <2>5. [model |-> m, owner |-> u, active |-> TRUE] \in IsolatedSession  BY DEF IsolatedSession
  <2>2. k \in SUBSET IsolatedSession  BY <2>1, <2>5
  <2>3. pm' = [pm EXCEPT !.sessions = k]  BY <1>4 DEF CreateIsolatedSession
  <2> HIDE DEF k
  <2>4. PmApart(pm, pm')  BY <1>1, <2>2, <2>3 DEF PmApart, PmFields
  <2> QED BY <2>4, PmApartKeeps
<1> QED BY <1>2, <1>3, <1>4 DEF SessionsNext

LEMMA PmTermsKeep == ASSUME PmOK(pm), TermsNext PROVE PmOK(pm')
<1>1. pm \in PmFields  BY DEF PmOK
<1>2. PICK m \in PmModels, u \in PmUsers :
         \/ UpdatePrivateModel(m, u) \/ SetUsagePolicy(m, u) \/ SetLicense(m, u) \/ SetExportPolicy(m, u)
         \/ AcceptLicense(m, u) \/ TrackUsage(m, u)
  BY DEF TermsNext
<1>3. pm.policies \cup {m} \in SUBSET PmModels /\ pm.licences \cup {m} \in SUBSET PmModels /\ pm.noExport \cup {m} \in SUBSET PmModels
      /\ pm.accepted \cup {<<m, u>>} \in SUBSET (PmModels \X PmUsers)
  <2>1. pm.policies \in SUBSET PmModels /\ pm.licences \in SUBSET PmModels /\ pm.noExport \in SUBSET PmModels
        /\ pm.accepted \in SUBSET (PmModels \X PmUsers)
    BY <1>1, PmFieldsOf
  <2> QED BY <2>1
<1>4. CASE UpdatePrivateModel(m, u)  BY <1>4, AuditKeeps DEF UpdatePrivateModel
<1>5. CASE SetUsagePolicy(m, u)
  <2> DEFINE k == pm.policies \cup {m}
  <2>1. pm' = [pm EXCEPT !.policies = k]  BY <1>5 DEF SetUsagePolicy
  <2>2. k \in SUBSET PmModels  BY <1>3
  <2> HIDE DEF k
  <2>3. PmApart(pm, pm')  BY <1>1, <2>1, <2>2 DEF PmApart, PmFields
  <2> QED BY <2>3, PmApartKeeps
<1>6. CASE SetLicense(m, u)
  <2> DEFINE k == pm.licences \cup {m}
  <2>1. pm' = [pm EXCEPT !.licences = k]  BY <1>6 DEF SetLicense
  <2>2. k \in SUBSET PmModels  BY <1>3
  <2> HIDE DEF k
  <2>3. PmApart(pm, pm')  BY <1>1, <2>1, <2>2 DEF PmApart, PmFields
  <2> QED BY <2>3, PmApartKeeps
<1>7. CASE SetExportPolicy(m, u)
  <2> DEFINE k == pm.noExport \cup {m}
  <2>1. pm' = [pm EXCEPT !.noExport = k]  BY <1>7 DEF SetExportPolicy
  <2>2. k \in SUBSET PmModels  BY <1>3
  <2> HIDE DEF k
  <2>3. PmApart(pm, pm')  BY <1>1, <2>1, <2>2 DEF PmApart, PmFields
  <2> QED BY <2>3, PmApartKeeps
<1>8. CASE AcceptLicense(m, u)
  <2> DEFINE k == pm.accepted \cup {<<m, u>>}
  <2>1. pm' = [pm EXCEPT !.accepted = k]  BY <1>8 DEF AcceptLicense
  <2>2. k \in SUBSET (PmModels \X PmUsers)  BY <1>3
  <2> HIDE DEF k
  <2>3. PmApart(pm, pm')  BY <1>1, <2>1, <2>2 DEF PmApart, PmFields
  <2> QED BY <2>3, PmApartKeeps
<1>9. CASE TrackUsage(m, u)
  <2> DEFINE o == pm.ops + 1
             k == [pm.usage EXCEPT ![m] = [pm.usage[m] EXCEPT ![u] = pm.usage[m][u] + 1]]
  <2>1. pm' = [pm EXCEPT !.ops = o, !.usage = k]  BY <1>1, <1>9 DEF TrackUsage, PmFields
  <2>2. pm.ops \in Nat /\ pm.usage \in [PmModels -> [PmUsers -> Nat]]  BY <1>1, PmFieldsOf
  <2>3. o \in Nat /\ k \in [PmModels -> [PmUsers -> Nat]]  BY <2>2
  <2> HIDE DEF k, o
  <2>4. PmApart(pm, pm')  BY <1>1, <2>1, <2>3 DEF PmApart, PmFields
  <2> QED BY <2>4, PmApartKeeps
<1> QED BY <1>2, <1>4, <1>5, <1>6, <1>7, <1>8, <1>9

\* The requests of a window are no more than all of them.
LEMMA WindowIsPart ==
    ASSUME NEW r \in [0 .. MaxPmNow -> Nat], NEW from \in Int, NEW to \in Int
    PROVE  /\ RequestsIn(r, from, to) \in [0 .. MaxPmNow -> Nat]
           /\ RequestCount(r) \in Nat /\ RequestCount(RequestsIn(r, from, to)) \in Nat
           /\ RequestCount(RequestsIn(r, from, to)) <= RequestCount(r)
<1> DEFINE T == 0 .. MaxPmNow
           in == RequestsIn(r, from, to)
           out == [x \in T |-> IF from < x /\ x <= to THEN 0 ELSE r[x]]
<1>1. IsFiniteSet(T)  BY PmAssumption, FS_Interval
<1>2. in \in [T -> Nat]  BY DEF RequestsIn
<1>3. out \in [T -> Nat] /\ \A x \in T : r[x] = in[x] + out[x]  BY DEF RequestsIn
<1>4. RequestCount(r) = Sum(r, T) /\ RequestCount(in) = Sum(in, T)  BY Zenon DEF RequestCount, Sum
<1> HIDE DEF T, in, out
<1>5. r \in [T -> Nat]  BY DEF T
<1>6. (\A x \in T : r[x] \in Nat) /\ (\A x \in T : in[x] \in Nat) /\ (\A x \in T : out[x] \in Nat)  BY <1>2, <1>3, <1>5
<1>7. (\A x \in T : in[x] \in Int) /\ (\A x \in T : out[x] \in Int)  BY <1>6
<1>8. Sum(r, T) \in Nat /\ Sum(in, T) \in Nat /\ Sum(out, T) \in Nat  BY <1>1, <1>6, SumNat
<1>9. Sum(r, T) = Sum(in, T) + Sum(out, T)  BY <1>1, <1>3, <1>7, SumPlus
<1> QED BY <1>2, <1>4, <1>8, <1>9 DEF in, T

\* One more at one place is one more.
LEMMA CountsOne ==
    ASSUME NEW S, IsFiniteSet(S), NEW f \in [S -> Nat], NEW x \in S
    PROVE  Sum([f EXCEPT ![x] = f[x] + 1], S) = Sum(f, S) + 1
<1> DEFINE g == [f EXCEPT ![x] = f[x] + 1]
<1>1. (\A y \in S : f[y] \in Int) /\ g[x] = f[x] + 1 /\ g[x] \in Int /\ (\A y \in S : y # x => g[y] = f[y]) /\ f[x] \in Int
  OBVIOUS
<1> HIDE DEF g
<1>2. Sum(g, S) = Sum(f, S) - f[x] + g[x]  BY <1>1, SumUpdate
<1>3. Sum(f, S) \in Int  BY <1>1, SumType
<1>4. Sum(g, S) = Sum(f, S) + 1  BY <1>1, <1>2, <1>3
<1> QED BY <1>4 DEF g

\* A request is taken only where one more stays within the limit.
LEMMA RequestTaken ==
    ASSUME NEW r \in [0 .. MaxPmNow -> Nat], RequestCount(r) <= PmLimit, NEW now \in 0 .. MaxPmNow
    PROVE  AllowPrivateRequest(r, now) \in [0 .. MaxPmNow -> Nat] /\ RequestCount(AllowPrivateRequest(r, now)) <= PmLimit
<1> DEFINE T == 0 .. MaxPmNow
           f == now - PmMinute
           in == RequestsIn(r, f, MaxPmNow)
           more == [in EXCEPT ![now] = in[now] + 1]
<1>1. AllowPrivateRequest(r, now) = IF RequestCount(in) >= PmLimit THEN in ELSE more  BY DEF AllowPrivateRequest
<1>2. f \in Int /\ MaxPmNow \in Int  BY PmAssumption
<1> HIDE DEF f
<1>3. in \in [T -> Nat] /\ RequestCount(in) \in Nat /\ RequestCount(in) <= RequestCount(r) /\ RequestCount(r) \in Nat
  BY <1>2, WindowIsPart
<1> HIDE DEF in
<1>4. more \in [T -> Nat] /\ now \in T  BY <1>3
<1>5. RequestCount(in) = Sum(in, T) /\ RequestCount(more) = Sum(more, T)  BY Zenon DEF RequestCount, Sum
<1>6. IsFiniteSet(T)  BY PmAssumption, FS_Interval
<1> HIDE DEF T
<1>8. Sum(more, T) = Sum(in, T) + 1  BY <1>3, <1>4, <1>6, CountsOne
<1>9. RequestCount(more) = RequestCount(in) + 1  BY <1>5, <1>8
<1>10. RequestCount(AllowPrivateRequest(r, now)) <= PmLimit  BY <1>1, <1>3, <1>9, PmAssumption
<1> QED BY <1>1, <1>3, <1>4, <1>10 DEF T

LEMMA LimitersSet ==
    ASSUME PmOK(pm), pm' \in PmFields, pm'.used = pm.used, pm'.models = pm.models, pm'.ownerOf = pm.ownerOf, pm'.orgOf = pm.orgOf,
           pm'.byOwner = pm.byOwner, pm'.byOrg = pm.byOrg, pm'.perms = pm.perms, NEW m \in PmModels, NEW l \in PmLimiter,
           pm'.limiter = [pm.limiter EXCEPT ![m] = l], RequestCount(l.requests) <= PmLimit
    PROVE  PmOK(pm')
<1>1. PmIndexed(pm')  BY DEF PmOK, PmIndexed
<1>2. pm.limiter \in [PmModels -> PmLimiter]  BY PmFieldsOf DEF PmOK
<1>3. ASSUME NEW x \in PmModels PROVE RequestCount(pm'.limiter[x].requests) <= PmLimit
  <2>1. CASE x = m  BY <1>2, <2>1
  <2>2. CASE x # m
    <3>1. pm'.limiter[x] = pm.limiter[x]  BY <1>2, <2>2
    <3> QED BY <3>1 DEF PmOK
  <2> QED BY <2>1, <2>2
<1> QED BY <1>1, <1>3 DEF PmOK

LEMMA NoneRequested == NoRequests \in [0 .. MaxPmNow -> Nat] /\ RequestCount(NoRequests) = 0 /\ RequestCount(NoRequests) <= PmLimit
<1> DEFINE T == 0 .. MaxPmNow
<1>1. IsFiniteSet(T)  BY PmAssumption, FS_Interval
<1>2. \A x \in T : NoRequests[x] = 0  BY DEF NoRequests
<1>3. RequestCount(NoRequests) = Sum(NoRequests, T)  BY Zenon DEF RequestCount, Sum
<1>4. NoRequests \in [T -> Nat]  BY DEF NoRequests
<1> HIDE DEF T
<1>5. Sum(NoRequests, T) = 0  BY <1>1, <1>2, SumZero
<1> QED BY <1>3, <1>4, <1>5, PmAssumption DEF T

LEMMA PmLimitsKeep == ASSUME PmOK(pm), LimitsNext PROVE PmOK(pm')
<1>1. pm \in PmFields  BY DEF PmOK
<1>2. pm.now \in 0 .. MaxPmNow /\ pm.now \in Nat /\ pm.limiter \in [PmModels -> PmLimiter] /\ pm.tokens \in SUBSET AccessToken
  BY <1>1, PmFieldsOf
<1>3. CASE PmTick
  <2> DEFINE k == pm.now + 1
  <2>1. pm' = [pm EXCEPT !.now = k]  BY <1>3 DEF PmTick
  <2>2. k \in 0 .. MaxPmNow  BY <1>2, <1>3, PmAssumption DEF PmTick
  <2> HIDE DEF k
  <2>3. PmApart(pm, pm')  BY <1>1, <2>1, <2>2 DEF PmApart, PmFields
  <2> QED BY <2>3, PmApartKeeps
<1>4. ASSUME NEW m \in PmModels, NEW l \in PmLimiter, RequestCount(l.requests) <= PmLimit,
             pm' = [pm EXCEPT !.limiter = [pm.limiter EXCEPT ![m] = l]]
      PROVE  PmOK(pm')
  <2> DEFINE k == [pm.limiter EXCEPT ![m] = l]
  <2>1. k \in [PmModels -> PmLimiter]  BY <1>2
  <2>2. pm' = [pm EXCEPT !.limiter = k]  BY <1>4
  <2>3. k = [pm.limiter EXCEPT ![m] = l]  OBVIOUS
  <2> HIDE DEF k
  <2>4. pm' \in PmFields  BY ONLY <1>1, <2>1, <2>2 DEF PmFields
  <2>5. /\ pm'.used = pm.used /\ pm'.models = pm.models /\ pm'.ownerOf = pm.ownerOf /\ pm'.orgOf = pm.orgOf
        /\ pm'.byOwner = pm.byOwner /\ pm'.byOrg = pm.byOrg /\ pm'.perms = pm.perms /\ pm'.limiter = k
    BY ONLY <1>1, <2>2 DEF PmFields
  <2> QED BY <1>4, <2>3, <2>4, <2>5, LimitersSet
<1>5. ASSUME NEW m \in PmModels, CheckRateLimit(m) PROVE PmOK(pm')
  <2> DEFINE r == pm.limiter[m].requests
             a == AllowPrivateRequest(r, pm.now)
             l == [pm.limiter[m] EXCEPT !.requests = a]
  <2>1. pm.limiter[m] \in PmLimiter  BY <1>2
  <2>2. r \in [0 .. MaxPmNow -> Nat] /\ RequestCount(r) <= PmLimit  BY <2>1 DEF PmLimiter, PmOK
  <2>3. a \in [0 .. MaxPmNow -> Nat] /\ RequestCount(a) <= PmLimit  BY <1>2, <2>2, RequestTaken
  <2>4. pm' = [pm EXCEPT !.limiter = [pm.limiter EXCEPT ![m] = l]]  BY <1>5 DEF CheckRateLimit
  <2> HIDE DEF a
  <2>5. l \in PmLimiter /\ l.requests = a  BY <2>1, <2>3 DEF PmLimiter
  <2> HIDE DEF l
  <2> QED BY <1>4, <2>3, <2>4, <2>5
<1>6. ASSUME NEW m \in PmModels, NEW u \in PmUsers, SetRateLimits(m, u) PROVE PmOK(pm')
  <2> DEFINE l == [set |-> TRUE, requests |-> NoRequests]
  <2>1. pm' = [pm EXCEPT !.limiter = [pm.limiter EXCEPT ![m] = l]]  BY <1>6 DEF SetRateLimits
  <2>2. l \in PmLimiter /\ l.requests = NoRequests  BY NoneRequested DEF PmLimiter
  <2> HIDE DEF l
  <2> QED BY <1>4, <2>1, <2>2, NoneRequested
<1>7. ASSUME NEW m \in PmModels, NEW u \in PmUsers, GenerateAccessToken(m, u, "ReadOnly", 1) PROVE PmOK(pm')
  <2> DEFINE tok == [model |-> m, level |-> "ReadOnly", expires |-> pm.now + 1]
             k == pm.tokens \cup {tok}
             t == [pm EXCEPT !.tokens = k]
  <2>1. pm' = AddAuditLog(t)  BY <1>7 DEF GenerateAccessToken
  <2>2. tok \in AccessToken  BY <1>2, PmAssumption DEF AccessToken, AccessLevel
  <2> HIDE DEF tok
  <2>3. k \in SUBSET AccessToken  BY <1>2, <2>2
  <2> HIDE DEF k
  <2>4. PmApart(pm, t)  BY <1>1, <2>3 DEF PmApart, PmFields
  <2> HIDE DEF t
  <2> QED BY <2>1, <2>4, PmApartKeeps, AuditKeeps
<1> QED BY <1>3, <1>5, <1>6, <1>7 DEF LimitsNext

LEMMA PmRegistryKeeps == ASSUME PmOK(pm), PrivateRegistryNext PROVE PmOK(pm')
<1>1. PICK m \in PmModels, u \in PmUsers :
         \/ DeletePrivateModel(m, u)
         \/ \E o \in PmOrgs \cup {"none"} : CreatePrivateModel(m, u, o)
         \/ \E with \in SUBSET PmUsers \ {{}}, level \in AccessLevel : ShareModel(m, u, with, level)
  BY DEF PrivateRegistryNext
<1> QED BY <1>1, DeleteKeeps, CreateKeeps, ShareKeeps

\* The users' data: what is withdrawn is not among the purposes of the consent.
ConsentRecord == [given : BOOLEAN, purposes : SUBSET ConsentPurposes, expires : Int]

GdprFields ==
    [now : Nat, stored : SUBSET (PmUsers \X Nat), overwritten : Nat, items : 0 .. MaxPmOps, consent : [PmUsers -> ConsentRecord],
     deletions : Nat, audits : Nat, metrics : SUBSET PmUsers, withdrawn : [PmUsers -> SUBSET ConsentPurposes]]

GdprOK(s) == s \in GdprFields /\ \A u \in PmUsers : s.consent[u].purposes \cap s.withdrawn[u] = {}

LEMMA GdprFieldsOf ==
    ASSUME NEW s \in GdprFields
    PROVE  /\ s.now \in Nat /\ s.stored \in SUBSET (PmUsers \X Nat) /\ s.overwritten \in Nat /\ s.items \in 0 .. MaxPmOps
           /\ s.consent \in [PmUsers -> ConsentRecord] /\ s.deletions \in Nat /\ s.audits \in Nat
           /\ s.metrics \in SUBSET PmUsers /\ s.withdrawn \in [PmUsers -> SUBSET ConsentPurposes]
  BY DEF GdprFields

LEMMA GdprStays ==
    ASSUME GdprOK(gdpr), gdpr' \in GdprFields, gdpr'.consent = gdpr.consent, gdpr'.withdrawn = gdpr.withdrawn
    PROVE  GdprOK(gdpr')  BY DEF GdprOK

LEMMA DataKeeps == ASSUME GdprOK(gdpr), DataNext \/ GdprTick PROVE GdprOK(gdpr')
<1>1. gdpr \in GdprFields  BY DEF GdprOK
<1>2. /\ gdpr.now \in Nat /\ gdpr.stored \in SUBSET (PmUsers \X Nat) /\ gdpr.overwritten \in Nat /\ gdpr.items \in 0 .. MaxPmOps
      /\ gdpr.deletions \in Nat /\ gdpr.audits \in Nat /\ gdpr.metrics \in SUBSET PmUsers
  BY <1>1, GdprFieldsOf
<1>3. CASE GdprTick
  <2>1. gdpr' = [gdpr EXCEPT !.now = @ + 1]  BY <1>3 DEF GdprTick
  <2>2. gdpr' \in GdprFields /\ gdpr'.consent = gdpr.consent /\ gdpr'.withdrawn = gdpr.withdrawn
    BY <1>1, <1>2, <2>1 DEF GdprFields
  <2> QED BY <2>2, GdprStays
<1>4. CASE BroadcastDeletion
  <2>1. gdpr' = [gdpr EXCEPT !.deletions = @ + 1]  BY <1>4 DEF BroadcastDeletion
  <2>2. gdpr' \in GdprFields /\ gdpr'.consent = gdpr.consent /\ gdpr'.withdrawn = gdpr.withdrawn
    BY <1>1, <1>2, <2>1 DEF GdprFields
  <2> QED BY <2>2, GdprStays
<1>5. CASE GenerateAuditProof
  <2>1. gdpr' = [gdpr EXCEPT !.audits = @ + 1]  BY <1>5 DEF GenerateAuditProof
  <2>2. gdpr' \in GdprFields /\ gdpr'.consent = gdpr.consent /\ gdpr'.withdrawn = gdpr.withdrawn
    BY <1>1, <1>2, <2>1 DEF GdprFields
  <2> QED BY <2>2, GdprStays
<1>6. ASSUME NEW u \in PmUsers, StoreEncryptedData(u) PROVE GdprOK(gdpr')
  <2> DEFINE k == gdpr.stored \cup {<<u, gdpr.now>>}
             n == gdpr.items + 1
             w == IF <<u, gdpr.now>> \in gdpr.stored THEN gdpr.overwritten + 1 ELSE gdpr.overwritten
  <2>1. gdpr' = [gdpr EXCEPT !.items = n, !.stored = k, !.overwritten = w] /\ gdpr.items < MaxPmOps
    BY <1>6 DEF StoreEncryptedData
  <2>2. k \in SUBSET (PmUsers \X Nat) /\ n \in 0 .. MaxPmOps /\ w \in Nat  BY <1>2, <2>1, PmAssumption
  <2> HIDE DEF k, n, w
  <2>3. gdpr' \in GdprFields /\ gdpr'.consent = gdpr.consent /\ gdpr'.withdrawn = gdpr.withdrawn
    BY <1>1, <2>1, <2>2 DEF GdprFields
  <2> QED BY <2>3, GdprStays
<1>7. ASSUME NEW u \in PmUsers, StoreEncryptedMetric(u) PROVE GdprOK(gdpr')
  <2>1. gdpr' = [gdpr EXCEPT !.metrics = @ \cup {u}]  BY <1>7 DEF StoreEncryptedMetric
  <2>2. gdpr' \in GdprFields /\ gdpr'.consent = gdpr.consent /\ gdpr'.withdrawn = gdpr.withdrawn
    BY <1>1, <1>2, <2>1 DEF GdprFields
  <2> QED BY <2>2, GdprStays
<1> QED BY <1>3, <1>4, <1>5, <1>6, <1>7 DEF DataNext

\* A consent that names what was withdrawn before takes it back.
LEMMA ConsentSet ==
    ASSUME GdprOK(gdpr), NEW u \in PmUsers, NEW c \in ConsentRecord, NEW w \in SUBSET ConsentPurposes, c.purposes \cap w = {},
           gdpr' = [gdpr EXCEPT !.consent = [gdpr.consent EXCEPT ![u] = c], !.withdrawn = [gdpr.withdrawn EXCEPT ![u] = w]]
    PROVE  GdprOK(gdpr')
<1> DEFINE k == [gdpr.consent EXCEPT ![u] = c]
           v == [gdpr.withdrawn EXCEPT ![u] = w]
<1>1. gdpr \in GdprFields  BY DEF GdprOK
<1>2. gdpr.consent \in [PmUsers -> ConsentRecord] /\ gdpr.withdrawn \in [PmUsers -> SUBSET ConsentPurposes]
  BY <1>1, GdprFieldsOf
<1>3. k \in [PmUsers -> ConsentRecord] /\ v \in [PmUsers -> SUBSET ConsentPurposes]  BY <1>2
<1>4. \A x \in PmUsers : k[x].purposes \cap v[x] = {}  BY <1>2 DEF GdprOK
<1>5. gdpr' = [gdpr EXCEPT !.consent = k, !.withdrawn = v]  OBVIOUS
<1> HIDE DEF k, v
<1>6. gdpr' \in GdprFields /\ gdpr'.consent = k /\ gdpr'.withdrawn = v  BY ONLY <1>1, <1>3, <1>5 DEF GdprFields
<1> QED BY <1>4, <1>6 DEF GdprOK

LEMMA BroadcastKeeps ==
    ASSUME GdprOK(gdpr), NEW u \in PmUsers, NEW p \in SUBSET ConsentPurposes, NEW e \in Int, BroadcastConsent(u, p, e)
    PROVE  GdprOK(gdpr')
<1> DEFINE c == [given |-> TRUE, purposes |-> p, expires |-> e]
           w == gdpr.withdrawn[u] \ p
<1>1. gdpr.withdrawn \in [PmUsers -> SUBSET ConsentPurposes]  BY GdprFieldsOf DEF GdprOK
<1>2. c \in ConsentRecord /\ w \in SUBSET ConsentPurposes /\ c.purposes \cap w = {}  BY <1>1 DEF ConsentRecord
<1>3. gdpr' = [gdpr EXCEPT !.consent = [gdpr.consent EXCEPT ![u] = c], !.withdrawn = [gdpr.withdrawn EXCEPT ![u] = w]]
  BY DEF BroadcastConsent
<1> HIDE DEF c, w
<1> QED BY <1>2, <1>3, ConsentSet

LEMMA ConsentKeeps == ASSUME GdprOK(gdpr), ConsentNext PROVE GdprOK(gdpr')
<1>0. gdpr \in GdprFields  BY DEF GdprOK
<1>1. gdpr.now \in Nat /\ gdpr.consent \in [PmUsers -> ConsentRecord] /\ gdpr.withdrawn \in [PmUsers -> SUBSET ConsentPurposes]
  BY <1>0, GdprFieldsOf
<1>2. PICK u \in PmUsers, p \in SUBSET ConsentPurposes \ {{}} :
         \/ GrantConsent(u, p) \/ BroadcastConsent(u, p, MaxPmNow + 1)
         \/ \E ok \in BOOLEAN : WithdrawConsent(u, p, ok)
  BY DEF ConsentNext
<1>3. CASE GrantConsent(u, p)
  <2> DEFINE e == gdpr.now + ConsentTtl
  <2>1. e \in Int /\ BroadcastConsent(u, p, e)  BY <1>1, <1>3, PmAssumption DEF GrantConsent
  <2> HIDE DEF e
  <2> QED BY <2>1, BroadcastKeeps
<1>4. CASE BroadcastConsent(u, p, MaxPmNow + 1)
  <2> DEFINE e == MaxPmNow + 1
  <2>1. e \in Int /\ BroadcastConsent(u, p, e)  BY <1>4, PmAssumption
  <2> HIDE DEF e
  <2> QED BY <2>1, BroadcastKeeps
<1>5. ASSUME NEW ok \in BOOLEAN, WithdrawConsent(u, p, ok) PROVE GdprOK(gdpr')
  <2> DEFINE c == [gdpr.consent[u] EXCEPT !.purposes = gdpr.consent[u].purposes \ p]
             w == gdpr.withdrawn[u] \cup p
  <2>1. gdpr.consent[u] \in ConsentRecord  BY <1>1
  <2>2. c \in ConsentRecord /\ w \in SUBSET ConsentPurposes  BY <1>1, <2>1 DEF ConsentRecord
  <2>3. gdpr.consent[u].purposes \cap gdpr.withdrawn[u] = {}  BY DEF GdprOK
  <2>4. c.purposes = gdpr.consent[u].purposes \ p  BY <2>1 DEF ConsentRecord
  <2>5. c.purposes \cap w = {}  BY <2>3, <2>4
  <2>6. \/ gdpr' = gdpr
        \/ gdpr' = [gdpr EXCEPT !.consent = [gdpr.consent EXCEPT ![u] = c], !.withdrawn = [gdpr.withdrawn EXCEPT ![u] = w]]
    BY <1>5 DEF WithdrawConsent
  <2> HIDE DEF c, w
  <2> QED BY <2>2, <2>5, <2>6, ConsentSet
<1> QED BY <1>2, <1>3, <1>4, <1>5

PmInv == PmOK(pm) /\ GdprOK(gdpr)

LEMMA PmStep == ASSUME PmInv, [PmNext]_pmVars PROVE PmInv'
<1>1. CASE PmNext
  BY <1>1, PmRegistryKeeps, PmSessionsKeep, PmTermsKeep, PmLimitsKeep, DataKeeps, ConsentKeeps DEF PmNext, PmInv
<1>2. CASE UNCHANGED pmVars  BY <1>2 DEF pmVars, PmInv
<1> QED BY <1>1, <1>2

LEMMA PmSafe == PmInv => PmTypeOK /\ DeletedIsInaccessible /\ RequestsPerMinute /\ WithdrawnIsRefused
<1> SUFFICES ASSUME PmInv PROVE PmTypeOK /\ DeletedIsInaccessible /\ RequestsPerMinute /\ WithdrawnIsRefused  OBVIOUS
<1>1. pm \in PmFields /\ gdpr \in GdprFields  BY DEF PmInv, PmOK, GdprOK
<1>2. gdpr.consent \in [PmUsers -> ConsentRecord] /\ gdpr.items \in 0 .. MaxPmOps  BY <1>1, GdprFieldsOf
<1>3. PmTypeOK
  <2>1. \A u \in PmUsers : gdpr.consent[u].purposes \subseteq ConsentPurposes  BY <1>2 DEF ConsentRecord
  <2> QED BY <1>1, <1>2, <2>1, PmFieldsOf DEF PmTypeOK, PmInv, PmOK
<1>4. DeletedIsInaccessible  BY DEF PmInv, PmOK, PmIndexed, DeletedIsInaccessible, CheckAccess
<1>5. RequestsPerMinute
  <2> SUFFICES ASSUME NEW m \in PmModels, NEW end \in 0 .. MaxPmNow
               PROVE  RequestCount(RequestsIn(pm.limiter[m].requests, end - PmMinute, end)) <= PmLimit
    BY DEF RequestsPerMinute
  <2> DEFINE r == pm.limiter[m].requests
             b == end - PmMinute
  <2>1. pm.limiter \in [PmModels -> PmLimiter]  BY <1>1, PmFieldsOf
  <2>2. r \in [0 .. MaxPmNow -> Nat]  BY <2>1 DEF PmLimiter
  <2>3. RequestCount(r) <= PmLimit  BY DEF PmInv, PmOK
  <2>4. b \in Int /\ end \in Int  BY PmAssumption
  <2> HIDE DEF r, b
  <2>5. RequestCount(r) \in Nat /\ RequestCount(RequestsIn(r, b, end)) \in Nat /\ RequestCount(RequestsIn(r, b, end)) <= RequestCount(r)
    BY <2>2, <2>4, WindowIsPart
  <2>6. RequestCount(RequestsIn(r, b, end)) <= PmLimit  BY <2>3, <2>5, PmAssumption
  <2> QED BY <2>6 DEF r, b
<1>6. WithdrawnIsRefused  BY DEF PmInv, GdprOK, WithdrawnIsRefused, VerifyConsent, GetActiveConsent
<1> QED BY <1>3, <1>4, <1>5, <1>6

LEMMA PmInitial == PmSpecInit => PmInv
<1> SUFFICES ASSUME PmSpecInit PROVE PmInv  OBVIOUS
<1> DEFINE ow == [m \in PmModels |-> "none"]
           bw == [u \in PmUsers |-> {}]
           bo == [o \in PmOrgs |-> {}]
           g == [m \in PmModels |-> [u \in PmUsers |-> "None"]]
           us == [m \in PmModels |-> [u \in PmUsers |-> 0]]
           ls == [m \in PmModels |-> NoLimiter]
           f == [sealed |-> FALSE, owner |-> "none", hard |-> FALSE]
<1>1. pm = [now |-> 0, ops |-> 0, used |-> {}, audit |-> 0, models |-> {}, ownerOf |-> ow, orgOf |-> ow, byOwner |-> bw,
            byOrg |-> bo, perms |-> g, sharing |-> {}, tokens |-> {}, licences |-> {}, accepted |-> {}, policies |-> {},
            noExport |-> {}, usage |-> us, limiter |-> ls, sessions |-> {}, keys |-> {}, file |-> f]
  BY DEF PmSpecInit, PmInit
<1>2. NoLimiter \in PmLimiter /\ NoLimiter.requests = NoRequests  BY NoneRequested DEF NoLimiter, PmLimiter
<1>3. /\ ow \in [PmModels -> PmUsers \cup {"none"}] /\ ow \in [PmModels -> PmOrgs \cup {"none"}]
      /\ bw \in [PmUsers -> SUBSET PmModels] /\ bo \in [PmOrgs -> SUBSET PmModels] /\ g \in PmGrants
      /\ us \in [PmModels -> [PmUsers -> Nat]] /\ ls \in [PmModels -> PmLimiter] /\ f \in PmFile
  BY <1>2 DEF PmGrants, PmFile
<1>4. (\A u \in PmUsers : bw[u] = {}) /\ (\A o \in PmOrgs : bo[o] = {}) /\ (\A m \in PmModels : ls[m] = NoLimiter)
      /\ \A m \in PmModels : \A u \in PmUsers : g[m][u] = "None"
  OBVIOUS
<1>5. 0 \in 0 .. MaxPmNow  BY PmAssumption
<1> HIDE DEF ow, bw, bo, g, us, ls, f
<1>6. pm \in PmFields  BY <1>1, <1>3, <1>5 DEF PmFields
<1>7. pm.used = {} /\ pm.models = {} /\ pm.byOwner = bw /\ pm.byOrg = bo /\ pm.perms = g /\ pm.limiter = ls  BY <1>1
<1>8. PmIndexed(pm)  BY <1>4, <1>7 DEF PmIndexed
<1>9. \A m \in PmModels : RequestCount(pm.limiter[m].requests) <= PmLimit  BY <1>2, <1>4, <1>7, NoneRequested
<1>10. PmOK(pm)  BY <1>4, <1>6, <1>7, <1>8, <1>9 DEF PmOK
<1> DEFINE cs == [u \in PmUsers |-> [given |-> FALSE, purposes |-> {}, expires |-> 0]]
           ws == [u \in PmUsers |-> {}]
<1>11. gdpr = [now |-> 0, stored |-> {}, overwritten |-> 0, items |-> 0, consent |-> cs, deletions |-> 0, audits |-> 0,
               metrics |-> {}, withdrawn |-> ws]  BY DEF PmSpecInit, GdprInit
<1>12. /\ cs \in [PmUsers -> ConsentRecord] /\ ws \in [PmUsers -> SUBSET ConsentPurposes]
       /\ \A u \in PmUsers : cs[u].purposes \cap ws[u] = {}
  BY DEF ConsentRecord
<1>13. 0 \in 0 .. MaxPmOps  BY PmAssumption
<1> HIDE DEF cs, ws
<1>14. gdpr \in GdprFields /\ gdpr.consent = cs /\ gdpr.withdrawn = ws  BY <1>11, <1>12, <1>13 DEF GdprFields
<1> QED BY <1>10, <1>12, <1>14 DEF PmInv, GdprOK

-----------------------------------------------------------------------------
(* Ezkl.  Each part has an invariant of its own.  The keys: a key that     *)
(* waits to be inserted, or is cached, was read from a good file.          *)

EzKeyTask == [pc : {"idle", "lookup", "load", "insert"}, key : Nat]
KeysOK(s) ==
    /\ s = [file |-> s.file, bad |-> s.bad, cache |-> s.cache, task |-> s.task, ops |-> s.ops]
    /\ s.file \in Nat /\ s.bad \in SUBSET (0 .. s.file) /\ s.task \in [EzTasks -> EzKeyTask]
    /\ s.cache = -1 \/ (s.cache \in 0 .. s.file /\ s.cache \notin s.bad)
    /\ \A t \in EzTasks : s.task[t].pc = "insert" => s.task[t].key <= s.file /\ s.task[t].key \notin s.bad

\* A task moves, and what is inserted is what a task had.
LEMMA KeysMove ==
    ASSUME KeysOK(keyCache), NEW t \in EzTasks, NEW u \in EzKeyTask, NEW c, NEW o,
           keyCache' = [keyCache EXCEPT !.task = [keyCache.task EXCEPT ![t] = u], !.cache = c, !.ops = o],
           u.pc = "insert" => u.key <= keyCache.file /\ u.key \notin keyCache.bad,
           c = -1 \/ (c \in 0 .. keyCache.file /\ c \notin keyCache.bad)
    PROVE  KeysOK(keyCache')
<1> DEFINE k == [keyCache.task EXCEPT ![t] = u]
<1>1. keyCache.task \in [EzTasks -> EzKeyTask]  BY DEF KeysOK
<1>2. k \in [EzTasks -> EzKeyTask] /\ \A x \in EzTasks : k[x] = IF x = t THEN u ELSE keyCache.task[x]  BY <1>1
<1>3. keyCache' = [keyCache EXCEPT !.task = k, !.cache = c, !.ops = o]  OBVIOUS
<1> HIDE DEF k
<1>4. keyCache' = [file |-> keyCache.file, bad |-> keyCache.bad, cache |-> c, task |-> k, ops |-> o]  BY <1>3 DEF KeysOK
<1>5. keyCache'.file = keyCache.file /\ keyCache'.bad = keyCache.bad /\ keyCache'.cache = c /\ keyCache'.task = k /\ keyCache'.ops = o
  BY ONLY <1>4
<1>6. \A x \in EzTasks : k[x].pc = "insert" => k[x].key <= keyCache.file /\ k[x].key \notin keyCache.bad
  BY <1>2 DEF KeysOK
<1> QED BY <1>2, <1>4, <1>5, <1>6 DEF KeysOK

LEMMA KeysStep == ASSUME KeysOK(keyCache), KeysNext PROVE KeysOK(keyCache')
<1>1. /\ keyCache = [file |-> keyCache.file, bad |-> keyCache.bad, cache |-> keyCache.cache, task |-> keyCache.task, ops |-> keyCache.ops]
      /\ keyCache.file \in Nat /\ keyCache.bad \in SUBSET (0 .. keyCache.file) /\ keyCache.task \in [EzTasks -> EzKeyTask]
      /\ (keyCache.cache = -1 \/ (keyCache.cache \in 0 .. keyCache.file /\ keyCache.cache \notin keyCache.bad))
  BY DEF KeysOK
<1>2. ASSUME NEW bad \in BOOLEAN, KeyFileChanges(bad) PROVE KeysOK(keyCache')
  <2> DEFINE f == keyCache.file + 1
             b == IF bad THEN keyCache.bad \cup {keyCache.file + 1} ELSE keyCache.bad
  <2>1. keyCache' = [keyCache EXCEPT !.file = f, !.bad = b]  BY <1>2 DEF KeyFileChanges, KeyStep
  <2>2. f \in Nat /\ b \in SUBSET (0 .. f) /\ f > keyCache.file /\ \A x \in b : x \in keyCache.bad \/ x = f  BY <1>1
  <2>7. f = keyCache.file + 1  OBVIOUS
  <2> HIDE DEF f, b
  <2>3. keyCache' = [file |-> f, bad |-> b, cache |-> keyCache.cache, task |-> keyCache.task, ops |-> keyCache.ops]
    BY <1>1, <2>1
  <2>4. keyCache'.file = f /\ keyCache'.bad = b /\ keyCache'.cache = keyCache.cache /\ keyCache'.task = keyCache.task /\ keyCache'.ops = keyCache.ops
    BY <2>3
  <2>5. keyCache.cache = -1 \/ (keyCache.cache \in 0 .. f /\ keyCache.cache \notin b)  BY <1>1, <2>2, <2>7
  <2>6. ASSUME NEW t \in EzTasks, keyCache.task[t].pc = "insert" PROVE keyCache.task[t].key <= f /\ keyCache.task[t].key \notin b
    <3>1. keyCache.task[t].key \in Nat  BY <1>1 DEF EzKeyTask
    <3>2. keyCache.task[t].key <= keyCache.file /\ keyCache.task[t].key \notin keyCache.bad  BY <2>6 DEF KeysOK
    <3> QED BY <1>1, <2>2, <2>7, <3>1, <3>2
  <2> QED BY <1>1, <2>2, <2>3, <2>4, <2>5, <2>6 DEF KeysOK
<1>3. CASE InvalidateKeys
  <2>1. keyCache' = [keyCache EXCEPT !.cache = -1]  BY <1>3 DEF InvalidateKeys, KeyStep
  <2>3. keyCache' = [file |-> keyCache.file, bad |-> keyCache.bad, cache |-> -1, task |-> keyCache.task, ops |-> keyCache.ops]
    BY <1>1, <2>1
  <2>4. keyCache'.file = keyCache.file /\ keyCache'.bad = keyCache.bad /\ keyCache'.cache = -1 /\ keyCache'.task = keyCache.task /\ keyCache'.ops = keyCache.ops
    BY <2>3
  <2> QED BY <1>1, <2>3, <2>4 DEF KeysOK
<1>4. ASSUME NEW t \in EzTasks, LookUpKey(t) \/ LoadKey(t) \/ InsertKey(t) \/ ReloadKey(t) \/ LookUpAgain(t) PROVE KeysOK(keyCache')
  <2> DEFINE u == keyCache.task[t]
  <2>1. u \in EzKeyTask  BY <1>1
  <2>2. u.key \in Nat /\ u.pc \in {"idle", "lookup", "load", "insert"} /\ (u.pc = "insert" => u.key <= keyCache.file /\ u.key \notin keyCache.bad)
    BY <2>1 DEF EzKeyTask, KeysOK
  <2>3. CASE LookUpKey(t)
    <3>1. keyCache' = [keyCache EXCEPT !.task = [keyCache.task EXCEPT ![t] = [u EXCEPT !.pc = "load"]], !.cache = keyCache.cache, !.ops = keyCache.ops + 1]
      BY <1>1, <2>3 DEF LookUpKey, KeyStep
    <3>2. [u EXCEPT !.pc = "load"] \in EzKeyTask /\ [u EXCEPT !.pc = "load"].pc # "insert"  BY <2>1 DEF EzKeyTask
    <3> HIDE DEF u
    <3> QED BY <1>1, <3>1, <3>2, KeysMove
  <2>4. CASE LoadKey(t)
    <3> DEFINE v == [pc |-> IF keyCache.file \in keyCache.bad THEN "idle" ELSE "insert", key |-> keyCache.file]
    <3>1. keyCache' = [keyCache EXCEPT !.task = [keyCache.task EXCEPT ![t] = v], !.cache = keyCache.cache, !.ops = keyCache.ops]
      BY <1>1, <2>4 DEF LoadKey, KeyStep
    <3>2. v \in EzKeyTask /\ (v.pc = "insert" => v.key <= keyCache.file /\ v.key \notin keyCache.bad)
      BY <1>1 DEF EzKeyTask
    <3> HIDE DEF v
    <3> QED BY <1>1, <3>1, <3>2, KeysMove
  <2>5. CASE InsertKey(t)
    <3> DEFINE v == [u EXCEPT !.pc = "idle"]
    <3>1. keyCache' = [keyCache EXCEPT !.task = [keyCache.task EXCEPT ![t] = v], !.cache = u.key, !.ops = keyCache.ops] /\ u.pc = "insert"
      BY <1>1, <2>5 DEF InsertKey, KeyStep, KeyAt
    <3>2. v \in EzKeyTask /\ v.pc # "insert"  BY <2>1 DEF EzKeyTask
    <3>3. u.key \in 0 .. keyCache.file /\ u.key \notin keyCache.bad  BY <1>1, <2>2, <3>1
    <3> HIDE DEF u, v
    <3> QED BY <1>1, <3>1, <3>2, <3>3, KeysMove
  <2>6. CASE ReloadKey(t)
    <3>1. keyCache' = [keyCache EXCEPT !.task = [keyCache.task EXCEPT ![t] = [u EXCEPT !.pc = "lookup"]], !.cache = -1, !.ops = keyCache.ops + 1]
      BY <1>1, <2>6 DEF ReloadKey, KeyStep
    <3>2. [u EXCEPT !.pc = "lookup"] \in EzKeyTask /\ [u EXCEPT !.pc = "lookup"].pc # "insert"  BY <2>1 DEF EzKeyTask
    <3> HIDE DEF u
    <3> QED BY <1>1, <3>1, <3>2, KeysMove
  <2>7. CASE LookUpAgain(t)
    <3> DEFINE v == [u EXCEPT !.pc = IF keyCache.cache = -1 THEN "load" ELSE "idle"]
    <3>1. keyCache' = [keyCache EXCEPT !.task = [keyCache.task EXCEPT ![t] = v], !.cache = keyCache.cache, !.ops = keyCache.ops]
      BY <1>1, <2>7 DEF LookUpAgain, KeyStep
    <3>2. v \in EzKeyTask /\ v.pc # "insert"  BY <2>1 DEF EzKeyTask
    <3> HIDE DEF v
    <3> QED BY <1>1, <3>1, <3>2, KeysMove
  <2> QED BY <1>4, <2>3, <2>4, <2>5, <2>6, <2>7
<1> QED BY <1>2, <1>3, <1>4 DEF KeysNext

\* The verdicts: an accepted proof was compared with the witness that is kept.
JudgedOK(s) ==
    /\ s = [real |-> s.real, proof |-> s.proof, bytes |-> s.bytes, witness |-> s.witness, verdict |-> s.verdict]
    /\ s.verdict = "accepted" =>
          /\ \A f \in {"model", "input", "output"} : s.proof[f] = s.witness[f]
          /\ s.real => s.bytes = s.witness

LEMMA JudgedKeeps ==
    ASSUME JudgedOK(judged), NEW a, NEW b, NEW w, NEW v,
           judged' = [judged EXCEPT !.proof = a, !.bytes = b, !.witness = w, !.verdict = v],
           v = "accepted" => (\A f \in {"model", "input", "output"} : a[f] = w[f]) /\ (judged.real => b = w)
    PROVE  JudgedOK(judged')
<1>1. judged' = [real |-> judged.real, proof |-> a, bytes |-> b, witness |-> w, verdict |-> v]  BY DEF JudgedOK
<1>2. judged'.real = judged.real /\ judged'.proof = a /\ judged'.bytes = b /\ judged'.witness = w /\ judged'.verdict = v
  BY ONLY <1>1
<1> QED BY <1>1, <1>2 DEF JudgedOK

LEMMA JudgedSteps == ASSUME JudgedOK(judged), JudgedNext PROVE JudgedOK(judged')
<1>0. judged = [real |-> judged.real, proof |-> judged.proof, bytes |-> judged.bytes, witness |-> judged.witness, verdict |-> judged.verdict]
  BY DEF JudgedOK
<1>1. ASSUME NEW w, EzGenerateProof(w) PROVE JudgedOK(judged')
  <2>1. judged' = [judged EXCEPT !.proof = w, !.bytes = w, !.witness = judged.witness, !.verdict = "none"]
    BY <1>0, <1>1 DEF EzGenerateProof, JudgedStep
  <2>2. "none" # "accepted"  OBVIOUS
  <2> QED BY <2>1, <2>2, JudgedKeeps, Zenon
<1>2. ASSUME NEW w, VerifyCommitment(w) PROVE JudgedOK(judged')
  <2> DEFINE ok == /\ HashesMatch(judged.proof, w)
                   /\ IF judged.real THEN VerifyRealProof(judged.bytes, w) ELSE VerifyMockProof(judged.bytes, w)
             v == IF ok THEN "accepted" ELSE "refused"
  <2>1. judged' = [judged EXCEPT !.witness = w, !.verdict = v]  BY <1>2 DEF VerifyCommitment, JudgedStep
  <2>2. v = "accepted" => (\A f \in {"model", "input", "output"} : judged.proof[f] = w[f]) /\ (judged.real => judged.bytes = w)
    BY DEF HashesMatch, VerifyRealProof
  <2> HIDE DEF ok, v
  <2>3. judged' = [judged EXCEPT !.proof = judged.proof, !.bytes = judged.bytes, !.witness = w, !.verdict = v]
    BY <1>0, <2>1
  <2> QED BY <2>2, <2>3, JudgedKeeps, Zenon
<1>3. ASSUME NEW w, NEW b, VerifyProofBytes(w, b) PROVE JudgedOK(judged')
  <2> DEFINE ok == judged.real => VerifyRealProofBytes(judged.bytes, w, b)
             v == IF ok THEN "bytes accepted" ELSE "refused"
  <2>1. judged' = [judged EXCEPT !.witness = w, !.verdict = v]  BY <1>3 DEF VerifyProofBytes, JudgedStep
  <2>2. v # "accepted"  OBVIOUS
  <2> HIDE DEF ok, v
  <2>3. judged' = [judged EXCEPT !.proof = judged.proof, !.bytes = judged.bytes, !.witness = w, !.verdict = v]
    BY <1>0, <2>1
  <2> QED BY <2>2, <2>3, JudgedKeeps, Zenon
<1>4. ASSUME NEW p, NEW b, ProofReplaced(p, b) PROVE JudgedOK(judged')
  <2>1. judged' = [judged EXCEPT !.proof = p, !.bytes = b, !.witness = judged.witness, !.verdict = "none"]
    BY <1>0, <1>4 DEF ProofReplaced, JudgedStep
  <2>2. "none" # "accepted"  OBVIOUS
  <2> QED BY <2>1, <2>2, JudgedKeeps, Zenon
<1> QED BY <1>1, <1>2, <1>3, <1>4 DEF JudgedNext

\* The batches: what is not pending is the proof of its inference, a stream has
\* sent what it counts, and no task proves for a stream.
EzEntry ==
    [status : {"none", "InProgress", "Completed", "Failed", "Cancelled"}, processed : Nat, timer : BOOLEAN,
     cancelled : BOOLEAN, waiter : {"none", "polls", "reads", "ok", "failed"}]
BatchShape(s) ==
    s = [pc |-> s.pc, parallel |-> s.parallel, unique |-> s.unique, total |-> s.total, permits |-> s.permits, running |-> s.running,
         proofs |-> s.proofs, sent |-> s.sent, streams |-> s.streams, result |-> s.result, ops |-> s.ops, entry |-> s.entry]
ProofsMade(proofs, unique) == \A i \in DOMAIN proofs : proofs[i] # "pending" => proofs[i] = GenerateSingleProof(unique[i])
EntryOK(e) == e \in EzEntry /\ (e.cancelled => e.status = "Cancelled")
BatchOK(s) ==
    /\ BatchShape(s) /\ s.total \in Nat /\ EntryOK(s.entry) /\ ProofsMade(s.proofs, s.unique)
    /\ s.streams => s.running = {} /\ s.sent \in Nat /\ s.proofs \in Seq({"ok", "failed"}) /\ Len(s.proofs) = s.sent

\* The map of started batches.
LEMMA EntryMoves ==
    ASSUME BatchOK(batch), NEW e, EntryOK(e), NEW n \in Nat, batch' = [batch EXCEPT !.entry = e, !.total = n]
    PROVE  BatchOK(batch')
<1>1. batch' = [pc |-> batch.pc, parallel |-> batch.parallel, unique |-> batch.unique, total |-> n, permits |-> batch.permits, running |-> batch.running,
           proofs |-> batch.proofs, sent |-> batch.sent, streams |-> batch.streams, result |-> batch.result, ops |-> batch.ops, entry |-> e]
  BY DEF BatchOK, BatchShape
<1>2. /\ batch'.pc = batch.pc /\ batch'.parallel = batch.parallel /\ batch'.unique = batch.unique /\ batch'.total = n /\ batch'.permits = batch.permits /\ batch'.running = batch.running
      /\ batch'.proofs = batch.proofs /\ batch'.sent = batch.sent /\ batch'.streams = batch.streams /\ batch'.result = batch.result /\ batch'.ops = batch.ops /\ batch'.entry = e
  BY ONLY <1>1
<1>3. BatchShape(batch')  BY ONLY <1>1, <1>2 DEF BatchShape
<1>4. ProofsMade(batch'.proofs, batch'.unique)  BY ONLY <1>2, BatchOK(batch) DEF BatchOK
<1>5. batch'.streams => batch'.running = {} /\ batch'.sent \in Nat /\ batch'.proofs \in Seq({"ok", "failed"}) /\ Len(batch'.proofs) = batch'.sent
  BY ONLY <1>2, BatchOK(batch) DEF BatchOK
<1>6. EntryOK(batch'.entry) /\ batch'.total \in Nat  BY <1>2
<1> QED BY <1>3, <1>4, <1>5, <1>6 DEF BatchOK

LEMMA EntryOnly == ASSUME BatchOK(batch), NEW e, EntryOK(e), batch' = [batch EXCEPT !.entry = e] PROVE BatchOK(batch')
<1>1. batch' = [batch EXCEPT !.entry = e, !.total = batch.total] /\ batch.total \in Nat  BY DEF BatchOK, BatchShape
<1> QED BY <1>1, EntryMoves, Zenon

\* What the operations make of an entry.
LEMMA EntryChanges ==
    ASSUME NEW e, EntryOK(e), NEW p \in Nat, NEW w \in {"none", "polls", "reads", "ok", "failed"}
    PROVE  /\ e.status = "none" => EntryOK([e EXCEPT !.status = "InProgress", !.timer = TRUE])
           /\ e.status # "Cancelled" => EntryOK([e EXCEPT !.status = "Failed", !.processed = p])
           /\ e.status # "Cancelled" => EntryOK([e EXCEPT !.timer = FALSE, !.status = "Completed", !.processed = p])
           /\ EntryOK([e EXCEPT !.timer = FALSE])
           /\ EntryOK([e EXCEPT !.waiter = w])
           /\ EntryOK([e EXCEPT !.status = "Cancelled", !.cancelled = TRUE])
<1>0. e \in EzEntry /\ e.cancelled \in BOOLEAN /\ (e.cancelled => e.status = "Cancelled")  BY DEF EntryOK, EzEntry
<1>1. e.status = "none" => EntryOK([e EXCEPT !.status = "InProgress", !.timer = TRUE])  BY <1>0 DEF EntryOK, EzEntry
<1>2. e.status # "Cancelled" => EntryOK([e EXCEPT !.status = "Failed", !.processed = p])  BY <1>0 DEF EntryOK, EzEntry
<1>3. e.status # "Cancelled" => EntryOK([e EXCEPT !.timer = FALSE, !.status = "Completed", !.processed = p])
  BY <1>0 DEF EntryOK, EzEntry
<1>4. EntryOK([e EXCEPT !.timer = FALSE])  BY <1>0 DEF EntryOK, EzEntry
<1>5. EntryOK([e EXCEPT !.waiter = w])  BY <1>0 DEF EntryOK, EzEntry
<1>6. EntryOK([e EXCEPT !.status = "Cancelled", !.cancelled = TRUE])  BY <1>0 DEF EntryOK, EzEntry
<1> QED BY <1>1, <1>2, <1>3, <1>4, <1>5, <1>6

LEMMA StartedKeeps ==
    ASSUME BatchOK(batch), \/ \E n \in 0 .. EzBatchMax : StartBatchProof(n) \/ SimulateInterruption(n)
                           \/ BatchTimer \/ CancelBatchProof \/ WaitForBatch \/ PollBatch \/ RecreateBatch
    PROVE  BatchOK(batch')
<1> DEFINE e == batch.entry
<1>0. EntryOK(e) /\ batch.total \in Nat  BY DEF BatchOK
<1>1. ASSUME NEW n \in 0 .. EzBatchMax, StartBatchProof(n) PROVE BatchOK(batch')
  <2> DEFINE f == [e EXCEPT !.status = "InProgress", !.timer = TRUE]
  <2>1. batch' = [batch EXCEPT !.total = n, !.entry = f] /\ e.status = "none"  BY <1>1 DEF StartBatchProof, BatchStep
  <2>2. EntryOK(f)  BY <1>0, <2>1, EntryChanges
  <2> HIDE DEF f
  <2>3. batch' = [batch EXCEPT !.entry = f, !.total = n]  BY <2>1 DEF BatchOK, BatchShape
  <2>4. n \in Nat  BY EzAssumption
  <2> QED BY <2>2, <2>3, <2>4, EntryMoves, Zenon
<1>2. ASSUME NEW n \in 0 .. EzBatchMax, SimulateInterruption(n) PROVE BatchOK(batch')
  <2> DEFINE f == [e EXCEPT !.status = "Failed", !.processed = n]
  <2>1. batch' = [batch EXCEPT !.entry = f] /\ e.status # "Cancelled"  BY <1>2 DEF SimulateInterruption, BatchStep
  <2>3. n \in Nat  BY EzAssumption
  <2>2. EntryOK(f)  BY <1>0, <2>1, <2>3, EntryChanges
  <2> HIDE DEF f
  <2> QED BY <2>1, <2>2, EntryOnly, Zenon
<1>3. CASE BatchTimer
  <2>1. CASE e.status = "Cancelled"
    <3> DEFINE f == [e EXCEPT !.timer = FALSE]
    <3>1. batch' = [batch EXCEPT !.entry = f]  BY <1>3, <2>1 DEF BatchTimer, BatchStep
    <3>2. EntryOK(f)  BY <1>0, EntryChanges
    <3> HIDE DEF f
    <3> QED BY <3>1, <3>2, EntryOnly, Zenon
  <2>2. CASE e.status # "Cancelled"
    <3> DEFINE f == [e EXCEPT !.timer = FALSE, !.status = "Completed", !.processed = batch.total]
    <3>1. batch' = [batch EXCEPT !.entry = f]  BY <1>3, <2>2 DEF BatchTimer, BatchStep
    <3>2. EntryOK(f)  BY <1>0, <2>2, EntryChanges
    <3> HIDE DEF f
    <3> QED BY <3>1, <3>2, EntryOnly, Zenon
  <2> QED BY <2>1, <2>2
<1>4. CASE CancelBatchProof
  <2> DEFINE f == [e EXCEPT !.status = "Cancelled", !.cancelled = TRUE]
  <2>1. batch' = [batch EXCEPT !.entry = f]  BY <1>4 DEF CancelBatchProof, BatchStep
  <2>2. EntryOK(f)  BY <1>0, EntryChanges
  <2> HIDE DEF f
  <2> QED BY <2>1, <2>2, EntryOnly, Zenon
<1>5. ASSUME NEW w \in {"none", "polls", "reads", "ok", "failed"}, batch' = [batch EXCEPT !.entry = [e EXCEPT !.waiter = w]] PROVE BatchOK(batch')
  <2> DEFINE f == [e EXCEPT !.waiter = w]
  <2>1. batch' = [batch EXCEPT !.entry = f]  BY <1>5
  <2>2. EntryOK(f)  BY <1>0, EntryChanges
  <2> HIDE DEF f
  <2> QED BY <2>1, <2>2, EntryOnly, Zenon
<1>6. CASE WaitForBatch  BY <1>5, <1>6 DEF WaitForBatch, BatchStep
<1>7. CASE PollBatch  BY <1>5, <1>7 DEF PollBatch, BatchStep
<1>8. CASE RecreateBatch  BY <1>5, <1>8 DEF RecreateBatch, BatchStep
<1> QED BY <1>1, <1>2, <1>3, <1>4, <1>6, <1>7, <1>8

\* What batch' is made of, from the fields that change.
LEMMA BatchOf ==
    ASSUME NEW s, NEW pc, NEW pa, NEW un, NEW to, NEW pe, NEW ru, NEW pr, NEW se, NEW st, NEW re, NEW op, NEW en,
           s = [pc |-> pc, parallel |-> pa, unique |-> un, total |-> to, permits |-> pe, running |-> ru,
                proofs |-> pr, sent |-> se, streams |-> st, result |-> re, ops |-> op, entry |-> en]
    PROVE  /\ BatchShape(s) /\ s.pc = pc /\ s.parallel = pa /\ s.unique = un /\ s.total = to /\ s.permits = pe /\ s.running = ru
           /\ s.proofs = pr /\ s.sent = se /\ s.streams = st /\ s.result = re /\ s.ops = op /\ s.entry = en
<1>1. /\ s.pc = pc /\ s.parallel = pa /\ s.unique = un /\ s.total = to /\ s.permits = pe /\ s.running = ru
      /\ s.proofs = pr /\ s.sent = se /\ s.streams = st /\ s.result = re /\ s.ops = op /\ s.entry = en
  OBVIOUS
<1> QED BY <1>1 DEF BatchShape

\* A task's proof is written at its inference's place.
LEMMA WrittenProof ==
    ASSUME NEW pr, NEW un, NEW i, ProofsMade(pr, un)
    PROVE  ProofsMade([pr EXCEPT ![i] = GenerateSingleProof(un[i])], un)  BY DEF ProofsMade

LEMMA BatchCreates ==
    ASSUME BatchOK(batch), NEW items, NEW dedup, NEW pa, NEW limit, Len(items) \in Nat, CreateBatchProof(items, dedup, pa, limit)
    PROVE  BatchOK(batch')
<1> DEFINE un == IF dedup THEN DeduplicateInferences(items) ELSE items
           to == Len(items)
           pe == IF pa THEN limit ELSE 1
           pr == [i \in 1 .. Len(un) |-> "pending"]
           op == batch.ops + 1
           st == FALSE
<1>1. batch' = [batch EXCEPT !.pc = "work", !.parallel = pa, !.unique = un, !.total = to, !.permits = pe, !.running = {}, !.streams = st,
                  !.proofs = pr, !.result = "none", !.ops = op]  BY DEF CreateBatchProof, BatchStep
<1>2. ProofsMade(pr, un) /\ ~st /\ to \in Nat  BY DEF ProofsMade
<1> HIDE DEF un, to, pe, pr, op, st
<1>3. batch' = [pc |-> "work", parallel |-> pa, unique |-> un, total |-> to, permits |-> pe, running |-> {}, proofs |-> pr,
                sent |-> batch.sent, streams |-> st, result |-> "none", ops |-> op, entry |-> batch.entry]
  BY <1>1 DEF BatchOK, BatchShape
<1>4. BatchShape(batch') /\ batch'.total = to /\ batch'.unique = un /\ batch'.proofs = pr /\ batch'.streams = st /\ batch'.entry = batch.entry
  BY ONLY <1>3, BatchOf
<1> QED BY <1>2, <1>4 DEF BatchOK

LEMMA ProofBegins == ASSUME BatchOK(batch), NEW i, BeginProof(i) PROVE BatchOK(batch')
<1> DEFINE ru == batch.running \cup {i}
<1>1. batch' = [batch EXCEPT !.running = ru] /\ ~batch.streams  BY DEF BeginProof, BatchStep
<1> HIDE DEF ru
<1>3. batch' = [pc |-> batch.pc, parallel |-> batch.parallel, unique |-> batch.unique, total |-> batch.total, permits |-> batch.permits,
                running |-> ru, proofs |-> batch.proofs, sent |-> batch.sent, streams |-> batch.streams, result |-> batch.result,
                ops |-> batch.ops, entry |-> batch.entry]  BY <1>1 DEF BatchOK, BatchShape
<1>4. BatchShape(batch') /\ batch'.total = batch.total /\ batch'.unique = batch.unique /\ batch'.proofs = batch.proofs
      /\ batch'.streams = batch.streams /\ batch'.entry = batch.entry
  BY ONLY <1>3, BatchOf
<1> QED BY <1>1, <1>4 DEF BatchOK

LEMMA ProofEnds == ASSUME BatchOK(batch), NEW i, EndProof(i) PROVE BatchOK(batch')
<1> DEFINE ru == batch.running \ {i}
           pr == [batch.proofs EXCEPT ![i] = GenerateSingleProof(batch.unique[i])]
<1>1. batch' = [batch EXCEPT !.running = ru, !.proofs = pr] /\ i \in batch.running  BY DEF EndProof, BatchStep
<1>2. ~batch.streams  BY <1>1 DEF BatchOK
<1>5. ProofsMade(batch.proofs, batch.unique)  BY DEF BatchOK
<1>6. ProofsMade(pr, batch.unique)  BY <1>5, WrittenProof
<1> HIDE DEF ru, pr
<1>3. batch' = [pc |-> batch.pc, parallel |-> batch.parallel, unique |-> batch.unique, total |-> batch.total, permits |-> batch.permits,
                running |-> ru, proofs |-> pr, sent |-> batch.sent, streams |-> batch.streams, result |-> batch.result,
                ops |-> batch.ops, entry |-> batch.entry]  BY <1>1 DEF BatchOK, BatchShape
<1>4. BatchShape(batch') /\ batch'.total = batch.total /\ batch'.unique = batch.unique /\ batch'.proofs = pr
      /\ batch'.streams = batch.streams /\ batch'.entry = batch.entry
  BY ONLY <1>3, BatchOf
<1> QED BY <1>2, <1>4, <1>6 DEF BatchOK

\* The call returns, or the stream ends.
LEMMA BatchEnds == ASSUME BatchOK(batch), NEW p, NEW re, batch' = [batch EXCEPT !.pc = p, !.result = re] PROVE BatchOK(batch')
<1>3. batch' = [pc |-> p, parallel |-> batch.parallel, unique |-> batch.unique, total |-> batch.total, permits |-> batch.permits,
                running |-> batch.running, proofs |-> batch.proofs, sent |-> batch.sent, streams |-> batch.streams, result |-> re,
                ops |-> batch.ops, entry |-> batch.entry]  BY DEF BatchOK, BatchShape
<1>4. BatchShape(batch') /\ batch'.total = batch.total /\ batch'.unique = batch.unique /\ batch'.proofs = batch.proofs
      /\ batch'.streams = batch.streams /\ batch'.entry = batch.entry /\ batch'.running = batch.running /\ batch'.sent = batch.sent
  BY ONLY <1>3, BatchOf
<1> QED BY <1>4 DEF BatchOK

LEMMA StreamBegins ==
    ASSUME BatchOK(batch), NEW items, Len(items) \in Nat, CreateBatchProofStream(items)
    PROVE  BatchOK(batch')
<1> DEFINE to == Len(items)
           op == batch.ops + 1
           st == TRUE
           pa == FALSE
           pr == <<>>
<1>1. batch' = [batch EXCEPT !.pc = "work", !.parallel = pa, !.streams = st, !.unique = items, !.total = to,
                    !.permits = 1, !.running = {}, !.sent = 0, !.proofs = pr, !.result = "none", !.ops = op]
  BY DEF CreateBatchProofStream, BatchStep
<1>2. ProofsMade(pr, items) /\ to \in Nat /\ pr \in Seq({"ok", "failed"}) /\ Len(pr) = 0  BY DEF ProofsMade
<1> HIDE DEF to, op, st, pa, pr
<1>3. batch' = [pc |-> "work", parallel |-> pa, unique |-> items, total |-> to, permits |-> 1, running |-> {}, proofs |-> pr,
                sent |-> 0, streams |-> st, result |-> "none", ops |-> op, entry |-> batch.entry]
  BY <1>1 DEF BatchOK, BatchShape
<1>4. BatchShape(batch') /\ batch'.total = to /\ batch'.unique = items /\ batch'.proofs = pr /\ batch'.entry = batch.entry
      /\ batch'.running = {} /\ batch'.sent = 0
  BY ONLY <1>3, BatchOf
<1> QED BY <1>2, <1>4 DEF BatchOK

LEMMA ChunkSent ==
    ASSUME BatchOK(batch), batch.streams,
           batch' = [batch EXCEPT !.sent = @ + 1, !.proofs = Append(@, GenerateSingleProof(batch.unique[batch.sent + 1]))]
    PROVE  BatchOK(batch')
<1> DEFINE x == GenerateSingleProof(batch.unique[batch.sent + 1])
           pr == Append(batch.proofs, x)
           se == batch.sent + 1
<1>1. batch' = [batch EXCEPT !.sent = se, !.proofs = pr]  OBVIOUS
<1>2. batch.running = {} /\ batch.sent \in Nat /\ batch.proofs \in Seq({"ok", "failed"}) /\ Len(batch.proofs) = batch.sent
      /\ ProofsMade(batch.proofs, batch.unique)
  BY DEF BatchOK
<1>3. x \in {"ok", "failed"}  BY DEF GenerateSingleProof
<1>4. pr \in Seq({"ok", "failed"}) /\ Len(pr) = se /\ se \in Nat  BY <1>2, <1>3
<1>5. ProofsMade(pr, batch.unique)
  <2>1. DOMAIN pr = 1 .. se /\ DOMAIN batch.proofs = 1 .. batch.sent  BY <1>2, <1>4, LenProperties
  <2>2. \A i \in 1 .. batch.sent : pr[i] = batch.proofs[i]  BY <1>2, <1>3
  <2>3. pr[se] = x  BY <1>2, <1>3
  <2>4. \A i \in 1 .. se : i \in 1 .. batch.sent \/ i = se  BY <1>2
  <2> QED BY <1>2, <2>1, <2>2, <2>3, <2>4 DEF ProofsMade
<1> HIDE DEF x, pr, se
<1>6. batch' = [pc |-> batch.pc, parallel |-> batch.parallel, unique |-> batch.unique, total |-> batch.total, permits |-> batch.permits,
                running |-> batch.running, proofs |-> pr, sent |-> se, streams |-> batch.streams, result |-> batch.result,
                ops |-> batch.ops, entry |-> batch.entry]  BY <1>1 DEF BatchOK, BatchShape
<1>7. BatchShape(batch') /\ batch'.total = batch.total /\ batch'.unique = batch.unique /\ batch'.proofs = pr
      /\ batch'.streams = batch.streams /\ batch'.entry = batch.entry /\ batch'.running = batch.running /\ batch'.sent = se
  BY ONLY <1>6, BatchOf
<1> QED BY <1>2, <1>4, <1>5, <1>7 DEF BatchOK

LEMMA BatchesKeep == ASSUME BatchOK(batch), BatchesNext PROVE BatchOK(batch')
<1>1. CASE ezPart = "started" /\ (\/ \E n \in 0 .. EzBatchMax : StartBatchProof(n) \/ SimulateInterruption(n)
                                  \/ BatchTimer \/ CancelBatchProof \/ WaitForBatch \/ PollBatch \/ RecreateBatch)
  BY <1>1, StartedKeeps
<1>2. ASSUME NEW n \in 1 .. EzBatchMax, NEW items \in [1 .. n -> EzItems] PROVE Len(items) \in Nat
  <2>1. n \in Nat  BY EzAssumption
  <2>2. items \in Seq(EzItems)  BY <2>1
  <2> QED BY <2>2, LenProperties
<1>3. ASSUME NEW n \in 1 .. EzBatchMax, NEW items \in [1 .. n -> EzItems],
             CreateBatchProofStream(items) \/ \E dedup, pa \in BOOLEAN, limit \in EzLimits : CreateBatchProof(items, dedup, pa, limit)
      PROVE  BatchOK(batch')  BY <1>2, <1>3, BatchCreates, StreamBegins
<1>4. ASSUME NEW i, BeginProof(i) \/ EndProof(i) PROVE BatchOK(batch')  BY <1>4, ProofBegins, ProofEnds
<1>5. CASE BatchReturns
  <2> DEFINE re == BatchResult(batch.proofs)
  <2>1. batch' = [batch EXCEPT !.pc = "done", !.result = re]  BY <1>5 DEF BatchReturns, BatchStep
  <2> HIDE DEF re
  <2> QED BY <2>1, BatchEnds, Zenon
<1>6. CASE SendChunk
  <2>1. CASE batch' = [batch EXCEPT !.pc = "idle"]
    <3>1. batch' = [batch EXCEPT !.pc = "idle", !.result = batch.result]  BY <2>1 DEF BatchOK, BatchShape
    <3> QED BY <3>1, BatchEnds, Zenon
  <2>2. CASE batch' = [batch EXCEPT !.sent = @ + 1, !.proofs = Append(@, GenerateSingleProof(batch.unique[batch.sent + 1]))]
    BY <1>6, <2>2, ChunkSent DEF SendChunk
  <2> QED BY <1>6, <2>1, <2>2 DEF SendChunk, BatchStep
<1> QED BY <1>1, <1>3, <1>4, <1>5, <1>6 DEF BatchesNext

\* The verifier: the tasks that verify or count are the misses not yet counted.
EzBusy(s) == {t \in EzTasks : s.task[t].pc # "idle"}
EzVerifier == [pc : {"idle", "verify", "count"}, request : VerificationRequest, verdict : {"none", "valid", "invalid"}]
VerificationOK(s) ==
    s \in VerificationState /\ s.misses = s.valid + s.failed + s.expired + Cardinality(EzBusy(s))

LEMMA VerificationFieldsOf ==
    ASSUME NEW s \in VerificationState
    PROVE  /\ s.cache \in [EzItems -> {"none", "valid", "invalid"}] /\ s.hits \in Nat /\ s.misses \in Nat /\ s.total \in Nat
           /\ s.valid \in Nat /\ s.failed \in Nat /\ s.expired \in Nat /\ s.ops \in Nat /\ s.task \in [EzTasks -> EzVerifier]
           /\ \A t \in EzTasks : s.task[t] \in EzVerifier
           /\ IsFiniteSet(EzBusy(s)) /\ Cardinality(EzBusy(s)) \in Nat
<1>1. EzBusy(s) \subseteq EzTasks  BY DEF EzBusy
<1>2. IsFiniteSet(EzBusy(s)) /\ Cardinality(EzBusy(s)) \in Nat  BY <1>1, EzAssumption, FS_Subset, FS_CardinalityType
<1>3. /\ s.cache \in [EzItems -> {"none", "valid", "invalid"}] /\ s.hits \in Nat /\ s.misses \in Nat /\ s.total \in Nat
      /\ s.valid \in Nat /\ s.failed \in Nat /\ s.expired \in Nat /\ s.ops \in Nat /\ s.task \in [EzTasks -> EzVerifier]
  BY DEF VerificationState, EzVerifier
<1> QED BY <1>2, <1>3

\* A task starts, stays or ends, and the counts move with it.
IsBusy(u) == IF u.pc # "idle" THEN 1 ELSE 0
LEMMA VerifierCounts ==
    ASSUME VerificationOK(verification), verification' \in VerificationState, NEW t \in EzTasks, NEW u \in EzVerifier,
           verification'.task = [verification.task EXCEPT ![t] = u],
           verification'.misses + IsBusy(verification.task[t]) + verification.valid + verification.failed + verification.expired
              = verification.misses + IsBusy(u) + verification'.valid + verification'.failed + verification'.expired
    PROVE  VerificationOK(verification')
<1> DEFINE s == verification
           k == [s.task EXCEPT ![t] = u]
           B == EzBusy(s)
           C == EzBusy(verification')
           mi == verification'.misses
           va == verification'.valid
           fa == verification'.failed
           ex == verification'.expired
<1>1. s \in VerificationState /\ s.misses = s.valid + s.failed + s.expired + Cardinality(B)  BY DEF VerificationOK
<1>2. /\ s.misses \in Nat /\ s.valid \in Nat /\ s.failed \in Nat /\ s.expired \in Nat /\ s.task \in [EzTasks -> EzVerifier]
      /\ IsFiniteSet(B) /\ Cardinality(B) \in Nat
  BY <1>1, VerificationFieldsOf
<1>c. mi \in Nat /\ va \in Nat /\ fa \in Nat /\ ex \in Nat  BY VerificationFieldsOf
<1>3. k \in [EzTasks -> EzVerifier] /\ \A x \in EzTasks : k[x] = IF x = t THEN u ELSE s.task[x]  BY <1>2
<1>6. verification'.task = k  OBVIOUS
<1> HIDE DEF k, mi, va, fa, ex
<1>7. C = {x \in EzTasks : k[x].pc # "idle"} /\ B = {x \in EzTasks : s.task[x].pc # "idle"}  BY <1>6 DEF EzBusy
<1>8. Cardinality(C) + IsBusy(s.task[t]) = Cardinality(B) + IsBusy(u) /\ Cardinality(C) \in Nat
  <2>1. CASE s.task[t].pc # "idle" /\ u.pc # "idle"
    <3>1. C = B  BY <1>3, <1>7, <2>1
    <3> QED BY <1>2, <2>1, <3>1 DEF IsBusy
  <2>2. CASE s.task[t].pc # "idle" /\ u.pc = "idle"
    <3>1. C = B \ {t} /\ t \in B  BY <1>3, <1>7, <2>2
    <3>2. Cardinality(B \ {t}) = Cardinality(B) - 1 /\ IsFiniteSet(B \ {t})  BY <1>2, <3>1, FS_RemoveElement
    <3>3. Cardinality(B \ {t}) \in Nat  BY <3>2, FS_CardinalityType
    <3> HIDE DEF B, C
    <3> QED BY <1>2, <2>2, <3>1, <3>2, <3>3 DEF IsBusy
  <2>3. CASE s.task[t].pc = "idle" /\ u.pc # "idle"
    <3>1. C = B \cup {t} /\ t \notin B  BY <1>3, <1>7, <2>3
    <3>2. Cardinality(B \cup {t}) = Cardinality(B) + 1  BY <1>2, <3>1, FS_AddElement
    <3> HIDE DEF B, C
    <3> QED BY <1>2, <2>3, <3>1, <3>2 DEF IsBusy
  <2>4. CASE s.task[t].pc = "idle" /\ u.pc = "idle"
    <3>1. C = B  BY <1>3, <1>7, <2>4
    <3> QED BY <1>2, <2>4, <3>1 DEF IsBusy
  <2> QED BY <2>1, <2>2, <2>3, <2>4
<1>9. IsBusy(s.task[t]) \in Nat /\ IsBusy(u) \in Nat  BY DEF IsBusy
<1> DEFINE b == Cardinality(B)
           d == Cardinality(C)
           i == IsBusy(s.task[t])
           j == IsBusy(u)
           sm == s.misses
           sv == s.valid
           sf == s.failed
           sx == s.expired
<1>10. /\ sm = sv + sf + sx + b /\ d + i = b + j /\ mi + i + sv + sf + sx = sm + j + va + fa + ex
       /\ d \in Nat /\ i \in Nat /\ j \in Nat /\ b \in Nat /\ sm \in Nat /\ sv \in Nat /\ sf \in Nat /\ sx \in Nat
  BY <1>1, <1>2, <1>8, <1>9 DEF mi, va, fa, ex
<1> HIDE DEF b, d, i, j, sm, sv, sf, sx
<1>11. mi = va + fa + ex + d  BY ONLY <1>c, <1>10
<1> QED BY <1>11 DEF VerificationOK, d, mi, va, fa, ex

LEMMA VerifierMoves ==
    ASSUME VerificationOK(verification), NEW t \in EzTasks, NEW u \in EzVerifier, NEW c \in [EzItems -> {"none", "valid", "invalid"}],
           NEW mi \in Nat, NEW to \in Nat, NEW va \in Nat, NEW fa \in Nat, NEW ex \in Nat, NEW op \in Nat,
           verification' = [verification EXCEPT !.cache = c, !.misses = mi, !.total = to, !.valid = va, !.failed = fa, !.expired = ex,
                               !.ops = op, !.task = [verification.task EXCEPT ![t] = u]],
           mi + IsBusy(verification.task[t]) + verification.valid + verification.failed + verification.expired
              = verification.misses + IsBusy(u) + va + fa + ex
    PROVE  VerificationOK(verification')
<1> DEFINE s == verification
           k == [s.task EXCEPT ![t] = u]
<1>1. s \in VerificationState  BY DEF VerificationOK
<1>2. s.task \in [EzTasks -> EzVerifier]  BY <1>1, VerificationFieldsOf
<1>3. k \in [EzTasks -> EzVerifier]  BY <1>2
<1>4. verification' = [s EXCEPT !.cache = c, !.misses = mi, !.total = to, !.valid = va, !.failed = fa, !.expired = ex, !.ops = op, !.task = k]
  OBVIOUS
<1>c. /\ c \in [EzItems -> {"none", "valid", "invalid"}] /\ mi \in Nat /\ to \in Nat /\ va \in Nat /\ fa \in Nat /\ ex \in Nat /\ op \in Nat
  OBVIOUS
<1> HIDE DEF k
<1>5. verification' \in VerificationState  BY ONLY <1>1, <1>3, <1>4, <1>c DEF VerificationState, EzVerifier
<1>6. verification'.misses = mi /\ verification'.valid = va /\ verification'.failed = fa /\ verification'.expired = ex
      /\ verification'.task = k
  BY ONLY <1>1, <1>4 DEF VerificationState
<1> QED BY <1>5, <1>6, VerifierCounts DEF k

LEMMA HitKeeps ==
    ASSUME VerificationOK(verification), NEW hi \in Nat, NEW op \in Nat, verification' = [verification EXCEPT !.hits = hi, !.ops = op]
    PROVE  VerificationOK(verification')
<1>1. verification \in VerificationState  BY DEF VerificationOK
<1>2. verification' \in VerificationState  BY <1>1 DEF VerificationState
<1>3. verification'.misses = verification.misses /\ verification'.valid = verification.valid /\ verification'.failed = verification.failed
      /\ verification'.expired = verification.expired /\ verification'.task = verification.task
  BY <1>1 DEF VerificationState
<1>4. EzBusy(verification') = EzBusy(verification)  BY <1>3 DEF EzBusy
<1> QED BY <1>2, <1>3, <1>4 DEF VerificationOK

LEMMA VerificationShape ==
    ASSUME NEW s \in VerificationState
    PROVE  s = [cache |-> s.cache, hits |-> s.hits, misses |-> s.misses, total |-> s.total, valid |-> s.valid, failed |-> s.failed,
                expired |-> s.expired, ops |-> s.ops, task |-> s.task]  BY DEF VerificationState

LEMMA VerificationKeeps == ASSUME VerificationOK(verification), VerificationNext PROVE VerificationOK(verification')
<1> DEFINE s == verification
<1>0. s \in VerificationState  BY DEF VerificationOK
<1>1. /\ s.cache \in [EzItems -> {"none", "valid", "invalid"}] /\ s.hits \in Nat /\ s.misses \in Nat /\ s.total \in Nat
      /\ s.valid \in Nat /\ s.failed \in Nat /\ s.expired \in Nat /\ s.ops \in Nat /\ s.task \in [EzTasks -> EzVerifier]
      /\ \A t \in EzTasks : s.task[t] \in EzVerifier
  BY <1>0, VerificationFieldsOf
<1>2. s = [cache |-> s.cache, hits |-> s.hits, misses |-> s.misses, total |-> s.total, valid |-> s.valid, failed |-> s.failed,
           expired |-> s.expired, ops |-> s.ops, task |-> s.task]  BY <1>0, VerificationShape
<1>3. ASSUME NEW t \in EzTasks, NEW r \in VerificationRequest, VerifyProof(t, r) PROVE VerificationOK(verification')
  <2>1. CASE s.cache[r.proof] # "none"
    <3> DEFINE hi == s.hits + 1
               op == s.ops + 1
    <3>1. verification' = [s EXCEPT !.hits = hi, !.ops = op]  BY <1>3, <2>1 DEF VerifyProof, VerificationStep
    <3>2. hi \in Nat /\ op \in Nat  BY <1>1
    <3> HIDE DEF hi, op
    <3> QED BY <3>1, <3>2, HitKeeps
  <2>2. CASE s.cache[r.proof] = "none" /\ r.old
    <3> DEFINE u == s.task[t]
               k == [s.task EXCEPT ![t] = u]
               mi == s.misses + 1
               ex == s.expired + 1
               op == s.ops + 1
    <3>1. verification' = [s EXCEPT !.misses = mi, !.expired = ex, !.ops = op]
      BY <1>3, <2>2 DEF VerifyProof, VerificationStep
    <3>2. k = s.task  BY <1>1
    <3>3. mi \in Nat /\ ex \in Nat /\ op \in Nat /\ IsBusy(u) \in Nat  BY <1>1 DEF IsBusy
    <3>5. mi + IsBusy(u) + s.valid + s.failed + s.expired = s.misses + IsBusy(u) + s.valid + s.failed + ex
      BY <1>1, <3>3
    <3> HIDE DEF mi, ex, op
    <3>4. verification' = [s EXCEPT !.cache = s.cache, !.misses = mi, !.total = s.total, !.valid = s.valid, !.failed = s.failed,
                              !.expired = ex, !.ops = op, !.task = k]
      <4> HIDE DEF k
      <4> QED BY <1>2, <3>1, <3>2
    <3>6. u \in EzVerifier /\ u = s.task[t]  BY <1>1
    <3> HIDE DEF u
    <3>7. mi + IsBusy(s.task[t]) + s.valid + s.failed + s.expired = s.misses + IsBusy(u) + s.valid + s.failed + ex
      BY ONLY <3>5, <3>6
    <3> QED BY <1>1, <3>3, <3>4, <3>6, <3>7, VerifierMoves, ZenonT(30)
  <2>3. CASE s.cache[r.proof] = "none" /\ ~r.old
    <3> DEFINE u == [pc |-> "verify", request |-> r, verdict |-> "none"]
               k == [s.task EXCEPT ![t] = u]
               mi == s.misses + 1
               op == s.ops + 1
    <3>1. verification' = [s EXCEPT !.misses = mi, !.ops = op, !.task = k] /\ s.task[t].pc = "idle"
      BY <1>3, <2>3 DEF VerifyProof, VerificationStep
    <3>2. u \in EzVerifier /\ IsBusy(u) = 1 /\ IsBusy(s.task[t]) = 0  BY <3>1 DEF EzVerifier, IsBusy
    <3>3. mi \in Nat /\ op \in Nat  BY <1>1
    <3>5. mi + IsBusy(s.task[t]) + s.valid + s.failed + s.expired = s.misses + IsBusy(u) + s.valid + s.failed + s.expired
      BY <1>1, <3>2
    <3> HIDE DEF mi, op
    <3>4. verification' = [s EXCEPT !.cache = s.cache, !.misses = mi, !.total = s.total, !.valid = s.valid, !.failed = s.failed,
                              !.expired = s.expired, !.ops = op, !.task = k]
      <4> HIDE DEF k
      <4> QED BY <1>2, <3>1
    <3> HIDE DEF u
    <3> QED BY <1>1, <3>2, <3>3, <3>4, <3>5, VerifierMoves
  <2> QED BY <2>1, <2>2, <2>3
<1>4. ASSUME NEW t \in EzTasks, CacheResult(t) PROVE VerificationOK(verification')
  <2> DEFINE r == s.task[t].request
             v == VerifyMode(r)
             c == [s.cache EXCEPT ![r.proof] = v]
             u == [s.task[t] EXCEPT !.pc = "count", !.verdict = v]
             k == [s.task EXCEPT ![t] = u]
  <2>1. s.task[t] \in EzVerifier  BY <1>1
  <2>2. r \in VerificationRequest /\ r.proof \in EzItems /\ v \in {"valid", "invalid"}
    BY <2>1 DEF EzVerifier, VerificationRequest, VerifyMode
  <2>3. verification' = [s EXCEPT !.cache = c, !.task = k] /\ s.task[t].pc = "verify"
    <3>1. verification' = [s EXCEPT !.cache[r.proof] = v, !.task[t].pc = "count", !.task[t].verdict = v] /\ s.task[t].pc = "verify"
      BY <1>4 DEF CacheResult, VerificationStep
    <3> HIDE DEF v
    <3> QED BY <1>0, <1>1, <2>1, <3>1 DEF VerificationState
  <2>4. c \in [EzItems -> {"none", "valid", "invalid"}]  BY <1>1, <2>2
  <2> HIDE DEF v
  <2>5. u \in EzVerifier /\ u.pc = "count"  BY <2>1, <2>2 DEF EzVerifier
  <2>6. IsBusy(u) = 1 /\ IsBusy(s.task[t]) = 1  BY <2>3, <2>5 DEF IsBusy
  <2>7. s.misses + IsBusy(s.task[t]) + s.valid + s.failed + s.expired = s.misses + IsBusy(u) + s.valid + s.failed + s.expired
    BY <1>1, <2>6
  <2> HIDE DEF c, u
  <2>8. verification' = [s EXCEPT !.cache = c, !.misses = s.misses, !.total = s.total, !.valid = s.valid, !.failed = s.failed,
                            !.expired = s.expired, !.ops = s.ops, !.task = k]
    <3> HIDE DEF k
    <3> QED BY <1>2, <2>3
  <2> QED BY <1>1, <2>4, <2>5, <2>7, <2>8, VerifierMoves
<1>5. ASSUME NEW t \in EzTasks, UpdateVerificationMetrics(t) PROVE VerificationOK(verification')
  <2> DEFINE ok == s.task[t].verdict = "valid"
             to == s.total + 1
             va == s.valid + (IF ok THEN 1 ELSE 0)
             fa == s.failed + (IF ok THEN 0 ELSE 1)
             u == [s.task[t] EXCEPT !.pc = "idle"]
             k == [s.task EXCEPT ![t] = u]
  <2>1. s.task[t] \in EzVerifier  BY <1>1
  <2>2. verification' = [s EXCEPT !.total = to, !.valid = va, !.failed = fa, !.task = k] /\ s.task[t].pc = "count"
    BY <1>5 DEF UpdateVerificationMetrics, VerificationStep
  <2>3. to \in Nat /\ va \in Nat /\ fa \in Nat /\ va + fa = s.valid + s.failed + 1  BY <1>1
  <2>4. u \in EzVerifier /\ u.pc = "idle"  BY <2>1 DEF EzVerifier
  <2>5. IsBusy(u) = 0 /\ IsBusy(s.task[t]) = 1  BY <2>2, <2>4 DEF IsBusy
  <2> HIDE DEF to, va, fa, ok
  <2>6. s.misses + IsBusy(s.task[t]) + s.valid + s.failed + s.expired = s.misses + IsBusy(u) + va + fa + s.expired
    BY <1>1, <2>3, <2>5
  <2> HIDE DEF u
  <2>8. to \in Nat /\ va \in Nat /\ fa \in Nat  BY <2>3
  <2> HIDE DEF k
  <2>9. verification' = [s EXCEPT !.total = to, !.valid = va, !.failed = fa, !.task = k]  BY <2>2
  <2>12. k \in [EzTasks -> EzVerifier]  BY <1>1, <2>4 DEF k
  <2>10. verification' \in VerificationState  BY ONLY <1>0, <2>8, <2>9, <2>12 DEF VerificationState, EzVerifier
  <2>11. verification'.misses = s.misses /\ verification'.valid = va /\ verification'.failed = fa /\ verification'.expired = s.expired
         /\ verification'.task = k
    BY ONLY <1>0, <2>9 DEF VerificationState
  <2> QED BY <2>4, <2>6, <2>10, <2>11, VerifierCounts DEF k
<1> QED BY <1>3, <1>4, <1>5 DEF VerificationNext

\* The artifacts: whoever holds the lock builds one, and the count follows the cache.
ArtifactsOK(s) ==
    /\ s \in ArtifactState /\ IsFiniteSet(s.cache) /\ (s.lock # "free" => s.building \in EzItems)
    /\ s.lock = "free" => s.count = Cardinality(s.cache)

LEMMA ArtifactsKeep ==
    ASSUME ArtifactsOK(artifacts), \E t \in EzTasks : InsertArtifacts(t) \/ \E i \in EzItems : GetOrCreateArtifacts(t, i)
    PROVE  ArtifactsOK(artifacts')
<1>1. /\ artifacts \in ArtifactState /\ IsFiniteSet(artifacts.cache) /\ (artifacts.lock # "free" => artifacts.building \in EzItems)
      /\ (artifacts.lock = "free" => artifacts.count = Cardinality(artifacts.cache))
  BY DEF ArtifactsOK
<1>2. artifacts.cache \in SUBSET EzItems /\ artifacts.count \in Nat  BY <1>1 DEF ArtifactState
<1>3. ASSUME NEW t \in EzTasks, NEW i \in EzItems, GetOrCreateArtifacts(t, i) PROVE ArtifactsOK(artifacts')
  <2>1. artifacts' = [artifacts EXCEPT !.lock = t, !.building = i]  BY <1>3 DEF GetOrCreateArtifacts, ArtifactStep
  <2>2. artifacts' \in ArtifactState /\ artifacts'.cache = artifacts.cache /\ artifacts'.lock = t /\ artifacts'.building = i
    BY <1>1, <2>1 DEF ArtifactState
  <2>3. t # "free"  BY EzAssumption
  <2> QED BY <1>1, <2>2, <2>3 DEF ArtifactsOK
<1>4. ASSUME NEW t \in EzTasks, InsertArtifacts(t) PROVE ArtifactsOK(artifacts')
  <2> DEFINE c == artifacts.cache \cup {artifacts.building}
             n == Cardinality(c)
  <2>1. artifacts' = [artifacts EXCEPT !.lock = "free", !.building = "none", !.cache = c, !.count = n] /\ artifacts.lock = t
    BY <1>4 DEF InsertArtifacts, ArtifactStep
  <2>2. artifacts.building \in EzItems  BY <1>1, <2>1, EzAssumption
  <2>3. c \in SUBSET EzItems /\ IsFiniteSet(c) /\ n \in Nat  BY <1>1, <1>2, <2>2, FS_AddElement, FS_CardinalityType
  <2>4. n = Cardinality(c)  OBVIOUS
  <2> HIDE DEF c, n
  <2>5. artifacts' \in ArtifactState /\ artifacts'.cache = c /\ artifacts'.lock = "free" /\ artifacts'.count = n
    BY <1>1, <2>1, <2>3 DEF ArtifactState
  <2> QED BY <2>3, <2>4, <2>5 DEF ArtifactsOK
<1> QED BY <1>3, <1>4

\* The proof cache: every proof held has a place in the queue.
ProofCacheOK(s) ==
    /\ s \in ProofCacheState /\ IsFiniteSet(s.proofs) /\ s.proofs \subseteq ToSet(s.lru)
    /\ Cardinality(s.proofs) <= EzCapacity /\ s.entries = Cardinality(s.proofs)

LEMMA ToSetOf == ASSUME NEW S, NEW q \in Seq(S), NEW x PROVE x \in ToSet(q) <=> \E i \in 1 .. Len(q) : q[i] = x
<1>1. DOMAIN q = 1 .. Len(q)  BY LenProperties
<1> QED BY <1>1 DEF ToSet

\* The first place of k in the queue is given up, no other.
LEMMA FirstIsRemoved ==
    ASSUME NEW S, NEW q \in Seq(S), NEW k
    PROVE  RemoveFirst(q, k) \in Seq(S) /\ ToSet(q) \ {k} \subseteq ToSet(RemoveFirst(q, k))
<1>0. Len(q) \in Nat /\ \A i \in 1 .. Len(q) : q[i] \in S  BY LenProperties
<1>1. CASE ~ \E i \in 1 .. Len(q) : q[i] = k  BY <1>1 DEF RemoveFirst
<1>2. CASE \E i \in 1 .. Len(q) : q[i] = k
  <2> DEFINE I == {i \in 1 .. Len(q) : q[i] = k}
             j == Min(I)
             a == SubSeq(q, 1, j - 1)
             b == SubSeq(q, j + 1, Len(q))
  <2>1. RemoveFirst(q, k) = RemoveAt(q, SelectInSeq(q, LAMBDA v : v = k))  BY <1>2 DEF RemoveFirst
  <2>2. SelectInSeq(q, LAMBDA v : v = k) = j  BY <1>2 DEF SelectInSeq
  <2>3. RemoveFirst(q, k) = a \o b  BY <2>1, <2>2 DEF RemoveAt
  <2>4. j \in I
    <3>1. I \in SUBSET Nat /\ I # {}  BY <1>0, <1>2
    <3>2. \E x \in I : \A y \in I : x <= y  BY <3>1, NatLeast
    <3> HIDE DEF I
    <3> QED BY <3>2 DEF Min
  <2>5. j \in 1 .. Len(q) /\ q[j] = k  BY <2>4
  <2> HIDE DEF j, I
  <2>6. /\ a \in Seq(S) /\ Len(a) = j - 1 /\ \A i \in 1 .. (j - 1) : a[i] = q[i]  BY <1>0, <2>5, SubSeqProperties
  <2>7. /\ b \in Seq(S) /\ Len(b) = Len(q) - j /\ \A i \in 1 .. (Len(q) - j) : b[i] = q[j + i]
    BY <1>0, <2>5, SubSeqProperties
  <2> HIDE DEF a, b
  <2>8. a \o b \in Seq(S) /\ Len(a \o b) = Len(q) - 1
    <3>1. a \o b \in Seq(S) /\ Len(a \o b) = Len(a) + Len(b)  BY <2>6, <2>7, ConcatProperties
    <3> QED BY <1>0, <2>5, <2>6, <2>7, <3>1
  <2>9. ASSUME NEW x \in ToSet(q) \ {k} PROVE x \in ToSet(a \o b)
    <3>1. PICK i \in 1 .. Len(q) : q[i] = x  BY ToSetOf
    <3>2. i # j  BY <2>5, <2>9, <3>1
    <3>3. CASE i < j
      <4>1. i \in 1 .. Len(a \o b) /\ (a \o b)[i] = x  BY <1>0, <2>5, <2>6, <2>7, <2>8, <3>1, <3>3, ConcatProperties
      <4> QED BY <2>8, <4>1, ToSetOf
    <3>4. CASE i > j
      <4>1. i - 1 \in 1 .. Len(a \o b) /\ i - 1 > Len(a) /\ i - j \in 1 .. Len(b) /\ (i - 1) - Len(a) = i - j
        BY <1>0, <2>5, <2>6, <2>7, <2>8, <3>1, <3>4
      <4>2. (a \o b)[i - 1] = b[i - j] /\ b[i - j] = q[j + (i - j)] /\ j + (i - j) = i
        BY <1>0, <2>5, <2>6, <2>7, <2>8, <3>1, <3>4, <4>1, ConcatProperties
      <4> QED BY <2>8, <3>1, <4>1, <4>2, ToSetOf
    <3> QED BY <1>0, <2>5, <3>1, <3>2, <3>3, <3>4
  <2> QED BY <2>3, <2>8, <2>9
<1> QED BY <1>1, <1>2

LEMMA CacheFieldsOf ==
    ASSUME NEW s \in ProofCacheState
    PROVE  /\ s.proofs \in SUBSET EzItems /\ s.lru \in Seq(EzItems) /\ s.stale \in SUBSET EzItems /\ s.ttl \in BOOLEAN
           /\ s.hits \in Nat /\ s.misses \in Nat /\ s.evictions \in Nat /\ s.entries \in Nat /\ s.ops \in Nat
  BY DEF ProofCacheState

\* The operations on the cache's state, each keeps it consistent.
LEMMA StepKeepsCache == ASSUME NEW s, ProofCacheOK(s), ProofCacheStep(s) PROVE ProofCacheOK(proofCache')
<1> DEFINE o == s.ops + 1
<1>1. s \in ProofCacheState /\ proofCache' = [s EXCEPT !.ops = o]  BY DEF ProofCacheOK, ProofCacheStep
<1>2. o \in Nat  BY <1>1, CacheFieldsOf
<1> HIDE DEF o
<1>3. proofCache' \in ProofCacheState /\ proofCache'.proofs = s.proofs /\ proofCache'.lru = s.lru /\ proofCache'.entries = s.entries
  BY ONLY <1>1, <1>2 DEF ProofCacheState
<1> QED BY <1>3 DEF ProofCacheOK

LEMMA CountsKeepCache ==
    ASSUME NEW s, ProofCacheOK(s), NEW m \in Nat, NEW st \in SUBSET EzItems
    PROVE  ProofCacheOK([s EXCEPT !.misses = m]) /\ ProofCacheOK([s EXCEPT !.stale = st])
<1>1. s \in ProofCacheState  BY DEF ProofCacheOK
<1> DEFINE t == [s EXCEPT !.misses = m]
           u == [s EXCEPT !.stale = st]
<1>2. t \in ProofCacheState /\ t.proofs = s.proofs /\ t.lru = s.lru /\ t.entries = s.entries
  BY <1>1 DEF ProofCacheState
<1>3. u \in ProofCacheState /\ u.proofs = s.proofs /\ u.lru = s.lru /\ u.entries = s.entries
  BY <1>1 DEF ProofCacheState
<1> HIDE DEF t, u
<1>4. ProofCacheOK(t) /\ ProofCacheOK(u)  BY <1>2, <1>3 DEF ProofCacheOK
<1> QED BY <1>4 DEF t, u

LEMMA RemoveKeepsCache == ASSUME NEW s, ProofCacheOK(s), NEW k PROVE ProofCacheOK(RemoveProof(s, k))
<1>1. CASE k \notin s.proofs  BY <1>1 DEF RemoveProof
<1>2. CASE k \in s.proofs
  <2> DEFINE pr == s.proofs \ {k}
             st == s.stale \ {k}
             q == RemoveFirst(s.lru, k)
             en == Cardinality(s.proofs) - 1
             t == [s EXCEPT !.proofs = pr, !.stale = st, !.lru = q, !.entries = en]
  <2>1. RemoveProof(s, k) = t  BY <1>2 DEF RemoveProof
  <2>2. s \in ProofCacheState /\ IsFiniteSet(s.proofs) /\ s.proofs \subseteq ToSet(s.lru) /\ Cardinality(s.proofs) <= EzCapacity
    BY DEF ProofCacheOK
  <2>3. s.proofs \in SUBSET EzItems /\ s.lru \in Seq(EzItems) /\ s.stale \in SUBSET EzItems  BY <2>2, CacheFieldsOf
  <2>4. q \in Seq(EzItems) /\ ToSet(s.lru) \ {k} \subseteq ToSet(q)  BY <2>3, FirstIsRemoved
  <2>5. IsFiniteSet(pr) /\ Cardinality(pr) = Cardinality(s.proofs) - 1  BY <1>2, <2>2, FS_RemoveElement
  <2>6. Cardinality(pr) \in Nat /\ Cardinality(s.proofs) \in Nat  BY <2>2, <2>5, FS_CardinalityType
  <2>7. en = Cardinality(pr) /\ en \in Nat /\ en <= EzCapacity  BY <2>2, <2>5, <2>6, EzAssumption
  <2>8. pr \in SUBSET EzItems /\ st \in SUBSET EzItems /\ pr \subseteq ToSet(q)  BY <2>2, <2>3, <2>4
  <2> HIDE DEF pr, st, q, en
  <2>9. t \in ProofCacheState /\ t.proofs = pr /\ t.lru = q /\ t.entries = en
    BY ONLY <2>2, <2>4, <2>7, <2>8 DEF ProofCacheState
  <2> HIDE DEF t
  <2> QED BY <2>1, <2>5, <2>7, <2>8, <2>9 DEF ProofCacheOK
<1> QED BY <1>1, <1>2

\* A name in front of the queue.
LEMMA InFront ==
    ASSUME NEW k \in EzItems, NEW q \in Seq(EzItems)
    PROVE  <<k>> \o q \in Seq(EzItems) /\ k \in ToSet(<<k>> \o q) /\ ToSet(q) \subseteq ToSet(<<k>> \o q)
<1>1. <<k>> \in Seq(EzItems) /\ Len(<<k>>) = 1 /\ <<k>>[1] = k /\ Len(q) \in Nat  BY LenProperties
<1>2. <<k>> \o q \in Seq(EzItems) /\ Len(<<k>> \o q) = 1 + Len(q)  BY <1>1, ConcatProperties
<1>3. (<<k>> \o q)[1] = k  BY <1>1, ConcatProperties
<1>4. k \in ToSet(<<k>> \o q)
  <2>1. 1 \in 1 .. Len(<<k>> \o q)  BY <1>1, <1>2
  <2> QED BY <1>2, <1>3, <2>1, ToSetOf
<1>5. ASSUME NEW x \in ToSet(q) PROVE x \in ToSet(<<k>> \o q)
  <2>1. PICK i \in 1 .. Len(q) : q[i] = x  BY ToSetOf
  <2>2. i + 1 \in 1 .. Len(<<k>> \o q)  BY <1>1, <1>2, <2>1
  <2>3. (<<k>> \o q)[i + 1] = x
    <3>1. i + 1 \in 1 .. Len(<<k>>) + Len(q) /\ ~(i + 1 <= Len(<<k>>)) /\ i + 1 - Len(<<k>>) = i  BY <1>1, <2>1
    <3>2. (<<k>> \o q)[i + 1] = IF i + 1 <= Len(<<k>>) THEN <<k>>[i + 1] ELSE q[i + 1 - Len(<<k>>)]
      BY <1>1, <3>1, ConcatProperties
    <3> QED BY <2>1, <3>1, <3>2
  <2> QED BY <1>2, <2>2, <2>3, ToSetOf
<1> QED BY <1>2, <1>4, <1>5

LEMMA TouchKeepsCache == ASSUME NEW s, ProofCacheOK(s), NEW k \in s.proofs PROVE ProofCacheOK(TouchProof(s, k))
<1> DEFINE f == RemoveFirst(s.lru, k)
           q == <<k>> \o f
           h == s.hits + 1
           t == [s EXCEPT !.lru = q, !.hits = h]
<1>1. TouchProof(s, k) = t  BY DEF TouchProof
<1>2. s \in ProofCacheState /\ s.proofs \subseteq ToSet(s.lru)  BY DEF ProofCacheOK
<1>3. s.proofs \in SUBSET EzItems /\ s.lru \in Seq(EzItems) /\ h \in Nat  BY <1>2, CacheFieldsOf
<1>4. f \in Seq(EzItems) /\ ToSet(s.lru) \ {k} \subseteq ToSet(f)  BY <1>3, FirstIsRemoved
<1> HIDE DEF f
<1>5. q \in Seq(EzItems) /\ k \in ToSet(q) /\ ToSet(f) \subseteq ToSet(q)  BY <1>3, <1>4, InFront
<1>6. s.proofs \subseteq ToSet(q)  BY <1>2, <1>4, <1>5
<1> HIDE DEF q, h
<1>7. t \in ProofCacheState /\ t.proofs = s.proofs /\ t.lru = q /\ t.entries = s.entries
  BY ONLY <1>2, <1>3, <1>5 DEF ProofCacheState
<1> HIDE DEF t
<1> QED BY <1>1, <1>6, <1>7 DEF ProofCacheOK

\* What is left when the last n names of the queue are evicted.
EzLeft(s, n) == s.proofs \ ToSet(SubSeq(s.lru, Len(s.lru) - n + 1, Len(s.lru)))

LEMMA LeftHasPlaces ==
    ASSUME NEW s \in ProofCacheState, s.proofs \subseteq ToSet(s.lru), NEW n \in 0 .. Len(s.lru)
    PROVE  /\ SubSeq(s.lru, 1, Len(s.lru) - n) \in Seq(EzItems)
           /\ EzLeft(s, n) \subseteq ToSet(SubSeq(s.lru, 1, Len(s.lru) - n))
           /\ n = Len(s.lru) => EzLeft(s, n) = {}
<1> DEFINE q == s.lru
           m == Len(q) - n
           a == SubSeq(q, 1, m)
           b == SubSeq(q, m + 1, Len(q))
<1>1. q \in Seq(EzItems) /\ Len(q) \in Nat /\ \A i \in 1 .. Len(q) : q[i] \in EzItems  BY CacheFieldsOf, LenProperties
<1>2. m \in Nat /\ m <= Len(q) /\ (n = Len(q) => m = 0)  BY <1>1
<1>7. EzLeft(s, n) = s.proofs \ ToSet(b)  BY <1>1 DEF EzLeft
<1> HIDE DEF q
<1> HIDE DEF m
<1>3. a \in Seq(EzItems) /\ Len(a) = m /\ \A i \in 1 .. m : a[i] = q[i]
  <2>1. \A i \in 1 .. m : q[i] \in EzItems  BY <1>1, <1>2
  <2> QED BY <1>1, <1>2, <2>1, SubSeqProperties
<1>4. b \in Seq(EzItems) /\ Len(b) = Len(q) - m /\ \A i \in 1 .. (Len(q) - m) : b[i] = q[m + i]
  <2>1. \A i \in (m + 1) .. Len(q) : q[i] \in EzItems  BY <1>1, <1>2
  <2> QED BY <1>1, <1>2, <2>1, SubSeqProperties
<1> HIDE DEF a, b
<1>5. ASSUME NEW x \in EzLeft(s, n) PROVE \E i \in 1 .. m : q[i] = x
  <2>1. x \in ToSet(q) /\ x \notin ToSet(b)  BY <1>5, <1>7 DEF q
  <2>2. PICK i \in 1 .. Len(q) : q[i] = x  BY <1>1, <2>1, ToSetOf
  <2>3. CASE i <= m  BY <1>2, <2>2, <2>3
  <2>4. CASE i > m
    <3>1. i - m \in 1 .. (Len(q) - m) /\ m + (i - m) = i  BY <1>1, <1>2, <2>2, <2>4
    <3>2. b[i - m] = x /\ i - m \in 1 .. Len(b)  BY <1>4, <2>2, <3>1
    <3> QED BY <1>4, <2>1, <3>2, ToSetOf
  <2> QED BY <1>1, <1>2, <2>2, <2>3, <2>4
<1>6. EzLeft(s, n) \subseteq ToSet(a)
  <2> SUFFICES ASSUME NEW x \in EzLeft(s, n) PROVE x \in ToSet(a)  OBVIOUS
  <2>1. PICK i \in 1 .. m : q[i] = x  BY <1>5
  <2>2. i \in 1 .. Len(a) /\ a[i] = x  BY <1>3, <2>1
  <2> QED BY <1>3, <2>2, ToSetOf
<1>9. n = Len(q) => EzLeft(s, n) = {}  BY <1>2, <1>5
<1> QED BY <1>3, <1>6, <1>9 DEF a, m, q

LEMMA EvictMakesRoom ==
    ASSUME NEW s, ProofCacheOK(s), EzCapacity # 0
    PROVE  /\ EvictLru(s) \in ProofCacheState /\ IsFiniteSet(EvictLru(s).proofs) /\ EvictLru(s).proofs \subseteq ToSet(EvictLru(s).lru)
           /\ Cardinality(EvictLru(s).proofs) < EzCapacity
<1> DEFINE room(m) == Cardinality(EzLeft(s, m)) < EzCapacity
           n == CHOOSE m \in 0 .. Len(s.lru) : room(m) /\ \A l \in 0 .. (m - 1) : ~room(l)
           pr == EzLeft(s, n)
           st == s.stale \cap pr
           q == SubSeq(s.lru, 1, Len(s.lru) - n)
           ev == s.evictions + n
           t == [s EXCEPT !.proofs = pr, !.stale = st, !.lru = q, !.evictions = ev]
<1>1. EvictLru(s) = t  BY DEF EvictLru, EzLeft
<1>2. s \in ProofCacheState /\ IsFiniteSet(s.proofs) /\ s.proofs \subseteq ToSet(s.lru)  BY DEF ProofCacheOK
<1>3. s.proofs \in SUBSET EzItems /\ s.lru \in Seq(EzItems) /\ s.stale \in SUBSET EzItems /\ s.evictions \in Nat /\ Len(s.lru) \in Nat
  BY <1>2, CacheFieldsOf, LenProperties
<1>4. n \in 0 .. Len(s.lru) /\ room(n)
  <2> DEFINE R == {m \in 0 .. Len(s.lru) : room(m)}
  <2>1. Len(s.lru) \in R
    <3>1. Len(s.lru) \in 0 .. Len(s.lru)  BY <1>3
    <3>2. EzLeft(s, Len(s.lru)) = {}  BY <1>2, <3>1, LeftHasPlaces
    <3>3. room(Len(s.lru))  BY <3>2, FS_EmptySet, EzAssumption
    <3> QED BY <3>1, <3>3
  <2>2. R \in SUBSET Nat  BY <1>3
  <2>3. PICK x \in R : \A y \in R : x <= y  BY <2>1, <2>2, NatLeast
  <2>4. x \in 0 .. Len(s.lru) /\ room(x)  BY <2>3
  <2>5. \A l \in 0 .. (x - 1) : ~room(l)
    <3> SUFFICES ASSUME NEW l \in 0 .. (x - 1), room(l) PROVE FALSE  OBVIOUS
    <3>1. l \in 0 .. Len(s.lru) /\ l < x  BY <1>3, <2>4
    <3>2. l \in R  BY <3>1
    <3> QED BY <1>3, <2>3, <2>4, <3>1, <3>2
  <2> HIDE DEF room
  <2> QED BY <2>4, <2>5
<1> HIDE DEF n
<1>5. q \in Seq(EzItems) /\ pr \subseteq ToSet(q)  BY <1>2, <1>4, LeftHasPlaces
<1>6. pr \subseteq s.proofs /\ IsFiniteSet(pr)
  <2>1. pr \subseteq s.proofs  BY DEF EzLeft
  <2> QED BY <1>2, <2>1, FS_Subset
<1>7. Cardinality(pr) < EzCapacity /\ pr \in SUBSET EzItems /\ st \in SUBSET EzItems /\ ev \in Nat  BY <1>3, <1>4, <1>6
<1> HIDE DEF pr, st, q, ev
<1>8. t \in ProofCacheState /\ t.proofs = pr /\ t.lru = q  BY ONLY <1>2, <1>5, <1>7 DEF ProofCacheState
<1> HIDE DEF t
<1> QED BY <1>1, <1>5, <1>6, <1>7, <1>8

LEMMA InsertKeepsCache == ASSUME ProofCacheOK(proofCache), NEW k \in EzItems, InsertProof(k) PROVE ProofCacheOK(proofCache')
<1>1. CASE EzCapacity = 0  BY <1>1, StepKeepsCache DEF InsertProof
<1>2. CASE EzCapacity # 0
  <2> DEFINE s == EvictLru(proofCache)
             pr == s.proofs \cup {k}
             st == s.stale \ {k}
             q == <<k>> \o s.lru
             en == Cardinality(pr)
             t == [s EXCEPT !.proofs = pr, !.stale = st, !.lru = q, !.entries = en]
  <2>1. ProofCacheStep(t)  BY <1>2 DEF InsertProof
  <2>2. s \in ProofCacheState /\ IsFiniteSet(s.proofs) /\ s.proofs \subseteq ToSet(s.lru) /\ Cardinality(s.proofs) < EzCapacity
    BY <1>2, EvictMakesRoom
  <2> HIDE DEF s
  <2>3. s.proofs \in SUBSET EzItems /\ s.lru \in Seq(EzItems) /\ s.stale \in SUBSET EzItems  BY <2>2, CacheFieldsOf
  <2>4. q \in Seq(EzItems) /\ k \in ToSet(q) /\ ToSet(s.lru) \subseteq ToSet(q)  BY <2>3, InFront
  <2>5. IsFiniteSet(pr) /\ (en = Cardinality(s.proofs) \/ en = Cardinality(s.proofs) + 1)  BY <2>2, FS_AddElement
  <2>6. en \in Nat /\ Cardinality(s.proofs) \in Nat  BY <2>2, <2>5, FS_CardinalityType
  <2>7. en <= EzCapacity /\ en = Cardinality(pr)  BY <2>2, <2>5, <2>6, EzAssumption
  <2>8. pr \in SUBSET EzItems /\ st \in SUBSET EzItems /\ pr \subseteq ToSet(q)  BY <2>2, <2>3, <2>4
  <2> HIDE DEF pr, st, q, en
  <2>9. t \in ProofCacheState /\ t.proofs = pr /\ t.lru = q /\ t.entries = en
    BY ONLY <2>2, <2>4, <2>6, <2>8 DEF ProofCacheState
  <2> HIDE DEF t
  <2>10. ProofCacheOK(t)  BY <2>5, <2>7, <2>8, <2>9 DEF ProofCacheOK
  <2> QED BY <2>1, <2>10, StepKeepsCache
<1> QED BY <1>1, <1>2

LEMMA ClearKeepsCache == ASSUME ProofCacheOK(proofCache), NEW keys \in SUBSET EzItems, ClearByModelHash(keys) PROVE ProofCacheOK(proofCache')
<1> DEFINE s == proofCache
           gone == keys \cap s.proofs
           r == s.lru
           stays == {i \in DOMAIN r : r[i] \in gone => \E j \in 1 .. (i - 1) : r[j] = r[i]}
<1>1. PICK place \in [1 .. Cardinality(stays) -> stays] :
         /\ ToSet(place) = stays
         /\ ProofCacheStep([s EXCEPT !.proofs = @ \ gone, !.stale = @ \ gone, !.entries = Cardinality(s.proofs \ gone),
                                     !.lru = [i \in DOMAIN place |-> r[place[i]]]])  BY DEF ClearByModelHash
<1>2. s \in ProofCacheState /\ IsFiniteSet(s.proofs) /\ s.proofs \subseteq ToSet(s.lru) /\ Cardinality(s.proofs) <= EzCapacity
  BY DEF ProofCacheOK
<1>3. s.proofs \in SUBSET EzItems /\ r \in Seq(EzItems) /\ s.stale \in SUBSET EzItems /\ Len(r) \in Nat /\ DOMAIN r = 1 .. Len(r)
  BY <1>2, CacheFieldsOf, LenProperties
<1> DEFINE pr == s.proofs \ gone
           st == s.stale \ gone
           en == Cardinality(pr)
           q == [i \in DOMAIN place |-> r[place[i]]]
           n == Cardinality(stays)
           t == [s EXCEPT !.proofs = pr, !.stale = st, !.entries = en, !.lru = q]
<1>4. ProofCacheStep(t)  BY <1>1
<1>5. n \in Nat
  <2>1. stays \subseteq 1 .. Len(r) /\ IsFiniteSet(1 .. Len(r))  BY <1>3, FS_Interval
  <2> QED BY <2>1, FS_Subset, FS_CardinalityType
<1>6. DOMAIN place = 1 .. n /\ \A i \in 1 .. n : r[place[i]] \in EzItems
  <2>1. \A i \in 1 .. n : place[i] \in stays  BY <1>1
  <2>2. \A i \in stays : r[i] \in EzItems  BY <1>3
  <2> QED BY <1>1, <2>1, <2>2
<1>7. q \in Seq(EzItems)
  <2> DEFINE z == [i \in 1 .. n |-> r[place[i]]]
  <2>1. q = z  BY <1>6
  <2>2. z \in [1 .. n -> EzItems]  BY <1>6
  <2> HIDE DEF z, n
  <2>3. z \in Seq(EzItems)  BY <1>5, <2>2
  <2> QED BY <2>1, <2>3
<1>8. pr \subseteq ToSet(q)
  <2> SUFFICES ASSUME NEW x \in pr PROVE x \in ToSet(q)  OBVIOUS
  <2>1. x \in ToSet(r) /\ x \notin gone  BY <1>2
  <2>2. PICK i \in 1 .. Len(r) : r[i] = x  BY <1>3, <2>1, ToSetOf
  <2>3. i \in stays  BY <1>3, <2>1, <2>2
  <2>4. PICK j \in DOMAIN place : place[j] = i  BY <1>1, <2>3 DEF ToSet
  <2>5. j \in DOMAIN q /\ q[j] = x  BY <2>2, <2>4
  <2> QED BY <2>5 DEF ToSet
<1>9. IsFiniteSet(pr) /\ en \in Nat /\ en <= EzCapacity
  <2>1. pr \subseteq s.proofs  OBVIOUS
  <2>2. IsFiniteSet(pr) /\ Cardinality(pr) <= Cardinality(s.proofs)  BY <1>2, <2>1, FS_Subset
  <2>3. Cardinality(pr) \in Nat /\ Cardinality(s.proofs) \in Nat  BY <1>2, <2>2, FS_CardinalityType
  <2> QED BY <1>2, <2>2, <2>3, EzAssumption
<1>10. pr \in SUBSET EzItems /\ st \in SUBSET EzItems /\ en = Cardinality(pr)  BY <1>3
<1> HIDE DEF pr, st, en, q
<1>11. t \in ProofCacheState /\ t.proofs = pr /\ t.lru = q /\ t.entries = en
  BY ONLY <1>2, <1>7, <1>9, <1>10 DEF ProofCacheState
<1> HIDE DEF t
<1>12. ProofCacheOK(t)  BY <1>8, <1>9, <1>10, <1>11 DEF ProofCacheOK
<1> QED BY <1>4, <1>12, StepKeepsCache

LEMMA CacheKeeps == ASSUME ProofCacheOK(proofCache), ProofCacheNext PROVE ProofCacheOK(proofCache')
<1>0. proofCache \in ProofCacheState  BY DEF ProofCacheOK
<1>1. CASE InvalidateProofs
  <2> DEFINE t == [proofCache EXCEPT !.proofs = {}, !.stale = {}, !.lru = <<>>, !.entries = 0]
  <2>1. ProofCacheStep(t)  BY <1>1 DEF InvalidateProofs
  <2> DEFINE none == {}
             q == <<>>
             u == [proofCache EXCEPT !.proofs = none, !.stale = none, !.lru = q, !.entries = 0]
  <2>a. t = u /\ none \in SUBSET EzItems /\ q \in Seq(EzItems) /\ none = {}  OBVIOUS
  <2> HIDE DEF none, q
  <2>b. u \in ProofCacheState /\ u.proofs = none /\ u.entries = 0  BY ONLY <1>0, <2>a DEF ProofCacheState
  <2> HIDE DEF t, u
  <2>2. t \in ProofCacheState /\ t.proofs = {} /\ t.entries = 0  BY <2>a, <2>b
  <2>3. ProofCacheOK(t)  BY <2>2, FS_EmptySet, EzAssumption DEF ProofCacheOK
  <2> QED BY <2>1, <2>3, StepKeepsCache
<1>2. ASSUME NEW k \in EzItems, GetProof(k) PROVE ProofCacheOK(proofCache')
  <2>1. CASE k \notin proofCache.proofs
    <3>1. ProofCacheStep([proofCache EXCEPT !.misses = proofCache.misses + 1])  BY <1>2, <2>1 DEF GetProof
    <3>2. proofCache.misses + 1 \in Nat  BY <1>0, CacheFieldsOf
    <3>3. ProofCacheOK([proofCache EXCEPT !.misses = proofCache.misses + 1])  BY <3>2, CountsKeepCache
    <3> QED BY <3>1, <3>3, StepKeepsCache
  <2>2. CASE k \in proofCache.proofs /\ k \in proofCache.stale
    <3> DEFINE s == RemoveProof(proofCache, k)
    <3>1. ProofCacheStep([s EXCEPT !.misses = s.misses + 1])  BY <1>2, <2>2 DEF GetProof
    <3>2. ProofCacheOK(s)  BY RemoveKeepsCache
    <3> HIDE DEF s
    <3>3. s \in ProofCacheState  BY <3>2 DEF ProofCacheOK
    <3>4. s.misses + 1 \in Nat  BY <3>3, CacheFieldsOf
    <3>5. ProofCacheOK([s EXCEPT !.misses = s.misses + 1])  BY <3>2, <3>4, CountsKeepCache
    <3> QED BY <3>1, <3>5, StepKeepsCache
  <2>3. CASE k \in proofCache.proofs /\ k \notin proofCache.stale
    BY <1>2, <2>3, TouchKeepsCache, StepKeepsCache DEF GetProof
  <2> QED BY <2>1, <2>2, <2>3
<1>3. ASSUME NEW k \in EzItems, ProofExpires(k) PROVE ProofCacheOK(proofCache')
  <2> DEFINE st == proofCache.stale \cup {k}
  <2>1. ProofCacheStep([proofCache EXCEPT !.stale = st])  BY <1>3 DEF ProofExpires
  <2>2. proofCache.stale \in SUBSET EzItems  BY <1>0, CacheFieldsOf
  <2>3. st \in SUBSET EzItems  BY <2>2
  <2> HIDE DEF st
  <2>4. proofCache.misses \in Nat  BY <1>0, CacheFieldsOf
  <2>5. ProofCacheOK([proofCache EXCEPT !.stale = st])  BY <2>3, <2>4, CountsKeepCache
  <2> QED BY <2>1, <2>5, StepKeepsCache
<1>4. ASSUME NEW k \in EzItems, ProofCacheStep(RemoveProof(proofCache, k)) PROVE ProofCacheOK(proofCache')
  BY <1>4, RemoveKeepsCache, StepKeepsCache
<1> QED BY <1>1, <1>2, <1>3, <1>4, InsertKeepsCache, ClearKeepsCache DEF ProofCacheNext

\* The parts together: a step is a step of one part and leaves the others alone.
EzInv ==
    /\ BatchOK(batch) /\ VerificationOK(verification) /\ ArtifactsOK(artifacts)
    /\ ProofCacheOK(proofCache) /\ KeysOK(keyCache) /\ JudgedOK(judged)

LEMMA OnlyBatch == BatchesNext => UNCHANGED <<verification, artifacts, proofCache, keyCache, judged>>
<1>1. \A s : BatchStep(s) => UNCHANGED <<verification, artifacts, proofCache, keyCache, judged>>  BY DEF BatchStep
<1>2. /\ \A items : CreateBatchProofStream(items) => \E s : BatchStep(s)
      /\ \A items, d, p, l : CreateBatchProof(items, d, p, l) => \E s : BatchStep(s)
      /\ \A i : BeginProof(i) \/ EndProof(i) \/ StartBatchProof(i) \/ SimulateInterruption(i) => \E s : BatchStep(s)
      /\ BatchReturns \/ SendChunk \/ BatchTimer \/ CancelBatchProof \/ WaitForBatch \/ PollBatch \/ RecreateBatch => \E s : BatchStep(s)
  BY Zenon DEF CreateBatchProofStream, CreateBatchProof, BeginProof, EndProof, StartBatchProof, SimulateInterruption, BatchReturns,
       SendChunk, BatchTimer, CancelBatchProof, WaitForBatch, PollBatch, RecreateBatch
<1> QED BY <1>1, <1>2, Zenon DEF BatchesNext

LEMMA OnlyIncrements == IncrementsNext => UNCHANGED <<batch, verification, artifacts, proofCache, keyCache, judged>>
<1>1. \A s : IncrementStep(s) => UNCHANGED <<batch, verification, artifacts, proofCache, keyCache, judged>>
  BY DEF IncrementStep
<1>2. IncrementsNext => \E s : IncrementStep(s)
  BY Zenon DEF IncrementsNext, StartIncrementalProof, AddProofStep, CancelProof, FinalizeIncrementalProof, CreateProof
<1> QED BY <1>1, <1>2, Zenon

LEMMA OnlyVerification == VerificationNext => UNCHANGED <<batch, artifacts, proofCache, keyCache, judged>>
<1>1. \A s : VerificationStep(s) => UNCHANGED <<batch, artifacts, proofCache, keyCache, judged>>
  BY DEF VerificationStep
<1>2. VerificationNext => \E s : VerificationStep(s)
  BY Zenon DEF VerificationNext, CacheResult, UpdateVerificationMetrics, VerifyProof
<1> QED BY <1>1, <1>2, Zenon

LEMMA OnlyArtifacts ==
    ASSUME \E t \in EzTasks : InsertArtifacts(t) \/ \E i \in EzItems : GetOrCreateArtifacts(t, i)
    PROVE  UNCHANGED <<batch, verification, proofCache, keyCache, judged>>
<1>1. \A s : ArtifactStep(s) => UNCHANGED <<batch, verification, proofCache, keyCache, judged>>  BY DEF ArtifactStep
<1>2. \E s : ArtifactStep(s)  BY Zenon DEF InsertArtifacts, GetOrCreateArtifacts
<1> QED BY <1>1, <1>2, Zenon

LEMMA OnlyProofCache == ProofCacheNext => UNCHANGED <<batch, verification, artifacts, keyCache, judged>>
<1>1. \A s : ProofCacheStep(s) => UNCHANGED <<batch, verification, artifacts, keyCache, judged>>  BY DEF ProofCacheStep
<1>2. ProofCacheNext => \E s : ProofCacheStep(s)
  <2>1. \A k : GetProof(k) \/ InsertProof(k) \/ ProofExpires(k) => \E s : ProofCacheStep(s)
    BY Zenon DEF GetProof, InsertProof, ProofExpires
  <2>2. \A keys : ClearByModelHash(keys) => \E s : ProofCacheStep(s)  BY Zenon DEF ClearByModelHash
  <2>3. InvalidateProofs => \E s : ProofCacheStep(s)  BY Zenon DEF InvalidateProofs
  <2> QED BY <2>1, <2>2, <2>3, Zenon DEF ProofCacheNext
<1> QED BY <1>1, <1>2, Zenon

LEMMA OnlyKeys == KeysNext => UNCHANGED <<batch, verification, artifacts, proofCache, judged>>
<1>1. \A s : KeyStep(s) => UNCHANGED <<batch, verification, artifacts, proofCache, judged>>  BY DEF KeyStep
<1>2. KeysNext => \E s : KeyStep(s)
  BY Zenon DEF KeysNext, KeyFileChanges, InvalidateKeys, LookUpKey, LoadKey, InsertKey, ReloadKey, LookUpAgain
<1> QED BY <1>1, <1>2, Zenon

LEMMA OnlyJudged == JudgedNext => UNCHANGED <<batch, verification, artifacts, proofCache, keyCache>>
<1>1. \A s : JudgedStep(s) => UNCHANGED <<batch, verification, artifacts, proofCache, keyCache>>  BY DEF JudgedStep
<1>2. JudgedNext => \E s : JudgedStep(s)
  BY Zenon DEF JudgedNext, EzGenerateProof, VerifyCommitment, VerifyProofBytes, ProofReplaced
<1> QED BY <1>1, <1>2, Zenon

LEMMA EzStep == ASSUME EzInv, [EzNext]_ezVars PROVE EzInv'
<1>1. CASE BatchesNext  BY <1>1, BatchesKeep, OnlyBatch DEF EzInv
<1>2. CASE IncrementsNext  BY <1>2, OnlyIncrements DEF EzInv
<1>3. CASE VerificationNext  BY <1>3, VerificationKeeps, OnlyVerification DEF EzInv
<1>4. CASE ProofCacheNext  BY <1>4, CacheKeeps, OnlyProofCache DEF EzInv
<1>5. CASE KeysNext  BY <1>5, KeysStep, OnlyKeys DEF EzInv
<1>6. CASE JudgedNext  BY <1>6, JudgedSteps, OnlyJudged DEF EzInv
<1>7. CASE \E t \in EzTasks : InsertArtifacts(t) \/ \E i \in EzItems : GetOrCreateArtifacts(t, i)
  BY <1>7, ArtifactsKeep, OnlyArtifacts DEF EzInv
<1>8. CASE UNCHANGED ezVars  BY <1>8 DEF EzInv, ezVars
<1> QED BY <1>1, <1>2, <1>3, <1>4, <1>5, <1>6, <1>7, <1>8, Zenon DEF EzNext

LEMMA EzSafe == EzInv => EzTypeOK /\ CachedKeyIsValid /\ AcceptedIsOfTheWitness /\ BatchAccounted /\ VerificationsCounted /\ ProofsCanBeEvicted
<1> SUFFICES ASSUME EzInv PROVE EzTypeOK /\ CachedKeyIsValid /\ AcceptedIsOfTheWitness /\ BatchAccounted /\ VerificationsCounted /\ ProofsCanBeEvicted
  OBVIOUS
<1>1. EzTypeOK  BY DEF EzInv, EzTypeOK, VerificationOK, ArtifactsOK
<1>2. CachedKeyIsValid
  <2>1. /\ keyCache.file \in Nat /\ keyCache.bad \in SUBSET (0 .. keyCache.file)
        /\ keyCache.cache = -1 \/ keyCache.cache \notin keyCache.bad
    BY DEF EzInv, KeysOK
  <2>2. -1 \notin 0 .. keyCache.file  BY <2>1
  <2> QED BY <2>1, <2>2 DEF CachedKeyIsValid
<1>3. AcceptedIsOfTheWitness  BY DEF EzInv, JudgedOK, AcceptedIsOfTheWitness
<1>4. BatchAccounted  BY DEF EzInv, BatchOK, EntryOK, ProofsMade, BatchAccounted
<1>5. VerificationsCounted  BY DEF EzInv, VerificationOK, VerificationsCounted, EzBusy
<1>6. ProofsCanBeEvicted  BY DEF EzInv, ProofCacheOK, ProofsCanBeEvicted
<1> QED BY <1>1, <1>2, <1>3, <1>4, <1>5, <1>6

LEMMA EzInitial == EzInit => EzInv
<1> SUFFICES ASSUME EzInit PROVE EzInv  OBVIOUS
<1> DEFINE no == FALSE
           none == {}
           empty == <<>>
<1>0. no = FALSE /\ no \in BOOLEAN /\ none = {} /\ empty = <<>>  OBVIOUS
<1>1. BatchOK(batch)
  <2> DEFINE e == [status |-> "none", processed |-> 0, timer |-> no, cancelled |-> no, waiter |-> "none"]
  <2>1. batch = [pc |-> "idle", parallel |-> no, unique |-> empty, total |-> 0, permits |-> 0, running |-> none,
              proofs |-> empty, sent |-> 0, streams |-> no, result |-> "none", ops |-> 0, entry |-> e]  BY DEF EzInit
  <2> HIDE DEF no, none, empty
  <2>2. e \in EzEntry /\ e.cancelled = no  BY ONLY <1>0 DEF EzEntry
  <2> HIDE DEF e
  <2>3. BatchShape(batch) /\ batch.total = 0 /\ batch.entry = e /\ batch.proofs = empty /\ batch.streams = no
    BY ONLY <2>1 DEF BatchShape
  <2>4. EntryOK(e)  BY <1>0, <2>2 DEF EntryOK
  <2>5. DOMAIN empty = {}  BY <1>0
  <2>6. ProofsMade(batch.proofs, batch.unique)  BY <2>3, <2>5 DEF ProofsMade
  <2> QED BY <1>0, <2>3, <2>4, <2>6 DEF BatchOK
<1>2. VerificationOK(verification)
  <2> DEFINE c == [i \in EzItems |-> "none"]
             u == [pc |-> "idle", request |-> EzNoRequest, verdict |-> "none"]
             k == [t \in EzTasks |-> u]
  <2>1. verification = [cache |-> c, hits |-> 0, misses |-> 0, total |-> 0, valid |-> 0, failed |-> 0, expired |-> 0, ops |-> 0, task |-> k]
    BY DEF EzInit
  <2>2. EzNoRequest \in VerificationRequest  BY EzAssumption DEF EzNoRequest, VerificationRequest
  <2>3. u \in EzVerifier /\ u.pc = "idle"  BY <2>2 DEF EzVerifier
  <2> HIDE DEF u
  <2>4. c \in [EzItems -> {"none", "valid", "invalid"}] /\ k \in [EzTasks -> EzVerifier]  BY <2>3
  <2>5. \A t \in EzTasks : k[t].pc = "idle"  BY <2>3
  <2> HIDE DEF c, k
  <2>6. verification \in VerificationState /\ verification.task = k /\ verification.misses = 0 /\ verification.valid = 0 /\ verification.failed = 0 /\ verification.expired = 0
    BY ONLY <2>1, <2>4 DEF VerificationState, EzVerifier
  <2>7. EzBusy(verification) = {}  BY <2>5, <2>6 DEF EzBusy
  <2> QED BY <2>6, <2>7, FS_EmptySet DEF VerificationOK
<1>3. ArtifactsOK(artifacts)
  <2>1. artifacts = [cache |-> none, lock |-> "free", count |-> 0, building |-> "none"] /\ none \in SUBSET EzItems
    BY DEF EzInit
  <2> HIDE DEF none
  <2>2. artifacts \in ArtifactState /\ artifacts.cache = none /\ artifacts.lock = "free" /\ artifacts.count = 0
    BY ONLY <2>1 DEF ArtifactState
  <2> QED BY <1>0, <2>2, FS_EmptySet DEF ArtifactsOK
<1>4. ProofCacheOK(proofCache)
  <2>1. PICK ttl \in BOOLEAN : proofCache = [proofs |-> none, lru |-> empty, stale |-> none, ttl |-> ttl, hits |-> 0, misses |-> 0,
                      evictions |-> 0, entries |-> 0, ops |-> 0]  BY DEF EzInit
  <2>2. none \in SUBSET EzItems /\ empty \in Seq(EzItems)  OBVIOUS
  <2> HIDE DEF none, empty
  <2>3. proofCache \in ProofCacheState /\ proofCache.proofs = none /\ proofCache.entries = 0
    BY ONLY <2>1, <2>2 DEF ProofCacheState
  <2> QED BY <1>0, <2>3, FS_EmptySet, EzAssumption DEF ProofCacheOK
<1>5. KeysOK(keyCache)
  <2> DEFINE u == [pc |-> "idle", key |-> 0]
             k == [t \in EzTasks |-> u]
             c == -1
  <2>1. keyCache = [file |-> 0, bad |-> none, cache |-> c, ops |-> 0, task |-> k]  BY DEF EzInit
  <2>2. u \in EzKeyTask /\ u.pc = "idle"  BY DEF EzKeyTask
  <2> HIDE DEF u
  <2>3. k \in [EzTasks -> EzKeyTask] /\ \A t \in EzTasks : k[t].pc = "idle"  BY <2>2
  <2>4. c = -1  OBVIOUS
  <2> HIDE DEF k, none, c
  <2>5. /\ keyCache.file = 0 /\ keyCache.bad = none /\ keyCache.cache = c /\ keyCache.task = k
        /\ keyCache = [file |-> keyCache.file, bad |-> keyCache.bad, cache |-> keyCache.cache, task |-> keyCache.task, ops |-> keyCache.ops]
    BY ONLY <2>1
  <2> QED BY <1>0, <2>3, <2>4, <2>5 DEF KeysOK
<1>6. JudgedOK(judged)
  <2>1. PICK real, a : judged = [real |-> real, proof |-> a, bytes |-> a, witness |-> a, verdict |-> "no proof"]
    BY Zenon DEF EzInit
  <2>2. /\ judged = [real |-> judged.real, proof |-> judged.proof, bytes |-> judged.bytes, witness |-> judged.witness, verdict |-> judged.verdict]
        /\ judged.verdict = "no proof"
    BY ONLY <2>1
  <2> QED BY <2>2 DEF JudgedOK
<1> QED BY <1>1, <1>2, <1>3, <1>4, <1>5, <1>6 DEF EzInv

=============================================================================
