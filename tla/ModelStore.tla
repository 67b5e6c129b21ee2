----------------------------- MODULE ModelStore -----------------------------
(***************************************************************************)
(* The models a node gets, checks, chooses and updates.                    *)
(***************************************************************************)
EXTENDS Integers, Sequences, FiniteSets, SequencesExt

-----------------------------------------------------------------------------
(***************************************************************************)
(* Getting and choosing models: downloads (models/downloading.rs), the     *)
(* checks of a model file (models/validation.rs), the check at startup     *)
(* against the registry contracts (model_validation.rs), fine-tuned        *)
(* adapters (models/finetuned.rs), and specialised models with their       *)
(* costs (models/specialization.rs).                                       *)
(***************************************************************************)

CONSTANTS MsTasks,     \* tasks
          MsFiles,     \* file names
          MsContents,  \* contents, identified by their hashes
          MsSlots,     \* max_concurrent_downloads
          MsRetries,   \* max_retries
          MsSpecs,     \* specialised models
          MsCosts,     \* costs per 1k tokens, accuracies
          MaxSpecials, \* bound on the operations on specialised models
          MaxMsOps     \* bound on the operations of a part

ASSUME MsAssumption ==
    /\ MsSlots \in Nat \ {0} /\ MsRetries \in Nat /\ MsCosts \subseteq Nat /\ MsCosts # {} /\ MaxSpecials \in Nat /\ MaxMsOps \in Nat
    /\ IsFiniteSet(MsTasks) /\ MsContents # {} /\ "none" \notin MsSpecs \cup MsContents

VARIABLES msPart,      \* the part a behaviour is about
          downloads,   \* ModelDownloader
          startup,     \* model_validation::ModelValidator
          filecheck,   \* models::validation::ModelValidator
          adapters,    \* FineTunedManager
          specials     \* SpecializationManager, CostOptimizer

msVars == <<msPart, downloads, startup, filecheck, adapters, specials>>

DownloadState ==
    [permits : 0 .. MsSlots, disk : SUBSET MsFiles, tracked : [MsFiles -> {"none", "InProgress", "Paused", "Cancelled"}],
     task : [MsTasks -> [pc : {"idle", "permit", "space", "try"}, file : MsFiles \cup {"none"}, retries : Nat,
                         result : {"none", "ok", "failed", "mismatch"}]], ops : Nat]

\* What the contracts say and what the validator keeps of it.
StartupState ==
    [approved : [MsFiles -> BOOLEAN], hash : [MsFiles -> MsContents], authorized : SUBSET MsFiles,
     wasAuthorized : SUBSET MsFiles, disk : [MsFiles -> MsContents \cup {"absent"}], map : SUBSET MsFiles,
     cache : SUBSET MsFiles, enabled : BOOLEAN, seen : {"none"} \cup MsContents, ops : Nat,
     check : [pc : {"idle", "approved", "details", "hash", "host", "ok", "refused", "unchecked"}, file : MsFiles \cup {"none"},
              expected : MsContents \cup {"none"}]]

FileCheckState ==
    [content : MsContents \cup {"absent", "corrupted", "huge", "other format"}, matched : BOOLEAN, ops : Nat,
     check : [pc : {"idle", "validate"}, expected : MsContents \cup {"none"}],
     result : [status : {"none", "Valid", "error"}, verified : BOOLEAN, expected : MsContents \cup {"none"}]]

AdapterState == [registered : [MsFiles -> Nat], loaded : [MsFiles -> Nat], sessions : SUBSET MsFiles, ops : Nat]

SpecialState ==
    [models : SUBSET MsSpecs, accuracy : [MsSpecs -> MsCosts], cost : [MsSpecs -> MsCosts \cup {-1}],
     discounted : SUBSET MsSpecs, language : SUBSET MsSpecs, ensemble : SUBSET MsSpecs, ops : Nat,
     search : [pc : {"idle", "scan", "found", "none"}, left : SUBSET MsSpecs, best : MsSpecs \cup {"none"},
               minAccuracy : MsCosts, maxCost : MsCosts, cost : Nat]]

MsIdle == [pc |-> "idle", file |-> "none", retries |-> 0, result |-> "none"]
NoCheck == [pc |-> "idle", file |-> "none", expected |-> "none"]
LowCost == CHOOSE m \in MsCosts : \A n \in MsCosts : m <= n

MsInit ==
    /\ msPart \in {"downloads", "startup", "files", "adapters", "specials"}
    /\ downloads = [permits |-> MsSlots, disk |-> {}, tracked |-> [f \in MsFiles |-> "none"],
                    task |-> [t \in MsTasks |-> MsIdle], ops |-> 0]
    /\ \E e \in BOOLEAN : LET h == CHOOSE x \in MsContents : TRUE IN
          /\ msPart # "startup" => e
          /\ startup = [approved |-> [f \in MsFiles |-> TRUE], hash |-> [f \in MsFiles |-> h], authorized |-> {},
                     wasAuthorized |-> {}, disk |-> [f \in MsFiles |-> "absent"], map |-> {}, cache |-> {},
                     enabled |-> e, seen |-> "none", ops |-> 0, check |-> NoCheck]
    /\ filecheck = [content |-> "absent", matched |-> FALSE, ops |-> 0, check |-> [pc |-> "idle", expected |-> "none"],
                    result |-> [status |-> "none", verified |-> FALSE, expected |-> "none"]]
    /\ adapters = [registered |-> [f \in MsFiles |-> 0], loaded |-> [f \in MsFiles |-> 0], sessions |-> {}, ops |-> 0]
    /\ specials = [models |-> {}, accuracy |-> [m \in MsSpecs |-> LowCost], cost |-> [m \in MsSpecs |-> -1],
                   discounted |-> {}, language |-> {}, ensemble |-> {}, ops |-> 0,
                   search |-> [pc |-> "idle", left |-> {}, best |-> "none", minAccuracy |-> LowCost,
                               maxCost |-> LowCost, cost |-> 0]]

-----------------------------------------------------------------------------
(* ModelDownloader                                                         *)

DownloadStep(s) ==
    msPart = "downloads" /\ downloads' = s /\ UNCHANGED <<msPart, startup, filecheck, adapters, specials>>
DownloadAt(t, pc) == msPart = "downloads" /\ downloads.task[t].pc = pc

\* start_download only tracks; nothing is downloaded yet.
StartDownload(f) ==
    /\ downloads.ops < MaxMsOps
    /\ DownloadStep([downloads EXCEPT !.tracked[f] = "InProgress", !.ops = @ + 1])
PauseDownload(f) ==
    /\ downloads.tracked[f] \notin {"none", "Paused"}
    /\ DownloadStep([downloads EXCEPT !.tracked[f] = "Paused"])

\* cancel_download also deletes the file of that name, whoever downloaded it.
CancelFileDownload(f) ==
    /\ downloads.tracked[f] \notin {"none", "Cancelled"}
    /\ DownloadStep([downloads EXCEPT !.tracked[f] = "Cancelled", !.disk = @ \ {f}])

\* download_model, download_with_auth, and resume_download of a tracked one,
\* whose status stays what it was.
DownloadModelFile(t, f) ==
    /\ DownloadAt(t, "idle") /\ downloads.ops < MaxMsOps
    /\ DownloadStep([downloads EXCEPT !.ops = @ + 1,
                         !.task[t] = [pc |-> "permit", file |-> f, retries |-> 0, result |-> "none"]])
AcquirePermit(t) ==
    /\ DownloadAt(t, "permit") /\ downloads.permits > 0
    /\ DownloadStep([downloads EXCEPT !.permits = @ - 1, !.task[t].pc = "space"])

\* A download returns, whatever its result, and gives its permit back.
DownloadReturns(s, t, r) == [s EXCEPT !.permits = @ + 1, !.task[t].pc = "idle", !.task[t].result = r]

\* check_storage_space against estimate_size.
CheckSpace(t) ==
    /\ DownloadAt(t, "space")
    /\ \/ DownloadStep([downloads EXCEPT !.task[t].pc = "try"])
       \/ DownloadStep(DownloadReturns(downloads, t, "failed"))

\* try_download writes the file; with download_with_checksum another checksum
\* than the expected one is an error and the file stays.
TryDownload(t) ==
    /\ DownloadAt(t, "try")
    /\ \E r \in {"ok", "mismatch"} :
          DownloadStep(DownloadReturns([downloads EXCEPT !.disk = @ \cup {downloads.task[t].file}], t, r))

\* Mutant: the last failed attempt keeps its permit.
TryFails_Leaks(t) ==
    /\ DownloadAt(t, "try")
    /\ IF downloads.task[t].retries = MsRetries
       THEN DownloadStep([downloads EXCEPT !.task[t].pc = "idle", !.task[t].result = "failed"])
       ELSE DownloadStep([downloads EXCEPT !.task[t].retries = @ + 1])

\* perform_download: a failed attempt is repeated max_retries times.
TryFails(t) ==
    /\ DownloadAt(t, "try")
    /\ IF downloads.task[t].retries = MsRetries
       THEN DownloadStep(DownloadReturns(downloads, t, "failed"))
       ELSE DownloadStep([downloads EXCEPT !.task[t].retries = @ + 1])

DownloadNext ==
    \/ \E f \in MsFiles : StartDownload(f) \/ PauseDownload(f) \/ CancelFileDownload(f)
    \/ \E t \in MsTasks :
          \/ AcquirePermit(t) \/ CheckSpace(t) \/ TryDownload(t) \/ TryFails(t)
          \/ \E f \in MsFiles : DownloadModelFile(t, f)

\* The semaphore and the downloads that run agree: no way a download ends, an
\* early return for want of space or the last retry, takes a slot with it.
DownloadSlotsKept ==
    downloads.permits + Cardinality({t \in MsTasks : downloads.task[t].pc \in {"space", "try"}}) = MsSlots

-----------------------------------------------------------------------------
(* model_validation::ModelValidator                                        *)

StartupStep(s) ==
    msPart = "startup" /\ startup' = s /\ UNCHANGED <<msPart, downloads, filecheck, adapters, specials>>
StartupOp(s) == startup.ops < MaxMsOps /\ StartupStep([s EXCEPT !.ops = @ + 1])
StartupAt(pc) == msPart = "startup" /\ startup.check.pc = pc
Refused == StartupStep([startup EXCEPT !.check.pc = "refused"])

\* External: the contracts and the disk change.
ContractChanges(f) ==
    \/ StartupOp([startup EXCEPT !.approved[f] = ~@])
    \/ StartupOp([startup EXCEPT !.authorized = IF f \in @ THEN @ \ {f} ELSE @ \cup {f},
                                 !.wasAuthorized = @ \cup {f}])
    \/ \E h \in MsContents : startup.disk[f] # h /\ StartupOp([startup EXCEPT !.disk[f] = h])
    \/ \E h \in MsContents : startup.hash[f] # h /\ StartupOp([startup EXCEPT !.hash[f] = h])

\* build_model_map: the file names of the approved models, taken once.
BuildModelMap ==
    /\ startup.map # {f \in MsFiles : startup.approved[f]}
    /\ StartupOp([startup EXCEPT !.map = {f \in MsFiles : startup.approved[f]}])

\* clear_authorization_cache.
ClearAuthorizationCache == startup.cache # {} /\ StartupStep([startup EXCEPT !.cache = {}])

\* validate_model_at_startup: without REQUIRE_MODEL_VALIDATION, the default, it returns
\* Ok of the zero id at once; else the file must exist and its name be in the map.
ValidateAtStartup(f) ==
    /\ StartupAt("idle")
    /\ StartupStep([startup EXCEPT !.seen = "none",
           !.check = [pc |-> IF ~startup.enabled THEN "unchecked"
                             ELSE IF startup.disk[f] # "absent" /\ f \in startup.map THEN "approved" ELSE "refused",
                      file |-> f, expected |-> "none"]])

\* is_model_approved now; a call that fails refuses, here and below.
CheckApproved ==
    /\ StartupAt("approved")
    /\ \/ startup.approved[startup.check.file] /\ StartupStep([startup EXCEPT !.check.pc = "details"])
       \/ Refused
GetDetails ==
    /\ StartupAt("details")
    /\ \/ StartupStep([startup EXCEPT !.check.expected = startup.hash[startup.check.file], !.check.pc = "hash"])
       \/ Refused

\* Mutant: the file is trusted by its name.
VerifyHash_Unread ==
    /\ StartupAt("hash")
    /\ StartupStep([startup EXCEPT !.seen = startup.disk[startup.check.file], !.check.pc = "host"])

\* verify_model_hash reads the file.
VerifyHash ==
    LET read == startup.disk[startup.check.file]
    IN /\ StartupAt("hash")
       /\ IF read = startup.check.expected
          THEN StartupStep([startup EXCEPT !.seen = read, !.check.pc = "host"])
          ELSE Refused

\* check_host_authorization: the cache, which keeps only what was authorized, or
\* nodeSupportsModel.
CheckHost ==
    LET f == startup.check.file
    IN /\ StartupAt("host")
       /\ \/ /\ f \in startup.cache
             /\ StartupStep([startup EXCEPT !.check.pc = "ok"])
          \/ /\ f \notin startup.cache /\ f \in startup.authorized
             /\ StartupStep([startup EXCEPT !.check.pc = "ok", !.cache = @ \cup {f}])
          \/ /\ f \notin startup.cache
             /\ Refused

\* The next call of the validator.
StartupAgain == startup.check.pc \in {"ok", "refused", "unchecked"} /\ StartupStep([startup EXCEPT !.check = NoCheck])

StartupNext ==
    \/ \E f \in MsFiles : ContractChanges(f) \/ ValidateAtStartup(f)
    \/ BuildModelMap \/ ClearAuthorizationCache \/ CheckApproved \/ GetDetails \/ VerifyHash \/ CheckHost
    \/ StartupAgain

\* Where REQUIRE_MODEL_VALIDATION is set, a model the startup check accepts had, when
\* it was read, the contents the registry gave for it, and its host was authorized
\* for it at some time: the map of names and the cache may be old, the contents are
\* read again.  Where it is not set, every model is accepted and none is checked.
StartupIsChecked ==
    startup.enabled /\ startup.check.pc \in {"ok", "unchecked"} =>
        /\ startup.seen = startup.check.expected /\ startup.seen # "none"
        /\ startup.check.file \in startup.wasAuthorized

-----------------------------------------------------------------------------
(* models::validation::ModelValidator                                      *)

FileStep(s) == msPart = "files" /\ filecheck' = s /\ UNCHANGED <<msPart, downloads, startup, adapters, specials>>
FileOp(s) == filecheck.ops < MaxMsOps /\ FileStep([s EXCEPT !.ops = @ + 1])

\* External: the file is written, anew or as something else.
FileChanges(c) == filecheck.content # c /\ FileOp([filecheck EXCEPT !.content = c])

\* Mutant: a mismatch is only a warning.
ValidateWithIntegrity_Warn(h) ==
    /\ filecheck.check.pc = "idle"
    /\ FileOp([filecheck EXCEPT !.matched = filecheck.content = h,
           !.check = [pc |-> "validate", expected |-> h]])

\* validate_with_integrity: verify_integrity reads the file first.
ValidateWithIntegrity(h) ==
    /\ filecheck.check.pc = "idle"
    /\ FileOp([filecheck EXCEPT !.matched = filecheck.content = h,
           !.check = IF filecheck.content = h THEN [pc |-> "validate", expected |-> h] ELSE @,
           !.result = IF filecheck.content = h THEN @ ELSE [status |-> "error", verified |-> FALSE, expected |-> h]])

\* validate_model, each model of validate_batch: it exists, in a supported
\* format, not corrupted and not too large; then it is Valid and verified.
ValidateModelFile ==
    LET ok == filecheck.content \in MsContents
    IN FileOp([filecheck EXCEPT !.check = [pc |-> "idle", expected |-> "none"],
           !.result = [status |-> IF ok THEN "Valid" ELSE "error", verified |-> ok,
                       expected |-> filecheck.check.expected]])

FileNext ==
    \/ \E c \in MsContents \cup {"absent", "corrupted", "huge", "other format"} : FileChanges(c)
    \/ \E h \in MsContents : ValidateWithIntegrity(h)
    \/ ValidateModelFile

\* A result that names an expected checksum is verified only after the contents
\* matched it, though the file is read again for the rest of the checks.
VerifiedWasMatched ==
    filecheck.result.verified /\ filecheck.result.expected # "none" => filecheck.matched

-----------------------------------------------------------------------------
(* FineTunedManager                                                        *)

AdapterOp(s) ==
    /\ msPart = "adapters" /\ adapters.ops < MaxMsOps
    /\ adapters' = [s EXCEPT !.ops = @ + 1] /\ UNCHANGED <<msPart, downloads, startup, filecheck, specials>>

\* register_finetuned: a new model under a new id; registered counts its files.
RegisterFinetuned(f) == adapters.registered[f] = 0 /\ AdapterOp([adapters EXCEPT !.registered[f] = 1])

\* The files at the adapter's path are written again.
AdapterFilesChange(f) == adapters.registered[f] > 0 /\ AdapterOp([adapters EXCEPT !.registered[f] = @ + 1])

\* load_adapter: a loaded adapter is kept for good.
LoadAdapter(f) ==
    /\ adapters.registered[f] > 0 /\ adapters.loaded[f] = 0
    /\ AdapterOp([adapters EXCEPT !.loaded[f] = adapters.registered[f]])

\* load_base_model keeps a session; create_inference_session keeps none.
LoadBaseModel(f) == AdapterOp([adapters EXCEPT !.sessions = @ \cup {f}])

-----------------------------------------------------------------------------
(* SpecializationManager and CostOptimizer                                 *)

SpecialStep(s) == msPart = "specials" /\ specials' = s /\ UNCHANGED <<msPart, downloads, startup, filecheck, adapters>>
SpecialOp(s) ==
    /\ specials.ops < MaxSpecials /\ specials.search.pc # "scan"   \* the search holds the lock
    /\ SpecialStep([s EXCEPT !.ops = @ + 1])

RegisterSpecialization(m, a) ==
    /\ m \notin specials.models
    /\ SpecialOp([specials EXCEPT !.models = @ \cup {m}, !.accuracy[m] = a])

\* set_cost_profile, with or without a discount that the volume reaches; the id
\* is not looked up.
SetCostProfile(m, c, d) ==
    SpecialOp([specials EXCEPT !.cost[m] = c, !.discounted = IF d THEN @ \cup {m} ELSE @ \ {m}])
SetLanguageSupport(m) == SpecialOp([specials EXCEPT !.language = @ \cup {m}])
UpdateFromBenchmark(m, a) == m \in specials.models /\ SpecialOp([specials EXCEPT !.accuracy[m] = a])
CreateEnsemble(ms) == SpecialOp([specials EXCEPT !.ensemble = ms])

\* find_best_for_language passes over support without a specialisation.
BestForLanguage == specials.language \cap specials.models

\* CostOptimizer::find_optimal_model under the read lock.
FindOptimal(a, c) ==
    SpecialOp([specials EXCEPT !.search = [pc |-> "scan", left |-> specials.models, best |-> "none",
                                           minAccuracy |-> a, maxCost |-> c, cost |-> 0]])

\* The cost after the volume discounts, here of one half.
EffectiveCost(m) == IF m \in specials.discounted THEN specials.cost[m] \div 2 ELSE specials.cost[m]
CostEligible(m) ==
    /\ specials.accuracy[m] >= specials.search.minAccuracy
    /\ specials.cost[m] # -1 /\ EffectiveCost(m) <= specials.search.maxCost

\* Mutant: the price before the discount is compared.
ScanModel_ListPrice(m) ==
    LET s == specials.search
        better == CostEligible(m) /\ (s.best = "none" \/ specials.cost[m] < s.cost)
    IN /\ s.pc = "scan" /\ m \in s.left
       /\ SpecialStep([specials EXCEPT !.search = [s EXCEPT !.left = s.left \ {m}, !.best = IF better THEN m ELSE s.best,
                                                            !.cost = IF better THEN specials.cost[m] ELSE s.cost]])

\* The map's entries come in any order.
ScanModel(m) ==
    LET s == specials.search
        better == CostEligible(m) /\ (s.best = "none" \/ EffectiveCost(m) < s.cost)
    IN /\ s.pc = "scan" /\ m \in s.left
       /\ SpecialStep([specials EXCEPT !.search = [s EXCEPT !.left = s.left \ {m}, !.best = IF better THEN m ELSE s.best,
                                                            !.cost = IF better THEN EffectiveCost(m) ELSE s.cost]])
ScanEnds ==
    LET s == specials.search
    IN /\ s.pc = "scan" /\ s.left = {}
       /\ SpecialStep([specials EXCEPT !.search.pc = IF s.best = "none" THEN "none" ELSE "found"])

SpecialNext ==
    \/ \E m \in MsSpecs :
          \/ SetLanguageSupport(m) \/ ScanModel(m)
          \/ \E a \in MsCosts : RegisterSpecialization(m, a) \/ UpdateFromBenchmark(m, a)
          \/ \E c \in MsCosts, d \in BOOLEAN : SetCostProfile(m, c, d)
    \/ \E ms \in SUBSET MsSpecs : CreateEnsemble(ms)
    \/ \E a, c \in MsCosts : FindOptimal(a, c)
    \/ ScanEnds

\* The model the optimizer returns is, when the scan ends, one that meets the
\* requirements, at the least effective cost of all that do, in whatever order
\* the map was walked; none is returned only if none meets them.
CheapestIsFound ==
    LET s == specials.search
        able == {m \in specials.models : CostEligible(m)}
    IN s.pc = "scan" /\ s.left = {} =>
           IF s.best = "none" THEN able = {}
           ELSE s.best \in able /\ \A m \in able : EffectiveCost(s.best) <= EffectiveCost(m)

-----------------------------------------------------------------------------

\* The types of the parts.
MsTypeOK ==
    /\ downloads \in DownloadState /\ startup \in StartupState /\ filecheck \in FileCheckState
    /\ adapters \in AdapterState /\ specials \in SpecialState

MsNext ==
    \/ DownloadNext \/ StartupNext \/ FileNext \/ SpecialNext
    \/ \E f \in MsFiles : RegisterFinetuned(f) \/ AdapterFilesChange(f) \/ LoadAdapter(f) \/ LoadBaseModel(f)

MsSpec == MsInit /\ [][MsNext]_msVars

-----------------------------------------------------------------------------
(***************************************************************************)
(* models/updates.rs: versions and how they compare, the strategies that    *)
(* decide whether an update is taken, and ModelUpdater, whose tasks back up *)
(* a model, download its update and record the version, one await at a time.*)
(***************************************************************************)

CONSTANTS UpdModels,     \* model ids
          UpdTasks,      \* tasks that apply updates
          MaxPart,       \* bound on the parts of a version
          MaxUpdates,    \* bound on the updates, schedules and rollbacks
          MaxUpdNow      \* bound on the clock (seconds)

ASSUME UpdAssumption ==
    MaxPart \in Nat /\ MaxUpdates \in Nat /\ MaxUpdNow \in Nat /\ IsFiniteSet(UpdModels) /\ IsFiniteSet(UpdTasks)

VARIABLE updater

-----------------------------------------------------------------------------
(* Versions.  pre is 1 for a pre-release; builds are left out.             *)

ModelVersion == [major : 0 .. MaxPart, minor : 0 .. MaxPart, patch : 0 .. MaxPart + 1, pre : {0, 1}]

VersionNew(major, minor, patch) == [major |-> major, minor |-> minor, patch |-> patch, pre |-> 0]

\* with_pre_release
WithPreRelease(v) == [v EXCEPT !.pre = 1]

\* The derived order: field by field; a pre-release (Some) comes after its release (None).
VersionParts(v) == <<v.major, v.minor, v.patch, v.pre>>
VersionLess(v, w) ==
    \E i \in 1 .. 4 : /\ VersionParts(v)[i] < VersionParts(w)[i]
                      /\ \A k \in 1 .. i - 1 : VersionParts(v)[k] = VersionParts(w)[k]
VersionAtMost(v, w) == v = w \/ VersionLess(v, w)

IsCompatibleWith(v, w) == v.major = w.major

VersionComparison == {"Major", "Minor", "Patch", "Equal", "Downgrade"}

\* compare_versions: of the three numbers, not of the pre-release.
CompareVersions(v, w) ==
    CASE v.major # w.major -> IF v.major < w.major THEN "Major" ELSE "Downgrade"
      [] v.major = w.major /\ v.minor # w.minor -> IF v.minor < w.minor THEN "Minor" ELSE "Downgrade"
      [] v.major = w.major /\ v.minor = w.minor /\ v.patch # w.patch ->
            IF v.patch < w.patch THEN "Patch" ELSE "Downgrade"
      [] OTHER -> "Equal"

UpdateStrategy == {"Conservative", "Balanced", "Aggressive", "SecurityOnly", "Manual"}

\* should_apply_security_update
ShouldApplySecurityUpdate(cur, new, security) == security /\ VersionLess(cur, new)

\* Mutant: Balanced compares only the minor version.
ShouldApplyUpdate_MinorOnly(strategy, cur, new, security) ==
    CASE strategy = "Balanced" -> new.major = cur.major /\ new.minor >= cur.minor
      [] strategy = "Aggressive" -> VersionLess(cur, new)
      [] strategy = "SecurityOnly" -> ShouldApplySecurityUpdate(cur, new, security)
      [] OTHER -> FALSE

\* should_apply_update: Balanced also takes the version that is installed.
ShouldApplyUpdate(strategy, cur, new, security) ==
    CASE strategy = "Conservative" -> new.major = cur.major /\ new.minor = cur.minor /\ new.patch > cur.patch
      [] strategy = "Balanced" -> new.major = cur.major /\ VersionAtMost(cur, new)
      [] strategy = "Aggressive" -> VersionLess(cur, new)
      [] strategy = "SecurityOnly" -> ShouldApplySecurityUpdate(cur, new, security)
      [] strategy = "Manual" -> FALSE

\* check_for_updates: the next patch; the update of a .0 release counts as a security update.
CheckForUpdates(m, cur) ==
    LET new == VersionNew(cur.major, cur.minor, cur.patch + 1)
    IN IF VersionLess(cur, new)
       THEN {[model |-> m, current |-> cur, new |-> new, security |-> cur.patch = 0,
              breaking |-> new.major > cur.major]}
       ELSE {}

\* check_batch_updates: the plan of the updates found.
CheckBatchUpdates(models, cur) == UNION {CheckForUpdates(m, cur[m]) : m \in models}

\* create_migration_plan: the steps, and whether each can be rolled back.
MigrationPlan ==
    <<[action |-> "BackupModel", back |-> FALSE], [action |-> "DownloadUpdate", back |-> TRUE],
      [action |-> "ValidateUpdate", back |-> TRUE], [action |-> "InstallUpdate", back |-> TRUE]>>

-----------------------------------------------------------------------------
(* ModelUpdater.  A task runs apply_update for the entries of its plan; an  *)
(* entry names the model, the version and the file it is downloaded to.     *)

UpdateStatus == {"Available", "Downloading", "Installing", "Completed", "Failed", "RolledBack", "Cancelled"}

UpdateTracking == [model : UpdModels, version : ModelVersion, status : UpdateStatus]

RecoveryInfo == [model : UpdModels, at : 0 .. MaxUpdNow]

RollbackPolicy == {0, 1, 2}   \* how many versions a clean-up keeps

UpdTaskIdle == [pc |-> "idle", plan |-> <<>>, ok |-> 0, failed |-> 0, backup |-> 0, hot |-> FALSE]

UpdInit ==
    updater = [now |-> 0, ops |-> 0,
               history |-> [m \in UpdModels |-> <<>>],     \* version_history
               backups |-> [m \in UpdModels |-> <<>>],     \* the time in each backup's file name
               updates |-> <<>>,                           \* the trackings schedule_update wrote
               file |-> [m |-> "none", v |-> VersionNew(0, 0, 0)],   \* what the shared download path holds
               task |-> [t \in UpdTasks |-> UpdTaskIdle],
               restored |-> {},                            \* what restored_model.gguf was copied from
               told |-> 0, done |-> [m \in UpdModels |-> 0]]

UpdTick == updater.now < MaxUpdNow /\ updater' = [updater EXCEPT !.now = @ + 1]

BeginUpdates(t, plan, hot) ==
    /\ updater.task[t].pc = "idle" /\ updater.ops + Len(plan) <= MaxUpdates
    /\ updater' = [updater EXCEPT !.ops = @ + Len(plan),
                      !.task[t] = [UpdTaskIdle EXCEPT !.pc = "backup", !.plan = plan, !.hot = hot]]

\* apply_update and hot_update, which only relabels its result.
ApplyUpdate(t, m, v) == \E hot \in BOOLEAN : BeginUpdates(t, <<[m |-> m, v |-> v]>>, hot)

\* apply_batch_updates: the updates of a plan, one after the other.
ApplyBatchUpdates(t) ==
    LET found == CheckBatchUpdates(UpdModels, [m \in UpdModels |->
                    IF updater.history[m] = <<>> THEN VersionNew(0, 0, 0) ELSE Last(updater.history[m])])
    IN \E p \in SetToSeqs({[m |-> i.model, v |-> i.new] : i \in {j \in found : j.new.patch <= MaxPart + 1}}) :
          p # <<>> /\ BeginUpdates(t, p, FALSE)

\* An update of the batch failed or succeeded: the next one follows in both cases.
NextOfBatch(t, ok) ==
    LET u == updater.task[t]
    IN [u EXCEPT !.ok = IF ok THEN u.ok + 1 ELSE u.ok, !.failed = IF ok THEN u.failed ELSE u.failed + 1,
                 !.plan = Tail(u.plan), !.backup = 0, !.pc = IF Len(u.plan) > 1 THEN "backup" ELSE "idle"]

\* Mutant: a failed copy is ignored.
CreateBackup_Ignored(t) ==
    LET u == updater.task[t]
    IN /\ u.pc = "backup"
       /\ updater' = [updater EXCEPT !.task[t] = [u EXCEPT !.pc = "download", !.backup = updater.now]]

\* create_backup: the file is named by the second; a copy that fails ends the update.
CreateBackup(t) ==
    LET u == updater.task[t]
        m == Head(u.plan).m
    IN /\ u.pc = "backup"
       /\ \/ updater' = [updater EXCEPT !.backups[m] = Append(@, updater.now),
                            !.task[t] = [u EXCEPT !.pc = "download", !.backup = updater.now]]
          \/ updater' = [updater EXCEPT !.task[t] = NextOfBatch(t, FALSE)]

\* download_update: the path is made of the file name, which models share.
DownloadUpdate(t) ==
    LET u == updater.task[t]
    IN /\ u.pc = "download"
       /\ \/ updater' = [updater EXCEPT !.file = Head(u.plan), !.task[t].pc = "record"]
          \/ updater' = [updater EXCEPT !.task[t] = NextOfBatch(t, FALSE)]

\* prepare_hot_update: the download alone.
PrepareHotUpdate(m, v) ==
    /\ updater.ops < MaxUpdates
    /\ updater' = [updater EXCEPT !.ops = @ + 1, !.file = [m |-> m, v |-> v]]

\* verify_update finds the file, and its answer is only reported; the migration does
\* nothing; then the version is recorded.
RecordVersion(t) ==
    LET u == updater.task[t]
        e == Head(u.plan)
    IN /\ u.pc = "record"
       /\ updater' = [updater EXCEPT !.history[e.m] = Append(@, e.v), !.done[e.m] = @ + 1,
                         !.task[t] = NextOfBatch(t, TRUE)]

\* rollback_update: every backup is of version 1.0.0, so the oldest is restored, if there is one.
RollbackUpdate(m) ==
    /\ updater.backups[m] # <<>>
    /\ updater' = [updater EXCEPT !.restored = {[model |-> m, at |-> Head(updater.backups[m])]}]

\* get_recovery_info: the newest.
GetRecoveryInfo(m) ==
    IF updater.backups[m] = <<>> THEN {} ELSE {[model |-> m, at |-> Last(updater.backups[m])]}

\* schedule_update: tracked as available.
ScheduleUpdate(m, v) ==
    /\ updater.ops < MaxUpdates
    /\ updater' = [updater EXCEPT !.ops = @ + 1,
                      !.updates = Append(@, [model |-> m, version |-> v, status |-> "Available"])]

\* get_update_status
GetUpdateStatus(i) == IF i \in DOMAIN updater.updates THEN {updater.updates[i].status} ELSE {}

\* cancel_update: nothing sets the two statuses it accepts, so that it always refuses.
CancelUpdate(i) ==
    /\ i \in DOMAIN updater.updates
    /\ updater' = [updater EXCEPT !.updates[i].status =
                      IF GetUpdateStatus(i) \subseteq {"Downloading", "Installing"} THEN "Cancelled" ELSE @]

\* subscribe_notifications: each subscriber is told once, of an update that is always the same.
SubscribeNotifications == updater.told < 1 /\ updater' = [updater EXCEPT !.told = @ + 1]

\* cleanup_old_versions, cleanup_old_versions_with_count: sorted, the lowest go.
CleanupOldVersions(m, keep) ==
    LET h == updater.history[m]
    IN /\ Len(h) > keep
       /\ \E p \in [DOMAIN h -> DOMAIN h] :
             /\ IsInjective(p) /\ \A i, k \in DOMAIN h : i < k => VersionAtMost(h[p[i]], h[p[k]])
             /\ updater' = [updater EXCEPT !.history[m] = [i \in 1 .. keep |-> h[p[Len(h) - keep + i]]]]

UpdNext ==
    \/ UpdTick \/ SubscribeNotifications
    \/ \E i \in DOMAIN updater.updates : CancelUpdate(i)
    \/ \E t \in UpdTasks : ApplyBatchUpdates(t) \/ CreateBackup(t) \/ DownloadUpdate(t) \/ RecordVersion(t)
    \/ \E m \in UpdModels :
          \/ RollbackUpdate(m) \/ \E keep \in RollbackPolicy : CleanupOldVersions(m, keep)
          \/ \E v \in {VersionNew(0, 0, 1), WithPreRelease(VersionNew(0, 0, 1))} :
                ScheduleUpdate(m, v) \/ PrepareHotUpdate(m, v) \/ \E t \in UpdTasks : ApplyUpdate(t, m, v)

UpdSpec == UpdInit /\ [][UpdNext]_updater

-----------------------------------------------------------------------------

UpdTypeOK ==
    /\ updater.now \in 0 .. MaxUpdNow /\ updater.ops \in 0 .. MaxUpdates
    /\ \A i \in DOMAIN updater.updates : updater.updates[i] \in UpdateTracking
    /\ updater.restored \subseteq RecoveryInfo
    /\ \A m \in UpdModels : updater.history[m] \in Seq(ModelVersion) /\ GetRecoveryInfo(m) \subseteq RecoveryInfo

\* Every version that is installed, by an update of its own or by one of a batch whose
\* other updates failed, was preceded by a backup of its model: there are at least as many
\* backups as versions and updates past their backup.
BackedUpFirst ==
    \A m \in UpdModels :
        updater.done[m] + Cardinality({t \in UpdTasks : /\ updater.task[t].pc \in {"download", "record"}
                                                        /\ Head(updater.task[t].plan).m = m})
           <= Len(updater.backups[m])

\* Whatever the strategy, should_apply_update takes no version that is older than the one
\* installed, and none of another major version unless it is aggressive or for security.
NoDowngrade ==
    \A s \in UpdateStrategy, v, w \in ModelVersion, security \in BOOLEAN :
        ShouldApplyUpdate(s, v, w, security) =>
            /\ CompareVersions(v, w) # "Downgrade" /\ VersionAtMost(v, w)
            /\ s \in {"Conservative", "Balanced"} => IsCompatibleWith(v, w)
=============================================================================
