--------------------------- MODULE PrivateModels ---------------------------
(***************************************************************************)
(* Private models and their users' data: the registry, the grants, tokens,  *)
(* licences, rate limits, sessions and encrypted files of models/private.rs *)
(* and the storage, consents and deletions of models/gdpr.rs.  A behaviour  *)
(* is about the models or about the data.                                   *)
(***************************************************************************)
EXTENDS Integers, Sequences, FiniteSetsExt

CONSTANTS PmModels,      \* model ids
          PmUsers,       \* owners and users
          PmOrgs,        \* organizations
          MaxPrivate,    \* max_private_models_per_user
          PmMinute,      \* the window of the rate limiter, in ticks
          PmLimit,       \* requests_per_minute
          ConsentTtl,    \* the 365 days of a granted consent, in ticks
          MaxPmOps,      \* bound on what is only ever added
          MaxPmNow       \* bound on the clock

ASSUME PmAssumption ==
    /\ MaxPrivate \in Nat /\ PmMinute \in Nat \ {0} /\ PmLimit \in Nat
    /\ ConsentTtl \in Nat /\ MaxPmOps \in Nat /\ MaxPmNow \in Nat

VARIABLES pmPart, pm, gdpr

pmVars == <<pmPart, pm, gdpr>>

-----------------------------------------------------------------------------
(* PrivateModelManager.  The audit log is kept as its length.              *)

AccessLevel == {"ReadOnly", "ReadWrite", "FullAccess"}

AccessToken == [model : PmModels, level : AccessLevel, expires : 0 .. MaxPmNow + 1]

IsolatedSession == [model : PmModels, owner : PmUsers, active : BOOLEAN]

\* The requests a limiter keeps, as how many were taken at each tick.
NoRequests == [r \in 0 .. MaxPmNow |-> 0]
RequestsIn(requests, from, to) == [r \in 0 .. MaxPmNow |-> IF from < r /\ r <= to THEN requests[r] ELSE 0]
RequestCount(requests) == MapThenSumSet(LAMBDA r : requests[r], 0 .. MaxPmNow)

NoLimiter == [set |-> FALSE, requests |-> NoRequests]

\* ManagerState: the registry with its two indexes, the access control, and what is kept per model.
PmInit ==
    pm = [now |-> 0, ops |-> 0, used |-> {}, audit |-> 0,
          models |-> {}, ownerOf |-> [m \in PmModels |-> "none"], orgOf |-> [m \in PmModels |-> "none"],
          byOwner |-> [u \in PmUsers |-> {}], byOrg |-> [o \in PmOrgs |-> {}],
          perms |-> [m \in PmModels |-> [u \in PmUsers |-> "None"]], sharing |-> {}, tokens |-> {},
          licences |-> {}, accepted |-> {}, policies |-> {}, noExport |-> {},
          usage |-> [m \in PmModels |-> [u \in PmUsers |-> 0]],
          limiter |-> [m \in PmModels |-> NoLimiter], sessions |-> {}, keys |-> {},
          file |-> [sealed |-> FALSE, owner |-> "none", hard |-> FALSE]]

PmTick == pm.now < MaxPmNow /\ pm' = [pm EXCEPT !.now = @ + 1]

\* add_audit_log
AddAuditLog(s) == [s EXCEPT !.audit = IF @ < MaxPmOps THEN @ + 1 ELSE @]

\* AccessControl.grant_access
GrantAccess(s, m, u, level) == [s EXCEPT !.perms[m][u] = level]

\* PrivateModelRegistry.register
Register(s, m, u, org) ==
    [s EXCEPT !.models = @ \cup {m}, !.ownerOf[m] = u, !.orgOf[m] = org, !.byOwner[u] = @ \cup {m},
              !.byOrg = [o \in PmOrgs |-> IF o = org THEN s.byOrg[o] \cup {m} ELSE s.byOrg[o]]]

\* Mutant: the organization's index is left.
RemoveFromRegistry_KeepOrg(s, m) ==
    IF m \notin s.models THEN s
    ELSE [s EXCEPT !.models = @ \ {m}, !.byOwner[s.ownerOf[m]] = @ \ {m}]

\* PrivateModelRegistry.remove
RemoveFromRegistry(s, m) ==
    IF m \notin s.models THEN s
    ELSE [s EXCEPT !.models = @ \ {m}, !.byOwner[s.ownerOf[m]] = @ \ {m},
                   !.byOrg = [o \in PmOrgs |-> IF o = s.orgOf[m] THEN s.byOrg[o] \ {m} ELSE s.byOrg[o]]]

\* list_by_owner (search_private_models), list_by_organization: an index, through the models.
ListByOwner(u) == pm.byOwner[u] \cap pm.models
ListByOrganization(o) == pm.byOrg[o] \cap pm.models

\* create_private_model: a fresh id; the owner gets full access.
CreatePrivateModel(m, u, org) ==
    /\ m \notin pm.used /\ Cardinality(ListByOwner(u)) < MaxPrivate
    /\ pm' = AddAuditLog(Register(GrantAccess([pm EXCEPT !.used = @ \cup {m}], m, u, "FullAccess"), m, u, org))

Levels == <<"None", "ReadOnly", "ReadWrite", "FullAccess">>
LevelRank(l) == CHOOSE i \in 1 .. 4 : Levels[i] = l

\* check_access: the owner may do everything, others what was granted; the expiry of a
\* sharing is stored and never read.
CheckAccess(m, u, level) ==
    \/ m \in pm.models /\ pm.ownerOf[m] = u
    \/ pm.perms[m][u] # "None" /\ LevelRank(pm.perms[m][u]) >= LevelRank(level)

\* get_private_model
GetPrivateModel(m, u) == m \in pm.models /\ CheckAccess(m, u, "ReadOnly")

\* get_storage_info
GetStorageInfo(m, u) == CheckAccess(m, u, "ReadOnly") /\ m \in pm.models

\* share_model: the level is set for everyone named, also to a lower one.
ShareModel(m, u, with, level) ==
    /\ CheckAccess(m, u, "FullAccess")
    /\ pm' = [pm EXCEPT !.perms[m] = [v \in PmUsers |-> IF v \in with THEN level ELSE pm.perms[m][v]],
                        !.sharing = @ \cup {m}]

\* generate_access_token
GenerateAccessToken(m, u, level, ttl) ==
    /\ CheckAccess(m, u, "FullAccess") /\ pm.now + ttl <= MaxPmNow + 1
    /\ pm' = AddAuditLog([pm EXCEPT !.tokens = @ \cup {[model |-> m, level |-> level, expires |-> pm.now + ttl]}])

\* validate_token: its expiry, not its model.
ValidateToken(t) == t \in pm.tokens /\ t.expires >= pm.now

\* update_model: only the audit log.
UpdatePrivateModel(m, u) == CheckAccess(m, u, "ReadWrite") /\ pm' = AddAuditLog(pm)

\* set_usage_policy
SetUsagePolicy(m, u) == CheckAccess(m, u, "FullAccess") /\ pm' = [pm EXCEPT !.policies = @ \cup {m}]

\* set_license
SetLicense(m, u) == CheckAccess(m, u, "FullAccess") /\ pm' = [pm EXCEPT !.licences = @ \cup {m}]

\* set_export_policy: without download.
SetExportPolicy(m, u) == CheckAccess(m, u, "FullAccess") /\ pm' = [pm EXCEPT !.noExport = @ \cup {m}]

\* export_model: refused by policy, else not implemented.
ExportModel(m) == IF m \in pm.noExport THEN "not allowed" ELSE "not implemented"

\* accept_license: of any model, by anyone.
AcceptLicense(m, u) == pm' = [pm EXCEPT !.accepted = @ \cup {<<m, u>>}]

\* check_license_compliance
CheckLicenseCompliance(m, u) == <<m, u>> \in pm.accepted

\* track_usage: by anyone.
TrackUsage(m, u) ==
    /\ pm.ops < MaxPmOps
    /\ pm' = [pm EXCEPT !.ops = @ + 1, !.usage[m][u] = @ + 1]

\* get_usage_stats: the asking user's own records.
GetUsageStats(m, u) == pm.usage[m][u]

\* set_rate_limits: a new limiter forgets the requests of the old one.
SetRateLimits(m, u) ==
    /\ CheckAccess(m, u, "FullAccess")
    /\ pm' = [pm EXCEPT !.limiter[m] = [set |-> TRUE, requests |-> NoRequests]]

\* Mutant: the limit is compared too late.
AllowPrivateRequest_Above(requests, now) ==
    LET recent == RequestsIn(requests, now - PmMinute, MaxPmNow)
    IN IF RequestCount(recent) > PmLimit THEN recent ELSE [recent EXCEPT ![now] = @ + 1]

\* RateLimiter.check_rate_limit: the requests of the last minute, and whether one more is taken.
AllowPrivateRequest(requests, now) ==
    LET recent == RequestsIn(requests, now - PmMinute, MaxPmNow)
    IN IF RequestCount(recent) >= PmLimit THEN recent ELSE [recent EXCEPT ![now] = @ + 1]

\* check_rate_limit
CheckRateLimit(m) ==
    /\ pm.limiter[m].set
    /\ pm' = [pm EXCEPT !.limiter[m].requests = AllowPrivateRequest(@, pm.now)]

\* create_isolated_session, create_api_session: whoever may read; it outlives the access.
CreateIsolatedSession(m, u) ==
    /\ CheckAccess(m, u, "ReadOnly")
    /\ pm' = [pm EXCEPT !.sessions = @ \cup {[model |-> m, owner |-> u, active |-> TRUE]}]

\* IsolatedSession.cleanup
CleanupSession(s) ==
    /\ s \in pm.sessions /\ s.active
    /\ pm' = [pm EXCEPT !.sessions = (@ \ {s}) \cup {[s EXCEPT !.active = FALSE]}]

\* encrypt_model: the key is derived with the iterations asked for and stored per owner.
EncryptModel(u, hard) ==
    pm' = [pm EXCEPT !.file = [sealed |-> TRUE, owner |-> u, hard |-> hard], !.keys = @ \cup {u}]

\* decrypt_model: always with 100 000 iterations; the wrong owner and the wrong count fail.
DecryptModel(u) == pm.file.sealed /\ pm.file.owner = u /\ ~pm.file.hard

\* get_audit_logs: one's own, or with full access; of a model that is gone, anyone's.
GetAuditLogs(m, u) == m \notin pm.models \/ CheckAccess(m, u, "FullAccess")

\* Mutant: the grants of a deleted model stay.
DeletePrivateModel_KeepGrants(m, u) ==
    /\ CheckAccess(m, u, "FullAccess")
    /\ pm' = AddAuditLog(RemoveFromRegistry(pm, m))

\* delete_private_model: tokens, sessions, licences and limiters stay.
DeletePrivateModel(m, u) ==
    /\ CheckAccess(m, u, "FullAccess")
    /\ pm' = AddAuditLog([RemoveFromRegistry(pm, m) EXCEPT
                             !.perms[m] = [v \in PmUsers |-> "None"], !.sharing = @ \ {m}])

\* The models' operations by what they touch; each part has models to work on.
PrivateRegistryNext ==
    \E m \in PmModels, u \in PmUsers :
        \/ DeletePrivateModel(m, u)
        \/ \E o \in PmOrgs \cup {"none"} : CreatePrivateModel(m, u, o)
        \/ \E with \in SUBSET PmUsers \ {{}}, level \in AccessLevel : ShareModel(m, u, with, level)

SessionsNext ==
    \/ \E s \in pm.sessions : CleanupSession(s)
    \/ \E u \in PmUsers, hard \in BOOLEAN : EncryptModel(u, hard)
    \/ \E m \in PmModels, u \in PmUsers : CreateIsolatedSession(m, u)

TermsNext ==
    \E m \in PmModels, u \in PmUsers :
        \/ UpdatePrivateModel(m, u) \/ SetUsagePolicy(m, u) \/ SetLicense(m, u) \/ SetExportPolicy(m, u)
        \/ AcceptLicense(m, u) \/ TrackUsage(m, u)

LimitsNext ==
    \/ PmTick
    \/ \E m \in PmModels : CheckRateLimit(m)
    \/ \E m \in PmModels, u \in PmUsers : SetRateLimits(m, u) \/ GenerateAccessToken(m, u, "ReadOnly", 1)

-----------------------------------------------------------------------------
(* DecentralizedGdprManager: a stored item is named by its user and second. *)

ConsentPurposes == {"train", "infer"}

GdprInit ==
    gdpr = [now |-> 0, stored |-> {}, overwritten |-> 0, items |-> 0,
            consent |-> [u \in PmUsers |-> [given |-> FALSE, purposes |-> {}, expires |-> 0]],
            deletions |-> 0, audits |-> 0, metrics |-> {}, withdrawn |-> [u \in PmUsers |-> {}]]

\* store_encrypted_data: a second item of the same second replaces the first.
StoreEncryptedData(u) ==
    LET id == <<u, gdpr.now>>
    IN /\ gdpr.items < MaxPmOps
       /\ gdpr' = [gdpr EXCEPT !.items = @ + 1, !.stored = @ \cup {id},
                               !.overwritten = IF id \in gdpr.stored THEN @ + 1 ELSE @]

\* retrieve_encrypted_data
RetrieveEncryptedData(id) == IF id \in gdpr.stored THEN {id} ELSE {}

\* collect_user_data_p2p: whatever is named after the user.
CollectUserData(u) == {id \in gdpr.stored : id[1] = u}

\* broadcast_consent_to_chain: the whole record is replaced; its signature is not checked.
BroadcastConsent(u, purposes, expires) ==
    gdpr' = [gdpr EXCEPT !.consent[u] = [given |-> TRUE, purposes |-> purposes, expires |-> expires],
                         !.withdrawn[u] = @ \ purposes]

\* grant_consent_on_chain: for a year.
GrantConsent(u, purposes) == BroadcastConsent(u, purposes, gdpr.now + ConsentTtl)

\* Mutant: the purposes named are the ones kept.
WithdrawConsent_Kept(u, purposes, valid) ==
    gdpr' = [gdpr EXCEPT !.consent[u].purposes = @ \cap purposes, !.withdrawn[u] = @ \cup purposes]

\* withdraw_consent_on_chain: an invalid signature is refused; the named purposes go.
WithdrawConsent(u, purposes, valid) ==
    gdpr' = IF valid /\ gdpr.consent[u].given
            THEN [gdpr EXCEPT !.consent[u].purposes = @ \ purposes, !.withdrawn[u] = @ \cup purposes]
            ELSE gdpr

\* verify_consent_on_chain
VerifyConsent(u, purpose) ==
    purpose \in gdpr.consent[u].purposes /\ gdpr.consent[u].expires > gdpr.now

\* get_active_consent_from_chain: expired purposes too.
GetActiveConsent(u) == gdpr.consent[u].purposes

\* broadcast_deletion_to_p2p, federated_delete: three proofs of deletion; the storage keeps its items.
BroadcastDeletion == gdpr.deletions < MaxPmOps /\ gdpr' = [gdpr EXCEPT !.deletions = @ + 1]

\* generate_audit_proof
GenerateAuditProof == gdpr.audits < MaxPmOps /\ gdpr' = [gdpr EXCEPT !.audits = @ + 1]

\* store_encrypted_metric: one value per user.
StoreEncryptedMetric(u) == gdpr' = [gdpr EXCEPT !.metrics = @ \cup {u}]

GdprTick == gdpr.now < MaxPmNow /\ gdpr' = [gdpr EXCEPT !.now = @ + 1]

DataNext ==
    \/ BroadcastDeletion \/ GenerateAuditProof
    \/ \E u \in PmUsers : StoreEncryptedData(u) \/ StoreEncryptedMetric(u)

ConsentNext ==
    \E u \in PmUsers, p \in SUBSET ConsentPurposes \ {{}} :
        \/ GrantConsent(u, p) \/ BroadcastConsent(u, p, MaxPmNow + 1)
        \/ \E valid \in BOOLEAN : WithdrawConsent(u, p, valid)

-----------------------------------------------------------------------------

PmSpecInit ==
    /\ pmPart \in {"sessions", "terms", "limits", "data", "consent"} 
    /\ PmInit /\ GdprInit

PmNext ==
    /\ UNCHANGED pmPart
    /\ \/ pmPart \notin {"data", "consent"} /\ PrivateRegistryNext /\ UNCHANGED gdpr
       \/ pmPart = "sessions" /\ SessionsNext /\ UNCHANGED gdpr
       \/ pmPart = "terms" /\ TermsNext /\ UNCHANGED gdpr
       \/ pmPart = "limits" /\ LimitsNext /\ UNCHANGED gdpr
       \/ pmPart \in {"data", "consent"} /\ GdprTick /\ UNCHANGED pm
       \/ pmPart = "data" /\ DataNext /\ UNCHANGED pm
       \/ pmPart = "consent" /\ ConsentNext /\ UNCHANGED pm

PmSpec == PmSpecInit /\ [][PmNext]_pmVars

-----------------------------------------------------------------------------

PmTypeOK ==
    /\ pm.models \subseteq pm.used /\ pm.used \subseteq PmModels
    /\ pm.tokens \subseteq AccessToken /\ pm.sessions \subseteq IsolatedSession
    /\ gdpr.items \in 0 .. MaxPmOps /\ \A u \in PmUsers : gdpr.consent[u].purposes \subseteq ConsentPurposes

\* Once a model is deleted nobody may open it, share it or issue tokens for it, whoever it
\* was shared with before, and no index of the registry still names it.
DeletedIsInaccessible ==
    /\ \A m \in PmModels \ pm.models, u \in PmUsers : ~CheckAccess(m, u, "ReadOnly")
    /\ \A u \in PmUsers : pm.byOwner[u] = {m \in pm.models : pm.ownerOf[m] = u}
    /\ \A o \in PmOrgs : pm.byOrg[o] = {m \in pm.models : pm.orgOf[m] = o}

\* The requests a rate limiter let through in any minute stay within its limit.
RequestsPerMinute ==
    \A m \in PmModels, end \in 0 .. MaxPmNow :
        RequestCount(RequestsIn(pm.limiter[m].requests, end - PmMinute, end)) <= PmLimit

\* A purpose that a user withdrew is not verified again before a new consent names it, and
\* whatever is verified is among the purposes shown as active.
WithdrawnIsRefused ==
    \A u \in PmUsers, p \in ConsentPurposes :
        VerifyConsent(u, p) => p \notin gdpr.withdrawn[u] /\ p \in GetActiveConsent(u)

=============================================================================
