------------------------- MODULE RoleProvisioning -------------------------
(***************************************************************************)
(* The database roles of the deployment: scripts/provision-executor-       *)
(* roles.sql, which an administrator replays after migrations, and the     *)
(* startup validation of the two live processes, which read back what      *)
(* their role may do before they touch the wallet.                         *)
(*                                                                         *)
(* Tables are grouped into classes by who may use them; a right is a class *)
(* and one of SELECT, INSERT, UPDATE, DELETE, held if it is granted on a   *)
(* table (or on columns of a table) of the class.  Roles are known by      *)
(* their OID: "stale" is the OID of a worker role that was renamed.  The   *)
(* rest of the catalog that the script resets in the same way (schemas,    *)
(* sequences, functions, types, languages, databases, parameters) is left  *)
(* out.                                                                    *)
(***************************************************************************)
EXTENDS Naturals, FiniteSets

CONSTANTS
    DriftRoles,    \* the roles that somebody changes by hand, and
    DriftTables,   \* the classes on which they are given rights
    RpcProviders,  \* provider ids of the configurations
    NoWork         \* no transaction, position or authorization is open

VARIABLES
    catalog,    \* roles, rights, defaults, memberships, owners, policies
    process,    \* the live and the recovery process
    authority,  \* what a running process could do when it was validated
    provider,   \* the provider each process is configured for
    openWork,   \* the open work of the wallet: its provider and stage, or NoWork
    schemaHead, \* the migrations applied
    release,    \* the migrations the deployed code was built for
    covered     \* the tables at the last provisioning, {} after a change

roleVars == <<catalog, process, authority, provider, openWork, schemaHead,
              release, covered>>

GroupRoles == {"listener", "worker", "live", "recovery", "operations",
               "readiness", "reader", "public_api", "retention"}
Logins == {"live_login", "recovery_login"}
Processes == {"live", "recovery"}
LoginOf(r) == IF r = "live" THEN "live_login" ELSE "recovery_login"

SignedTables == {"signed", "submissions", "positions", "ledger"}
ExecutionTables == SignedTables \cup
    {"intents", "attempts", "pairs", "risk", "control", "envelopes",
     "fresh_execution"}
BaseTables == (ExecutionTables \ {"fresh_execution"}) \cup
    {"events", "inbox", "venue", "history", "foreign"}

Rights(classes, privileges) == classes \X privileges

---------------------------------------------------------------------------
(* The allowlists of the script, one per role.                             *)

ListenerGrants ==
    Rights({"events", "inbox", "venue"}, {"S", "I", "U", "D"})
        \cup Rights({"history", "envelopes"}, {"S"})
        \cup Rights({"intents", "pairs"}, {"S", "I"})

WorkerGrants ==
    Rights({"intents"}, {"S", "U"}) \cup Rights({"attempts"}, {"S", "I", "U"})
        \cup Rights({"pairs", "venue"}, {"S"})

RecoveryGrants ==
    Rights({"history", "events"}, {"S"})
        \cup Rights({"risk", "envelopes", "signed"}, {"S", "U"})
        \cup Rights({"submissions"}, {"S", "I"}) \cup Rights({"ledger"}, {"I"})
        \cup Rights({"intents", "attempts", "control", "positions"},
                    {"S", "I", "U"})

RetentionGrants ==
    Rights({"events", "inbox", "venue", "intents", "attempts", "pairs", "risk",
            "control", "signed", "submissions", "positions"}, {"S", "D"})
        \cup Rights({"inbox", "intents", "attempts"}, {"U"})
        \cup Rights({"intents", "attempts", "risk"}, {"I"})

LiveContextGrants ==
    Rights({"history", "venue", "pairs", "envelopes"}, {"S"})
        \cup Rights({"intents", "risk"}, {"S", "U"})
        \cup Rights({"attempts"}, {"S", "I", "U"})

LiveSigningGrants ==
    Rights({"control", "signed"}, {"S", "I", "U"})
        \cup Rights({"submissions"}, {"S", "I"})
        \cup Rights({"positions"}, {"S", "U"})

OperationsGrants ==
    Rights({"intents"}, {"S", "U"}) \cup Rights({"pairs", "attempts"}, {"S"})
        \cup Rights({"risk", "control", "envelopes"}, {"S", "I", "U"})

ReadinessGrants ==
    Rights({"history", "positions"}, {"S"}) \cup Rights({"risk"}, {"S", "I", "U"})

ReaderGrants ==
    Rights({"history", "events", "inbox", "venue", "intents", "attempts",
            "pairs", "risk", "control", "positions", "ledger"}, {"S"})

Allowlist ==
    [listener |-> ListenerGrants, worker |-> WorkerGrants,
     live |-> LiveContextGrants \cup LiveSigningGrants,
     recovery |-> RecoveryGrants, operations |-> OperationsGrants,
     readiness |-> ReadinessGrants, reader |-> ReaderGrants,
     public_api |-> {}, retention |-> RetentionGrants]

(* What the live processes expect of their roles; each has a list of its   *)
(* own in the code.                                                        *)
LiveExpected ==
    Rights({"control", "signed", "attempts"}, {"S", "I", "U"})
        \cup Rights({"intents", "positions", "risk"}, {"S", "U"})
        \cup Rights({"submissions"}, {"S", "I"})
        \cup Rights({"envelopes", "history", "pairs", "venue"}, {"S"})

RecoveryExpected ==
    Rights({"attempts", "control", "intents", "positions"}, {"S", "I", "U"})
        \cup Rights({"envelopes", "risk", "signed"}, {"S", "U"})
        \cup Rights({"submissions"}, {"S", "I"}) \cup Rights({"ledger"}, {"I"})
        \cup Rights({"events", "history"}, {"S"})

Expected == [live |-> LiveExpected, recovery |-> RecoveryExpected]

---------------------------------------------------------------------------
(* The statements of the script.                                           *)

CreateRoles(c) == [c EXCEPT !.roles = @ \cup GroupRoles]

(* Attributes, memberships in other groups and every direct right, in every *)
(* schema of the user.                                                     *)
ResetRole(c, r) ==
    [c EXCEPT !.powers = @ \ {r},
              !.parents = {e \in @ : e[1] # r},
              !.acl = {g \in @ : g[1] # r}]

ResetDefaults(c, r) == [c EXCEPT !.defaults = @ \ {r}]

(* The retention role is reset in the schema public only, and keeps its    *)
(* memberships and attributes.                                             *)
ResetRetention(c) ==
    [c EXCEPT !.acl = {g \in @ : g[1] = "retention" => g[2] = "foreign"}]

RevokeOn(c, tables, grantees) ==
    [c EXCEPT !.acl = {g \in @ : ~(g[1] \in grantees /\ g[2] \in tables)}]

GrantTo(c, r, rights) ==
    [c EXCEPT !.acl = @ \cup {<<r, g[1], g[2]>> : g \in rights}]

OwnsNothing(c, r) == \A o \in c.owners : o[1] # r

Dependents == {"PUBLIC", "listener", "worker", "operations", "reader",
               "public_api"}

ProvisionListener(c) ==
    LET reset == ResetDefaults(ResetRole(c, "listener"), "listener")
    IN  GrantTo(RevokeOn(reset, ExecutionTables, {"PUBLIC"}), "listener",
                ListenerGrants)

(* A renamed worker role is stripped before the policies that confine the  *)
(* worker are bound to the role that has its name now.                     *)
QuarantineIsSafe(c) ==
    c.policy = "stale" => "stale" \notin c.powers /\ OwnsNothing(c, "stale")

(* Faulty variant: the renamed role keeps its members and its groups. *)
QuarantineKeepsMembers(c) ==
    IF c.policy # "stale" THEN c
    ELSE [c EXCEPT !.acl = {g \in @ : g[1] # "stale"},
                   !.defaults = @ \ {"stale"}]

Quarantine(c) ==
    IF c.policy # "stale" THEN c
    ELSE [c EXCEPT !.parents = {e \in @ : "stale" \notin {e[1], e[2]}},
                   !.acl = {g \in @ : g[1] # "stale"},
                   !.defaults = @ \ {"stale"}]

BindPolicies(c) == [c EXCEPT !.policy = "worker"]

ProvisionWorker(c) ==
    LET reset == ResetDefaults(ResetRole(c, "worker"), "worker")
        private == RevokeOn(reset, ExecutionTables \cup {"venue"}, {"PUBLIC"})
    IN  GrantTo(BindPolicies(Quarantine(private)), "worker", WorkerGrants)

ProvisionRecovery(c) ==
    GrantTo(ResetRole(c, "recovery"), "recovery",
            RecoveryGrants)

ProvisionRetention(c) ==
    GrantTo(ResetRetention(c), "retention", RetentionGrants)

ProvisionLive(c) ==
    LET private == RevokeOn(c, SignedTables, Dependents)
        reset == ResetDefaults(ResetRole(private, "live"), "live")
    IN  GrantTo(reset, "live", LiveContextGrants \cup LiveSigningGrants)

ProvisionOperations(c) ==
    GrantTo(RevokeOn(ResetRole(c, "operations"), {"control"}, Dependents),
            "operations", OperationsGrants)

ProvisionReaders(c) ==
    LET ready == GrantTo(ResetRole(c, "readiness"), "readiness", ReadinessGrants)
    IN  GrantTo(ResetRole(ready, "reader"), "reader", ReaderGrants)

(* The last statement: what the API, the listener and the worker might hold *)
(* on the operations tables goes.                                          *)
CloseOperations(c) ==
    RevokeOn(c, {"control"}, {"public_api", "listener", "worker"})

(* The script is one transaction: an ownership or a rebinding it cannot    *)
(* undo safely raises, and nothing of it remains.                          *)
ScriptCommits(c) ==
    /\ OwnsNothing(c, "listener")
    /\ OwnsNothing(c, "worker")
    /\ QuarantineIsSafe(c)

Provisioned(c) ==
    LET observing == ProvisionWorker(ProvisionListener(CreateRoles(c)))
        moving == ProvisionLive(ProvisionRetention(ProvisionRecovery(observing)))
    IN  CloseOperations(ProvisionReaders(ProvisionOperations(moving)))

---------------------------------------------------------------------------
(* What a session of a role can do, as PostgreSQL computes it: the rights  *)
(* and the ownerships of the role, of the groups it belongs to, and of     *)
(* PUBLIC.                                                                 *)

GroupsOf(c, S) == S \cup {e[2] : e \in {x \in c.parents : x[1] \in S}}
Reach(c, o) == GroupsOf(c, GroupsOf(c, GroupsOf(c, {o})))

RightsOf(c, S) == {<<g[2], g[3]>> : g \in {x \in c.acl : x[1] \in S}}
                    \cup {<<o[2], "OWNER">> : o \in {x \in c.owners : x[1] \in S}}

EffectiveAuthority(c, o) == RightsOf(c, Reach(c, o) \cup {"PUBLIC"})

---------------------------------------------------------------------------
(* Startup validation.                                                     *)

GroupsHeld(c, o) == {e[2] : e \in {x \in c.parents : x[1] = o}}

(* The session logs in as a role that has no right of its own and exactly  *)
(* one group, the role it then sets; neither has an attribute, and the     *)
(* group has no group.                                                     *)
validRole(c, r) ==
    LET login == LoginOf(r)
    IN  /\ {login, r} \subseteq c.roles
        /\ {login, r} \cap c.powers = {}
        /\ GroupsHeld(c, login) = {r}
        /\ GroupsHeld(c, r) = {}
        /\ RightsOf(c, {login}) = {} /\ login \notin c.defaults

validRecoveryRole(c) == validRole(c, "recovery")

(* Faulty variant: what everybody may do is not listed. *)
LiveInventoryOfRole(c) ==
    RightsOf(c, {"live"})
        \cup {<<"default", g>> : g \in c.defaults \cap {"live"}}

(* The live process lists every right of its role and of PUBLIC, every     *)
(* default right and every ownership, and compares the list with its own.  *)
LiveInventory(c) ==
    RightsOf(c, {"live", "PUBLIC"})
        \cup {<<"default", g>> : g \in c.defaults \cap {"live", "PUBLIC"}}

(* The recovery process asks the server for its effective privileges.      *)
RecoveryInventory(c) == EffectiveAuthority(c, "recovery")

(* Armaments, signed transactions, budgets and positions that are still    *)
(* open must carry the provider the live process is configured for; the    *)
(* recovery process looks at what was sent and at positions only.  An exit *)
(* authorization has no provider: its position has.                        *)
WorkIsBound(r) ==
    openWork # NoWork /\ (r = "recovery" => openWork.stage = "sent") =>
        openWork.provider = provider[r]

validateLiveExecutorStartup ==
    /\ validRole(catalog, "live")
    /\ LiveInventory(catalog) = LiveExpected
    /\ schemaHead = release
    /\ WorkIsBound("live")

validateLiveRecoveryStartup ==
    /\ validRecoveryRole(catalog)
    /\ RecoveryInventory(catalog) = RecoveryExpected
    /\ schemaHead = release
    /\ WorkIsBound("recovery")

validateStartup(r) ==
    IF r = "live" THEN validateLiveExecutorStartup
    ELSE validateLiveRecoveryStartup

---------------------------------------------------------------------------
(* The deployment.                                                         *)

DeploymentGrants ==
    UNION {{<<r, g[1], g[2]>> : g \in Allowlist[r]} : r \in GroupRoles}

RolesInit ==
    /\ catalog = [roles |-> GroupRoles \cup Logins,
                  acl |-> DeploymentGrants, defaults |-> {},
                  parents |-> {<<LoginOf(r), r>> : r \in Processes},
                  owners |-> {}, powers |-> {}, policy |-> "worker",
                  tables |-> BaseTables]
    /\ process = [r \in Processes |-> "DOWN"]
    /\ authority = [r \in Processes |-> {}]
    /\ provider \in [Processes -> RpcProviders]
    /\ openWork = NoWork
    /\ schemaHead = 1 /\ release = 1
    /\ covered = {}

Provision ==
    /\ ScriptCommits(catalog)
    /\ catalog' = Provisioned(catalog)
    /\ covered' = catalog.tables
    /\ UNCHANGED <<process, authority, provider, openWork, schemaHead, release>>

(* A migration adds an execution table; the database grants the default    *)
(* rights on it.                                                           *)
Migrate ==
    /\ schemaHead = 1
    /\ schemaHead' = 2
    /\ catalog' = [catalog EXCEPT
                    !.tables = @ \cup {"fresh_execution"},
                    !.acl = @ \cup {<<g, "fresh_execution", "S">> :
                                      g \in catalog.defaults}]
    /\ UNCHANGED <<process, authority, provider, openWork, release, covered>>

Deploy ==
    /\ release = 1
    /\ release' = 2
    /\ UNCHANGED <<catalog, process, authority, provider, openWork, schemaHead,
                   covered>>

StartProcess(r) ==
    /\ process[r] = "DOWN"
    /\ validateStartup(r)
    /\ process' = [process EXCEPT ![r] = "UP"]
    /\ authority' = [authority EXCEPT
                        ![r] = EffectiveAuthority(catalog, LoginOf(r))]
    /\ UNCHANGED <<catalog, provider, openWork, schemaHead, release, covered>>

StopProcess(r) ==
    /\ process[r] = "UP"
    /\ process' = [process EXCEPT ![r] = "DOWN"]
    /\ authority' = [authority EXCEPT ![r] = {}]
    /\ UNCHANGED <<catalog, provider, openWork, schemaHead, release, covered>>

(* An operator arms a target, under a provider of their choice, whether or *)
(* not the live process runs.                                              *)
OpenWork(p) ==
    /\ openWork = NoWork
    /\ openWork' = [provider |-> p, stage |-> "armed"]
    /\ UNCHANGED <<catalog, process, authority, provider, schemaHead, release,
                   covered>>

(* The live process signs for an armament of its provider, and then sends  *)
(* what it signed; a position is what was sent.                            *)
WorkAdvances ==
    LET next == [armed |-> "signed", signed |-> "sent"]
    IN  /\ process["live"] = "UP" /\ openWork # NoWork
        /\ openWork.provider = provider["live"] /\ openWork.stage # "sent"
        /\ openWork' = [openWork EXCEPT !.stage = next[@]]
        /\ UNCHANGED <<catalog, process, authority, provider, schemaHead,
                       release, covered>>

(* An armament is revoked or expires; what was signed is settled by a      *)
(* process that runs.                                                      *)
WorkSettles ==
    /\ openWork # NoWork
    /\ openWork.stage = "armed" \/ \E r \in Processes : process[r] = "UP"
    /\ openWork' = NoWork
    /\ UNCHANGED <<catalog, process, authority, provider, schemaHead, release,
                   covered>>

Reconfigure(r, p) ==
    /\ process[r] = "DOWN" /\ provider[r] # p
    /\ provider' = [provider EXCEPT ![r] = p]
    /\ UNCHANGED <<catalog, process, authority, openWork, schemaHead, release,
                   covered>>

---------------------------------------------------------------------------
(* What somebody does to the catalog between two runs of the script.             *)

Drifts(c) ==
    /\ catalog' = c /\ c # catalog
    /\ covered' = {}
    /\ UNCHANGED <<process, authority, provider, openWork, schemaHead, release>>

(* A quarantined role is a stranger that the script no longer knows.       *)
Known == catalog.roles \ (IF catalog.policy = "stale" THEN {} ELSE {"stale"})
Drifting == DriftRoles \cap Known

GrantDrifts ==
    \E g \in Drifting \cup {"PUBLIC"}, t \in DriftTables \cap catalog.tables :
        Drifts([catalog EXCEPT !.acl = @ \cup {<<g, t, "I">>}])

DefaultDrifts ==
    \E g \in Drifting \cup {"PUBLIC"} :
        Drifts([catalog EXCEPT !.defaults = @ \cup {g}])

MembershipDrifts ==
    \E o \in Drifting, r \in {"operations", "worker", "stale"} \cap Known :
        /\ o \notin Reach(catalog, r)
        /\ Drifts([catalog EXCEPT !.parents = @ \cup {<<o, r>>}])

OwnerDrifts ==
    \E o \in Drifting, t \in DriftTables \cap catalog.tables :
        Drifts([catalog EXCEPT !.owners = @ \cup {<<o, t>>}])

AttributeDrifts ==
    \E o \in Drifting : Drifts([catalog EXCEPT !.powers = @ \cup {o}])

(* The worker's role is renamed: its OID keeps all it has.                 *)
WorkerRenamed ==
    LET now(o) == IF o = "worker" THEN "stale" ELSE o
    IN  /\ "stale" \notin catalog.roles
        /\ Drifts([catalog EXCEPT
                !.roles = {now(o) : o \in @},
                !.acl = {<<now(g[1]), g[2], g[3]>> : g \in @},
                !.defaults = {now(g) : g \in @},
                !.parents = {<<now(e[1]), now(e[2])>> : e \in @},
                !.owners = {<<now(o[1]), o[2]>> : o \in @},
                !.powers = {now(o) : o \in @},
                !.policy = now(@)])

RolesDrift ==
    \/ GrantDrifts \/ DefaultDrifts \/ MembershipDrifts
    \/ OwnerDrifts \/ AttributeDrifts \/ WorkerRenamed

RolesNext ==
    \/ Provision \/ Migrate \/ Deploy \/ WorkAdvances \/ WorkSettles
    \/ \E p \in RpcProviders : OpenWork(p)
    \/ \E r \in Processes :
          \/ StartProcess(r) \/ StopProcess(r)
          \/ \E p \in RpcProviders : Reconfigure(r, p)

---------------------------------------------------------------------------
(* Properties.                                                             *)

RolesTypeOK ==
    LET Oids == GroupRoles \cup Logins \cup {"stale"}
    IN  /\ catalog.roles \subseteq Oids
        /\ \A g \in catalog.acl : g[1] \in catalog.roles \cup {"PUBLIC"}
        /\ \A e \in catalog.parents : {e[1], e[2]} \subseteq catalog.roles
        /\ catalog.policy \in {"worker", "stale"} \cap catalog.roles
        /\ openWork \in {NoWork} \cup
              [provider : RpcProviders, stage : {"armed", "signed", "sent"}]

(* A process that passed its startup validation could do exactly what the  *)
(* allowlist of its role says: nothing through PUBLIC, through another     *)
(* group, through its login or as an owner.  And whatever an earlier run    *)
(* of the live process signed under another provider is settled before the *)
(* live process runs again: it may meet an armament of another provider,   *)
(* which an operator wrote, but no transaction and no position of one      *)
(* (validateLiveExecutorStartup, validateLiveRecoveryStartup).             *)
StartedIsExact ==
    /\ \A r \in Processes :
          process[r] = "UP" => authority[r] = Expected[r]
    /\ process["live"] = "UP" /\ openWork # NoWork /\ openWork.stage # "armed"
          => openWork.provider = provider["live"]

(* As long as nobody has changed the catalog since the script committed,   *)
(* whatever it found: the roles it resets hold what the script lists and   *)
(* no more, on the tables it saw; those whose default rights it drops hold *)
(* no more on a table a later migration adds; PUBLIC holds nothing on the  *)
(* execution and venue tables; and the policies confine the role that has  *)
(* the worker's name, while a renamed one is left without rights, without  *)
(* groups and without members.                                             *)
ProvisionedIsClosed ==
    covered # {} =>
        LET on(S, tables) == {x \in RightsOf(catalog, S) : x[1] \in tables}
            own(r) == {x \in RightsOf(catalog, Reach(catalog, r)) : x[2] # "OWNER"}
        IN  /\ \A r \in {"listener", "worker", "live"} : own(r) = Allowlist[r]
            /\ \A r \in {"recovery", "operations", "readiness", "reader"} :
                  {x \in own(r) : x[1] \in covered} = Allowlist[r]
            /\ on({"PUBLIC"}, (ExecutionTables \cup {"venue"}) \cap covered) = {}
            /\ catalog.policy = "worker"
            /\ RightsOf(catalog, {"stale"}) = {}
            /\ \A e \in catalog.parents : "stale" \notin {e[1], e[2]}

=============================================================================
