-------------------------- MODULE AgentConnectors --------------------------
(***************************************************************************)
(* The secure connector control plane (src/agent_connectors and its        *)
(* routes): one tenant's connector with its versioned manifests, its       *)
(* enablement and policy, the credential and its secret, and executions,   *)
(* which read all of these one after another, ask the VEIL service and     *)
(* call the adapter.  Rows are read and written one at a time; secrets     *)
(* are kept in memory.                                                     *)
(***************************************************************************)
EXTENDS Requests, Sequences, FiniteSets

CONSTANTS
    Policies,            \* policies an administrator may enable the connector with
    Asks,                \* what agents ask: the action, its payload, their permission
    RiskLevel,           \* risk_level of the manifests, RISK_ORDER
    RequestsPerMinute,   \* rate_limits["requests_per_minute"] of the manifests
    MaxVersions,         \* bound: manifest versions that are registered
    MaxSecrets,          \* bound: secrets that are stored
    Production           \* the production flag of the service

ConnectorExecutionPolicy ==
    [allowed_actions : SUBSET {a.action : a \in Asks}, maximum_risk : 0 .. 3, require_veil : BOOLEAN]

ASSUME PoliciesAssumption == Policies \subseteq ConnectorExecutionPolicy

VARIABLES
    manifests,   \* enterprise_connector_manifests: the versions
    latest,      \* enterprise_connector_latest, 0 when there is none
    enablement,  \* enterprise_connector_enablement
    policies,    \* enterprise_connector_policies: the policy, or Absent
    credential,  \* connector_credentials: the row, or Absent
    secret,      \* _local_secrets: number of the secret, 0 when there is none
    stored,      \* history: number of secrets that were stored
    recent,      \* executions stored in the minute that is followed
    callsMetered,     \* metering records of executions
    acted,       \* history: calls of the adapter
    vaultPast    \* history: what may leave the secret and its row apart

connectorState == <<manifests, latest, enablement, policies, credential, secret, stored,
                    recent, callsMetered, acted, vaultPast>>

connectorVars == <<requestVars, connectorState>>

Absent == [none |-> TRUE]

ConnectorInit ==
    /\ manifests = {} /\ latest = 0
    /\ enablement = Absent /\ policies = Absent
    /\ credential = Absent /\ secret = 0 /\ stored = 0
    /\ recent = 0 /\ callsMetered = 0 /\ acted = 0
    /\ vaultPast = {}

Use(op, place, copy, arg) == [op |-> op, at |-> place, id |-> "connector", copy |-> copy, arg |-> arg]

Using(t, op, place) == call[t].op = op /\ At(t, place)

ConnectorOps == {"register", "enable", "disable", "create", "rotate_secret", "revoke", "execute"}

-----------------------------------------------------------------------------
\* The registry

\* The stored record has fields the manifest has not, so a version that exists
\* is always refused.
register(t) ==
    /\ Cardinality(manifests) < MaxVersions
    /\ Begin(t, Use("register", "put", "none", Cardinality(manifests) + 1))
    /\ UNCHANGED connectorState

put_manifest(t) ==
    /\ Using(t, "register", "put")
    /\ manifests' = manifests \cup {call[t].arg}
    /\ Step(t, "latest")
    /\ UNCHANGED <<latest, enablement, policies, credential, secret, stored, recent, callsMetered, acted, vaultPast>>

put_latest(t) ==
    /\ Using(t, "register", "latest")
    /\ latest' = call[t].arg
    /\ Done(t)
    /\ UNCHANGED <<manifests, enablement, policies, credential, secret, stored, recent, callsMetered, acted, vaultPast>>

\* The credential and the manifest exist; the policy is stored, then the state.
enable(t, policy) ==
    /\ credential # Absent
    /\ latest # 0
    /\ Begin(t, Use("enable", "policy", policy, latest))
    /\ UNCHANGED connectorState


put_policy(t) ==
    /\ Using(t, "enable", "policy")
    /\ policies' = call[t].copy
    /\ Step(t, "state")
    /\ UNCHANGED <<manifests, latest, enablement, credential, secret, stored, recent, callsMetered, acted, vaultPast>>

put_enabled(t) ==
    /\ Using(t, "enable", "state")
    /\ enablement' = [enabled |-> TRUE, version |-> call[t].arg]
    /\ Done(t)
    /\ UNCHANGED <<manifests, latest, policies, credential, secret, stored, recent, callsMetered, acted, vaultPast>>

disable(t) ==
    /\ enablement # Absent
    /\ Begin(t, Use("disable", "state", [enablement EXCEPT !.enabled = FALSE], "none"))
    /\ UNCHANGED connectorState

put_disabled(t) ==
    /\ Using(t, "disable", "state")
    /\ enablement' = call[t].copy
    /\ Done(t)
    /\ UNCHANGED <<manifests, latest, policies, credential, secret, stored, recent, callsMetered, acted, vaultPast>>

-----------------------------------------------------------------------------
\* The vault: the secret in memory first, then its row

VaultOps == {"create", "rotate_secret", "revoke"}

MarkVault(t) ==
    vaultPast' = vaultPast \cup IF \E u \in Others(t) : call[u].op \in VaultOps THEN {"overlap"} ELSE {}

\* One credential is followed.
create(t) ==
    /\ credential = Absent /\ \A u \in Others(t) : call[u].op # "create"
    /\ stored < MaxSecrets
    /\ Begin(t, Use("create", "secret", [version |-> 1, status |-> "active", secret |-> 0], "none"))
    /\ MarkVault(t)
    /\ UNCHANGED <<manifests, latest, enablement, policies, credential, secret, stored, recent, callsMetered, acted>>

\* A revoked credential that is rotated is active again.
rotate(t) ==
    /\ credential # Absent
    /\ stored < MaxSecrets
    /\ Begin(t, Use("rotate_secret", "secret",
                    [credential EXCEPT !.version = @ + 1, !.status = "active"], "none"))
    /\ MarkVault(t)
    /\ UNCHANGED <<manifests, latest, enablement, policies, credential, secret, stored, recent, callsMetered, acted>>

revoke(t) ==
    /\ credential # Absent
    /\ Begin(t, Use("revoke", "secret", [credential EXCEPT !.status = "revoked"], "none"))
    /\ MarkVault(t)
    /\ UNCHANGED <<manifests, latest, enablement, policies, credential, secret, stored, recent, callsMetered, acted>>

_store_secret(t) ==
    /\ call[t].op \in {"create", "rotate_secret"} /\ At(t, "secret")
    /\ stored' = stored + 1
    /\ secret' = stored + 1
    /\ Goto(t, [call[t] EXCEPT !.at = "row", !.copy.secret = stored + 1])
    /\ UNCHANGED <<manifests, latest, enablement, policies, credential, recent, callsMetered, acted, vaultPast>>

drop_secret(t) ==
    /\ Using(t, "revoke", "secret")
    /\ secret' = 0
    /\ Step(t, "row")
    /\ UNCHANGED <<manifests, latest, enablement, policies, credential, stored, recent, callsMetered, acted, vaultPast>>

put_credential(t) ==
    /\ call[t].op \in VaultOps /\ At(t, "row")
    /\ credential' = call[t].copy
    /\ Done(t)
    /\ UNCHANGED <<manifests, latest, enablement, policies, secret, stored, recent, callsMetered, acted, vaultPast>>

-----------------------------------------------------------------------------
\* An execution.  Whatever raises is recorded as a denial and ends the request.

Deny(t) == Done(t) /\ UNCHANGED connectorState

Pass(t, place) == Step(t, place) /\ UNCHANGED connectorState

\* registry.state: enabled, with the version that was enabled
execute(t, ask) ==
    /\ enablement # Absent
    /\ enablement.enabled
    /\ Begin(t, Use("execute", "policy", enablement, ask))
    /\ UNCHANGED connectorState

\* permission_for the action is among the permissions of the agent.
require_permissions(ask) == ask.permitted

\* An empty list of actions allows every action.
decide(policy, ask) ==
    /\ policy.allowed_actions = {} \/ ask.action \in policy.allowed_actions
    /\ RiskLevel <= policy.maximum_risk

\* The sandbox: size, credential material, method, domain and timeout
validate_request(ask) == ask.sandboxed

\* The manifest, the permission of the action, the credential, then the policy
check_policy(t) ==
    /\ Using(t, "execute", "policy")
    /\ IF /\ call[t].copy.version \in manifests /\ require_permissions(call[t].arg)
          /\ credential # Absent
          /\ policies # Absent /\ decide(policies, call[t].arg)
       THEN /\ Goto(t, [call[t] EXCEPT !.at = "rate", !.copy = policies])
            /\ UNCHANGED connectorState
       ELSE Deny(t)

_enforce_rate_limit(t) ==
    /\ Using(t, "execute", "rate")
    /\ IF recent < RequestsPerMinute /\ validate_request(call[t].arg) THEN Pass(t, "veil") ELSE Deny(t)

\* VEIL answers, denies, or cannot be reached; the sandbox checks what it returns.
_veil_authorize_and_sanitize(t, answer) ==
    /\ Using(t, "execute", "veil")
    /\ IF answer = "allowed" \/ (answer = "unavailable" /\ ~ Production /\ ~ call[t].copy.require_veil)
       THEN Pass(t, "resolve") ELSE Deny(t)

\* CredentialVault.resolve: the row is active, then the secret is in memory.
resolve_credential(t) ==
    /\ Using(t, "execute", "resolve")
    /\ IF credential # Absent /\ credential.status = "active" THEN Pass(t, "adapter") ELSE Deny(t)

adapter(t) ==
    /\ Using(t, "execute", "adapter")
    /\ IF secret = 0 THEN Deny(t)
       ELSE /\ acted' = acted + 1
            /\ Step(t, "audit")
            /\ UNCHANGED <<manifests, latest, enablement, policies, credential, secret, stored,
                           recent, callsMetered, vaultPast>>

\* A response that is refused or an audit call that fails is a failure, though
\* the adapter has acted.
_veil_audit(t, ok) ==
    /\ Using(t, "execute", "audit")
    /\ IF ok THEN Pass(t, "put") ELSE Deny(t)

put_execution(t) ==
    /\ Using(t, "execute", "put")
    /\ recent' = recent + 1
    /\ Step(t, "meter")
    /\ UNCHANGED <<manifests, latest, enablement, policies, credential, secret, stored, callsMetered, acted, vaultPast>>

meter_execution(t) ==
    /\ Using(t, "execute", "meter")
    /\ callsMetered' = callsMetered + 1
    /\ Done(t)
    /\ UNCHANGED <<manifests, latest, enablement, policies, credential, secret, stored, recent, acted, vaultPast>>

-----------------------------------------------------------------------------
connector_routes(t) ==
    \/ register(t)
    \/ \E p \in Policies : enable(t, p)
    \/ disable(t)
    \/ \E a \in Asks : execute(t, a)

credential_routes(t) == create(t) \/ rotate(t) \/ revoke(t)

\* The server restarts: requests and the secrets in memory are gone.
ConnectorRestart ==
    /\ left > 0 /\ left' = left - 1
    /\ call' = [t \in Threads |-> IF call[t].op \in ConnectorOps THEN Idle ELSE call[t]]
    /\ secret' = 0
    /\ vaultPast' = vaultPast \cup {"restart"}
    /\ UNCHANGED <<manifests, latest, enablement, policies, credential, stored, recent, callsMetered, acted>>

ConnectorNext ==
    \/ \E t \in Threads :
        \/ connector_routes(t) \/ credential_routes(t)
        \/ put_manifest(t) \/ put_latest(t)
        \/ put_policy(t) \/ put_enabled(t) \/ put_disabled(t)
        \/ _store_secret(t) \/ drop_secret(t) \/ put_credential(t)
        \/ check_policy(t) \/ _enforce_rate_limit(t)
        \/ \E a \in {"allowed", "denied", "unavailable"} : _veil_authorize_and_sanitize(t, a)
        \/ resolve_credential(t) \/ adapter(t)
        \/ \E ok \in BOOLEAN : _veil_audit(t, ok)
        \/ put_execution(t) \/ meter_execution(t)
    \/ ConnectorRestart

ConnectorSpec == RequestsInit /\ ConnectorInit /\ [][ConnectorNext]_connectorVars

-----------------------------------------------------------------------------
\* A connector that is enabled has the policy and the manifest it is executed
\* under, and the latest version is one that is stored, wherever the server
\* stops: each is written before what refers to it.  Requests that pass the rate
\* limit at the same time exceed it by less than their number, and an execution
\* is stored only after the adapter was called and metered only after it is stored.
EnabledIsComplete ==
    /\ latest # 0 => latest \in manifests
    /\ enablement # Absent /\ enablement.enabled =>
         /\ policies # Absent
         /\ enablement.version \in manifests
         /\ credential # Absent
    /\ recent < RequestsPerMinute + Cardinality(Threads)
    /\ callsMetered <= recent /\ recent <= acted

\* Between requests on it, the vault holds the secret that belongs to the row of an
\* active credential and none for a revoked one: a call of the adapter never uses
\* the secret of a credential that was revoked before the call looked it up.  The
\* exceptions are requests on the vault that overlapped and a restart.
VaultAgrees ==
    \/ vaultPast # {}
    \/ \E t \in Threads : call[t].op \in VaultOps
    \/ credential = Absent
    \/ secret = IF credential.status = "active" THEN credential.secret ELSE 0

=============================================================================
