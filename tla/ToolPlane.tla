----------------------------- MODULE ToolPlane -----------------------------
(***************************************************************************)
(* The governed tools (src/agentfabric/tools), the connectors they route   *)
(* to (src/agentfabric/connectors) and their routes: one tool and one      *)
(* connector of a tenant, which may be registered again while they are     *)
(* used.  An operation asks the VEIL service, which is external, stores    *)
(* its result, and submits a job to the cloud runtime.  The result of a    *)
(* connector operation is stored under the connector, the operation and    *)
(* the current second.                                                     *)
(***************************************************************************)
EXTENDS Requests, FiniteSets

CONSTANTS
    ToolKinds,        \* manifests and permissions a tool may be registered with
    ConnectorKinds,   \* policies a connector may be registered with
    Operations,       \* sync, search, fetch, webhook
    MaxSeconds        \* bound: seconds that pass

\* Rows as they are registered
ToolPermission ==
    [governance_approval_required : BOOLEAN, required_veil_policy_check : BOOLEAN,
     result_persistence_allowed : BOOLEAN,
     allowed_output_classifications : SUBSET {"public", "internal", "restricted"}]

ConnectorPolicy == [allowed_operations : SUBSET Operations]

ASSUME KindsAssumption ==
    /\ \A k \in ToolKinds : k.permission \in ToolPermission
    /\ \A c \in ConnectorKinds : c.policy \in ConnectorPolicy

VARIABLES
    tool,              \* tools: the row, or NoRow
    connector,         \* connectors: the row, or NoRow
    second,            \* the clock
    connectorResults,  \* connector_results: key -> number of the execution, or 0
    toolResults,       \* tool_results
    veil,              \* history: what VEIL allowed and what it recorded, per execution
    jobs,              \* jobs submitted, by execution
    meteredTools,      \* metering records of tool executions
    serial,            \* executions so far
    collided           \* history: result keys that were written more than once

toolState == <<tool, connector, second, connectorResults, toolResults, veil, jobs,
               meteredTools, serial, collided>>

toolVars == <<requestVars, toolState>>

NoRow == [none |-> TRUE]

ToolInit ==
    /\ tool = NoRow /\ connector = NoRow
    /\ second = 0
    /\ connectorResults = [k \in Operations \X (0 .. MaxSeconds) |-> 0]
    /\ toolResults = {} /\ veil = {} /\ jobs = {} /\ meteredTools = {}
    /\ serial = 0
    /\ collided = {}

\* id: the number of the execution; copy: the tool; arg: the operation, then the key
Execution(op, place, copy, arg) ==
    [op |-> op, at |-> place, id |-> serial + 1, copy |-> copy, arg |-> arg]

ToolOps == {"connector_operation", "tool_execute"}

Within(t, ops, place) == call[t].op \in ops /\ At(t, place)

-----------------------------------------------------------------------------
\* Registration: validated, then stored over an earlier row.

\* A supported type, and a reference to the credential instead of its value
connector_validate(c) == c.supported /\ c.credential_ref

tool_validate(k) == k.supported

register_connector(t, c) ==
    /\ Begin(t, Idle)
    /\ connector_validate(c)
    /\ connector' = c
    /\ UNCHANGED <<tool, second, connectorResults, toolResults, veil, jobs, meteredTools, serial, collided>>

register_tool(t, k) ==
    /\ Begin(t, Idle)
    /\ tool_validate(k)
    /\ tool' = k
    /\ UNCHANGED <<connector, second, connectorResults, toolResults, veil, jobs, meteredTools, serial, collided>>

\* ConnectorPolicy.allows
allows(c, operation) == c # NoRow /\ operation \in c.policy.allowed_operations

-----------------------------------------------------------------------------
\* ConnectorRegistry.execute, for a route or for a tool

_connector_operation(t, operation) ==
    /\ allows(connector, operation)
    /\ Begin(t, Execution("connector_operation", "check", "none", operation))
    /\ serial' = serial + 1
    /\ UNCHANGED <<tool, connector, second, connectorResults, toolResults, veil, jobs, meteredTools, collided>>

\* The tool's own gates come first: the approval, then VEIL.
_enforce(t, approved) ==
    /\ tool # NoRow
    /\ tool.permission.governance_approval_required => approved
    /\ Begin(t, Execution("tool_execute", IF tool.permission.required_veil_policy_check THEN "policy" ELSE "route",
                          tool, "none"))
    /\ serial' = serial + 1
    /\ UNCHANGED <<tool, connector, second, connectorResults, toolResults, veil, jobs, meteredTools, collided>>

\* VEIL, external: it allows or denies, and may raise; then the request ends.
Ask(t, what, next) ==
    \/ /\ veil' = veil \cup {<<call[t].id, what>>}
       /\ Step(t, next)
       /\ UNCHANGED <<tool, connector, second, connectorResults, toolResults, jobs, meteredTools, serial, collided>>
    \/ Done(t) /\ UNCHANGED toolState

tool_check_policy(t) ==
    /\ Within(t, {"tool_execute"}, "policy")
    /\ Ask(t, "tool allowed", "route")

\* A tool of connector_search or connector_fetch goes to the connector.
route(t) ==
    /\ Within(t, {"tool_execute"}, "route")
    /\ LET operation == call[t].copy.operation
       IN  IF operation = "none" THEN Step(t, "sanitize")
           ELSE IF allows(connector, operation)
           THEN Goto(t, [call[t] EXCEPT !.at = "check", !.arg = operation])
           ELSE Done(t)
    /\ UNCHANGED toolState

\* Mutant of connector_check_policy: the audit event is left out.
SkipAudit(t) ==
    /\ Within(t, ToolOps, "check")
    /\ Ask(t, "connector allowed", "result")

connector_check_policy(t) ==
    /\ Within(t, ToolOps, "check")
    /\ Ask(t, "connector allowed", "record")

connector_audit_event(t) ==
    /\ Within(t, ToolOps, "record")
    /\ Ask(t, "connector audited", "result")

\* ConnectorResult.as_dict: the key holds the time in whole seconds.
result_id(operation) == <<operation, second>>

put_connector_result(t) ==
    /\ Within(t, ToolOps, "result")
    /\ LET key == result_id(call[t].arg)
       IN  /\ connectorResults' = [connectorResults EXCEPT ![key] = call[t].id]
           /\ collided' = collided \cup IF connectorResults[key] # 0 THEN {key} ELSE {}
           /\ Goto(t, [call[t] EXCEPT !.arg = key,
                                      !.at = IF call[t].op = "tool_execute" THEN "sanitize" ELSE "job"])
    /\ UNCHANGED <<tool, connector, second, toolResults, veil, jobs, meteredTools, serial>>

\* create_job reads the connector and its policy again.
create_job(t) ==
    /\ Within(t, {"connector_operation"}, "job")
    /\ jobs' = jobs \cup IF allows(connector, call[t].arg[1]) THEN {call[t].id} ELSE {}
    /\ Done(t)
    /\ UNCHANGED <<tool, connector, second, connectorResults, toolResults, veil, meteredTools, serial, collided>>

-----------------------------------------------------------------------------
\* The rest of ToolRegistry.execute

sanitize_output(t, classification) ==
    /\ Within(t, {"tool_execute"}, "sanitize")
    /\ IF classification \in call[t].copy.permission.allowed_output_classifications
       THEN Step(t, "audit") ELSE Done(t)
    /\ UNCHANGED toolState

tool_audit_event(t) ==
    /\ Within(t, {"tool_execute"}, "audit")
    /\ Ask(t, "tool audited", "result_row")

put_tool_result(t) ==
    /\ Within(t, {"tool_execute"}, "result_row")
    /\ toolResults' = toolResults \cup
         IF call[t].copy.permission.result_persistence_allowed
         THEN {[execution |-> call[t].id, connector_result_id |-> call[t].arg, kind |-> call[t].copy]} ELSE {}
    /\ Step(t, "submit")
    /\ UNCHANGED <<tool, connector, second, connectorResults, veil, jobs, meteredTools, serial, collided>>

_create_job(t) ==
    /\ Within(t, {"tool_execute"}, "submit")
    /\ jobs' = jobs \cup {call[t].id}
    /\ Step(t, "meter")
    /\ UNCHANGED <<tool, connector, second, connectorResults, toolResults, veil, meteredTools, serial, collided>>

meter_tool(t) ==
    /\ Within(t, {"tool_execute"}, "meter")
    /\ meteredTools' = meteredTools \cup {call[t].id}
    /\ Done(t)
    /\ UNCHANGED <<tool, connector, second, connectorResults, toolResults, veil, jobs, serial, collided>>

-----------------------------------------------------------------------------
legacy_connector_routes(t) ==
    \/ \E c \in ConnectorKinds : register_connector(t, c)
    \/ \E o \in Operations : _connector_operation(t, o)

tool_routes(t) ==
    \/ \E k \in ToolKinds : register_tool(t, k)
    \/ \E approved \in BOOLEAN : _enforce(t, approved)

Tick ==
    /\ second < MaxSeconds
    /\ second' = second + 1
    /\ UNCHANGED <<requestVars, tool, connector, connectorResults, toolResults, veil, jobs,
                   meteredTools, serial, collided>>

ToolCrash(t) ==
    /\ call[t].op \in ToolOps
    /\ call' = [call EXCEPT ![t] = Idle]
    /\ UNCHANGED <<left, toolState>>

ToolNext ==
    \/ \E t \in Threads :
        \/ legacy_connector_routes(t) \/ tool_routes(t)
        \/ tool_check_policy(t) \/ route(t)
        \/ connector_check_policy(t) \/ connector_audit_event(t) \/ put_connector_result(t) \/ create_job(t)
        \/ \E c \in {"internal", "restricted"} : sanitize_output(t, c)
        \/ tool_audit_event(t) \/ put_tool_result(t) \/ _create_job(t) \/ meter_tool(t)
        \/ ToolCrash(t)
    \/ Tick

ToolSpec == RequestsInit /\ ToolInit /\ [][ToolNext]_toolVars

-----------------------------------------------------------------------------
\* Everything a tool or a connector leaves behind was governed: a stored result and
\* a submitted job of an execution have the audit event of that execution, and the
\* permission of VEIL where the tool as it was read asks for it, however the tool
\* and the connector are registered again meanwhile; what is metered has its job.
\* The connector result a tool result names is the one of its own execution, unless
\* another operation of the same connector was stored in the same second.
GovernedExecution ==
    /\ \A r \in toolResults :
         /\ <<r.execution, "tool audited">> \in veil
         /\ r.kind.permission.required_veil_policy_check => <<r.execution, "tool allowed">> \in veil
         /\ r.kind.operation # "none" =>
              \/ connectorResults[r.connector_result_id] = r.execution
              \/ r.connector_result_id \in collided
    /\ \A k \in DOMAIN connectorResults :
         connectorResults[k] # 0 =>
            {<<connectorResults[k], "connector allowed">>, <<connectorResults[k], "connector audited">>}
               \subseteq veil
    /\ \A j \in jobs : <<j, "tool audited">> \in veil \/ <<j, "connector audited">> \in veil
    /\ meteredTools \subseteq jobs
=============================================================================
