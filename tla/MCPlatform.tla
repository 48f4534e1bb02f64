----------------------------- MODULE MCPlatform -----------------------------
(* One component of the platform at a time, as in MCServices: a behaviour is *)
(* one of the part chosen at the start, and the state of the others stays.   *)
EXTENDS ControlPlane, Marketplace, AgentConnectors, ToolPlane, AgentQuality

VARIABLE part

MCUploads == {[version |-> "v1", own |-> TRUE, signed |-> TRUE, clean |-> clean] : clean \in BOOLEAN}

Version(version, private, retired, risky, needs) ==
    [manifest |-> [package_id |-> "tool", version |-> version, publisher |-> "acme",
                   declared |-> TRUE, high_risk |-> risky, unsafe |-> FALSE, dependencies |-> needs],
     metadata |-> [private |-> private, retired |-> retired, high_risk_approved |-> retired]]

MCManifests == {Version(1, FALSE, FALSE, FALSE, {}), Version(1, TRUE, FALSE, FALSE, {}),
                Version(2, FALSE, FALSE, FALSE, {"tool"}), Version(2, FALSE, TRUE, TRUE, {})}

MCPolicies == {[allowed_actions |-> {}, maximum_risk |-> 1, require_veil |-> FALSE],
               [allowed_actions |-> {"send"}, maximum_risk |-> 0, require_veil |-> TRUE]}

MCAsks == {[action |-> "read", permitted |-> TRUE, sandboxed |-> TRUE],
           [action |-> "send", permitted |-> FALSE, sandboxed |-> FALSE]}

Kind(operation, approval, check, persist) ==
    [operation |-> operation, supported |-> TRUE,
     permission |-> [governance_approval_required |-> approval,
                     required_veil_policy_check |-> check,
                     result_persistence_allowed |-> persist,
                     allowed_output_classifications |-> {"internal"}]]

MCToolKinds == {Kind("search", FALSE, TRUE, TRUE), Kind("none", TRUE, FALSE, FALSE)}

MCConnectorKinds ==
    {[supported |-> TRUE, credential_ref |-> TRUE, policy |-> [allowed_operations |-> allowed]] :
        allowed \in {{"search"}, {}}}

Measure(version, metric, value) == [version |-> version, metric |-> metric, value |-> value]

MCMeasurements == {Measure("v1", "evaluation_score", 100), Measure("v1", "evaluation_score", 40),
                   Measure("v2", "user_rating", 200)}

\* Three good evaluations: the next one is compared with them.
MCHistory == {[time |-> i] @@ Measure("v1", "evaluation_score", 100) : i \in 1 .. 3}

MCOutputs == {[agent |-> good, expected |-> 2, found |-> IF good THEN 2 ELSE 0, outputs |-> 1,
               cases |-> 1, sensitive |-> FALSE] : good \in BOOLEAN}

MCFeedback == {[agent |-> TRUE, rating |-> 200, correction |-> TRUE, report |-> FALSE],
               [agent |-> FALSE, rating |-> -1, correction |-> TRUE, report |-> TRUE]}

\* One feedback at most is of the first kind, which records two metrics; its rating
\* overlaps that of an evaluation.
MCOneLong ==
    Cardinality({i \in DOMAIN feedback : feedback[i].agent /\ feedback[i].correction_id # 0})
    + Cardinality({t \in Threads : /\ call[t].op = "feedback" /\ call[t].at \in {"correction", "record"}
                                   /\ call[t].arg.agent /\ call[t].arg.correction}) <= 1

\* Requests that may begin in each part.  A version gets worse, or is compared,
\* over three requests; it recovers within two.
MCBudget == [plane |-> 4, market |-> 5, connectors |-> 6, tools |-> 4, intelligence |-> 3, recovery |-> 2,
             quality |-> 2]

MCRecovering == \E t \in Threads : Refreshing(t) /\ call[t].id[1].value = 100

MCInit ==
    /\ part \in DOMAIN MCBudget
    /\ PlaneInit /\ MarketInit /\ ConnectorInit /\ ToolInit /\ IntelInit /\ QualityInit
    /\ call = [t \in Threads |-> Idle]
    /\ left = MCBudget[part]

PlanePart ==
    /\ part = "plane"
    /\ PlaneNext
    /\ UNCHANGED <<part, marketState, connectorState, toolState, qualityState>>

MarketPart ==
    /\ part = "market"
    /\ MarketNext
    /\ UNCHANGED <<part, planeState, connectorState, toolState, qualityState>>

ConnectorPart ==
    /\ part = "connectors"
    /\ ConnectorNext
    /\ UNCHANGED <<part, planeState, marketState, toolState, qualityState>>

ToolPart ==
    /\ part = "tools"
    /\ ToolNext
    /\ UNCHANGED <<part, planeState, marketState, connectorState, qualityState>>

IntelligencePart ==
    /\ part \in {"intelligence", "recovery"}
    /\ IntelNext
    /\ part = "intelligence" => ~ MCRecovering'
    /\ UNCHANGED <<part, planeState, marketState, connectorState, toolState, rateState>>

QualityPart ==
    /\ part = "quality"
    /\ QualityNext
    /\ MCOneLong'
    /\ UNCHANGED <<part, planeState, marketState, connectorState, toolState>>

MCNext == PlanePart \/ MarketPart \/ ConnectorPart \/ ToolPart \/ IntelligencePart \/ QualityPart

MCSpec ==
    MCInit /\ [][MCNext]_<<part, requestVars, planeState, marketState, connectorState, toolState, qualityState>>
=============================================================================
