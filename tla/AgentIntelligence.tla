------------------------- MODULE AgentIntelligence -------------------------
(***************************************************************************)
(* Operational intelligence (src/agent_observability and its routes): one  *)
(* agent of a tenant, whose metrics are recorded per version.  Recording   *)
(* one refreshes the health, the drift and the anomalies of the version,   *)
(* its degradation and a recommendation, each of them read and written on  *)
(* its own without a lock.  Values are in hundredths and their means in    *)
(* sixtieths of that, which is exact for up to six values.                 *)
(***************************************************************************)
EXTENDS Requests, Sequences, FiniteSets, FiniteSetsExt, SequencesExt

CONSTANTS
    Measurements,   \* metrics that may be recorded: version, metric, value
    History         \* metrics that were recorded before, one after another

VARIABLES
    metrics,          \* agent_metrics, each with the time it was taken
    health,           \* agent_health_snapshots
    announced,        \* last agent.health.changed event, per version
    drifts,           \* agent_drift_events: what tells two of them apart
    anomalies,        \* agent_anomaly_records
    degradations,     \* agent_degradations, per version
    recommendations,  \* agent_recommendations
    comparisons,      \* agent_version_comparisons
    times,            \* timestamps given to metrics, snapshots and recommendations
    blurred,          \* history: versions whose last refreshes overlapped or stopped
    overlapped        \* history: some refreshes have overlapped or stopped

intelState == <<metrics, health, announced, drifts, anomalies, degradations, recommendations,
                comparisons, times, blurred, overlapped>>

intelVars == <<requestVars, intelState>>

Versions == {m.version : m \in Measurements \cup History}

-----------------------------------------------------------------------------
\* Metrics

One == 6000          \* 1.0

SUPPORTED_METRICS ==
    {"latency", "token_usage", "cost", "tool_failures", "retries", "hallucination_rate",
     "evaluation_score", "user_rating", "correction_frequency", "reliability"}

LOWER_IS_BETTER ==
    {"latency", "cost", "tool_failures", "retries", "hallucination_rate", "correction_frequency", "token_usage"}

metric_validate(m) ==
    /\ m.metric \in SUPPORTED_METRICS
    /\ m.value >= 0
    /\ m.metric \in {"hallucination_rate", "correction_frequency", "reliability", "evaluation_score"}
         => m.value <= 100
    /\ m.metric = "user_rating" => m.value <= 500

Names(ms) == {m.metric : m \in ms}

\* The values of one metric, oldest first
Values(ms, name) ==
    LET those == {m \in ms : m.metric = name}
        place(m) == Cardinality({n \in those : n.time <= m.time})
    IN  [i \in 1 .. Cardinality(those) |-> (CHOOSE m \in those : place(m) = i).value]

Total(values) == FoldSeq(LAMBDA v, sum : v + sum, 0, values)

Mean(values) == (60 * Total(values)) \div Len(values)

Average(ms, name, default) == IF Values(ms, name) = <<>> THEN default ELSE Mean(Values(ms, name))

Lower(a, b) == IF a < b THEN a ELSE b
Higher(a, b) == IF a < b THEN b ELSE a

-----------------------------------------------------------------------------
\* Health

_lower_is_better_score(value, warning, degraded, critical) ==
    IF value <= warning * One THEN One
    ELSE IF value <= degraded * One THEN (3 * One) \div 4
    ELSE IF value <= critical * One THEN One \div 2
    ELSE One \div 5

\* The weakest dimension counts as well as the average.
_health_status(score, weakest) ==
    LET below(s, w) == 100 * score < s * One \/ 100 * weakest < w * One
    IN  IF below(45, 25) THEN "critical"
        ELSE IF below(65, 60) THEN "degraded"
        ELSE IF below(85, 85) THEN "warning"
        ELSE "healthy"

\* A snapshot of the five dimensions
Snapshot(quality, latency, reliability, cost, feedback) ==
    [status |-> _health_status((quality + latency + reliability + cost + feedback) \div 5,
                               Min({quality, latency, reliability, cost, feedback})),
     quality |-> quality, feedback |-> feedback]

compute(ms) ==
    LET quality == Higher(0, Lower(Average(ms, "evaluation_score", One), One - Average(ms, "hallucination_rate", 0)))
        latency == _lower_is_better_score(Average(ms, "latency", 0), 1000, 2500, 5000)
        failing == (2 * Average(ms, "tool_failures", 0) + Average(ms, "retries", 0)) \div 10
        reliability == Lower(Average(ms, "reliability", One), One - Lower(One, failing))
        cost == _lower_is_better_score(Average(ms, "cost", 0), 1, 5, 20)
        feedback == Higher(0, Lower(Average(ms, "user_rating", 5 * One) \div 5,
                                    One - Average(ms, "correction_frequency", 0)))
    IN  Snapshot(quality, latency, reliability, cost, feedback)

-----------------------------------------------------------------------------
\* Drift: the last value against the mean of the first three

_deterioration(name, baseline, current) ==
    IF name \in LOWER_IS_BETTER THEN current - baseline ELSE baseline - current

_severity(change, denominator) ==
    LET reached == {i \in 1 .. 4 : 10 * change >= <<1, 2, 3, 5>>[i] * denominator}
    IN  <<"none", "minor", "moderate", "major", "critical">>[1 + Max({0} \cup reached)]

drift_detect(ms) ==
    LET found(name) ==
            LET values == Values(ms, name)
                baseline == Mean(SubSeq(values, 1, 3))
                current == 60 * values[Len(values)]
            IN  [metric |-> name, baseline |-> baseline, current |-> current,
                 severity |-> _severity(_deterioration(name, baseline, current), Higher(baseline, One \div 100))]
    IN  {d \in {found(name) : name \in {n \in Names(ms) : Len(Values(ms, n)) >= 4}} :
            d.severity # "none"}

\* Anomalies: the last value is three deviations or more from those before it.
anomaly_detect(ms) ==
    LET odd(name) ==
            LET values == Values(ms, name)
                before == Front(values)
                n == Len(before)
                distance == _deterioration(name, Total(before), n * values[Len(values)])
                variance == n * Total([i \in DOMAIN before |-> before[i] * before[i]]) - Total(before) * Total(before)
            IN  /\ distance > 0
                /\ distance * distance >= 9 * variance
                /\ 10 * distance >= 3 * Total(before)
                /\ distance >= 3 * n
    IN  {[metric |-> name, expected |-> Mean(Front(Values(ms, name))), observed |-> 60 * Last(Values(ms, name))] :
            name \in {m \in Names(ms) : Len(Values(ms, m)) > 3 /\ odd(m)}}

-----------------------------------------------------------------------------
\* Degradation and recommendation

ORDER == [none |-> 0, minor |-> 1, moderate |-> 2, major |-> 3, critical |-> 4]

assess(status, found) ==
    LET floor == [healthy |-> "none", warning |-> "minor", degraded |-> "major", critical |-> "critical"][status]
        levels == {floor} \cup {d.severity : d \in found}
    IN  CHOOSE level \in levels : \A other \in levels : ORDER[other] <= ORDER[level]

generate(snapshot, level, found, odd) ==
    IF level \in {"critical", "major"} THEN "rollback"
    ELSE IF 10 * snapshot.quality < 8 * One \/ 10 * snapshot.feedback < 8 * One THEN "retrain"
    ELSE IF snapshot.status = "healthy" /\ found = {} /\ odd = {} THEN "publish"
    ELSE "archive"

-----------------------------------------------------------------------------
\* Reading the records

list_metrics(version) == {m \in metrics : m.version = version}

Recorded(version) == {h \in health : h.version = version}

\* The snapshot with the latest timestamp
latest_health(version) == CHOOSE h \in Recorded(version) : \A g \in Recorded(version) : g.time <= h.time

previous_status(version) == IF Recorded(version) = {} THEN "none" ELSE latest_health(version).status

\* The one created last
latest_recommendation ==
    CHOOSE r \in recommendations : \A s \in recommendations : s.time <= r.time

\* What refreshes of the metrics one after another leave
Refreshed(ms) ==
    LET found == drift_detect(ms)
        advised(snapshot, level) ==
            [health |-> snapshot, level |-> level, kind |-> generate(snapshot, level, found, anomaly_detect(ms))]
    IN  advised(compute(ms), assess(compute(ms).status, found))

\* The history is of one version, and its values are equal: it left one recommendation.
ASSUME HistoryAssumption ==
    /\ Cardinality({m.version : m \in History}) <= 1
    /\ \A m, n \in History : m.metric = n.metric => m.value = n.value
    /\ {m.time : m \in History} = 1 .. Cardinality(History)

\* Nothing but the history, and what it left
InitLeftBy(known, last) ==
    /\ metrics = History
    /\ health = {[version |-> v, time |-> 0] @@ last.health : v \in known}
    /\ announced = [v \in Versions |-> IF v \in known THEN last.health.status ELSE "none"]
    /\ drifts = <<>> /\ anomalies = <<>>
    /\ degradations = [v \in Versions |-> IF v \in known THEN last.level ELSE "unknown"]
    /\ recommendations = {[version |-> v, time |-> 0, kind |-> last.kind, status |-> "pending"] : v \in known}
    /\ comparisons = {}
    /\ times = [metric |-> Cardinality(History), health |-> 0, advice |-> 0]
    /\ blurred = {} /\ overlapped = FALSE

IntelInit == InitLeftBy({m.version : m \in History}, Refreshed(History))

-----------------------------------------------------------------------------
\* Recording metrics, one after another: id holds those that are left, the first
\* of them with its timestamp; copy the metrics that were listed; arg the snapshot
\* and what is still to be stored.

RefreshStages ==
    {"metric", "list", "compute", "snapshot", "announce", "drift", "put_drift", "anomaly",
     "put_anomaly", "degrade", "advise", "put_advice"}

Refreshing(t) == call[t].at \in RefreshStages

VersionOf(t) == call[t].id[1].version

\* The next request on the agent begins, as r
Taken(t, r) ==
    LET others == {u \in Others(t) : Refreshing(u)}
        version == r.id[1].version
    IN  /\ times' = [times EXCEPT !.metric = @ + 1]
        /\ blurred' = IF others = {} THEN blurred \ {version}
                      ELSE blurred \cup {version} \cup {VersionOf(u) : u \in others}
        /\ overlapped' = (overlapped \/ others # {})
        /\ UNCHANGED <<metrics, health, announced, drifts, anomalies, degradations, recommendations, comparisons>>

Recording(op, ms) ==
    [op |-> op, at |-> "metric", copy |-> {}, arg |-> "none",
     id |-> <<[time |-> times.metric + 1] @@ Head(ms)>> \o Tail(ms)]

record_metric(t, m) ==
    /\ metric_validate(m)
    /\ LET r == Recording("record_metric", <<m>>) IN Begin(t, r) /\ Taken(t, r)

put_metric(t) ==
    /\ At(t, "metric")
    /\ metrics' = metrics \cup {Head(call[t].id)}
    /\ Step(t, "list")
    /\ UNCHANGED <<health, announced, drifts, anomalies, degradations, recommendations, comparisons,
                   times, blurred, overlapped>>

refresh(t) ==
    /\ At(t, "list")
    /\ Goto(t, [call[t] EXCEPT !.at = "compute", !.copy = list_metrics(VersionOf(t))])
    /\ UNCHANGED intelState

compute_health(t) ==
    /\ At(t, "compute")
    /\ times' = [times EXCEPT !.health = @ + 1]
    /\ Goto(t, [call[t] EXCEPT !.at = "snapshot",
                  !.arg = [snapshot |-> [version |-> VersionOf(t), time |-> times.health + 1] @@ compute(call[t].copy),
                           previous |-> previous_status(VersionOf(t))]])
    /\ UNCHANGED <<metrics, health, announced, drifts, anomalies, degradations, recommendations, comparisons,
                   blurred, overlapped>>

put_snapshot(t) ==
    /\ At(t, "snapshot")
    /\ health' = health \cup {call[t].arg.snapshot}
    /\ Step(t, IF call[t].arg.previous # call[t].arg.snapshot.status THEN "announce" ELSE "drift")
    /\ UNCHANGED <<metrics, announced, drifts, anomalies, degradations, recommendations, comparisons,
                   times, blurred, overlapped>>

health_changed(t) ==
    /\ At(t, "announce")
    /\ announced' = [announced EXCEPT ![VersionOf(t)] = call[t].arg.snapshot.status]
    /\ Step(t, "drift")
    /\ UNCHANGED <<metrics, health, drifts, anomalies, degradations, recommendations, comparisons,
                   times, blurred, overlapped>>

\* Those the agent has not had yet, whatever the version
new_drift(t) ==
    LET key(d) == [metric |-> d.metric, baseline |-> d.baseline, current |-> d.current]
        known == {key(d) : d \in Range(drifts)}
    IN  SetToSeq({d \in drift_detect(call[t].copy) : key(d) \notin known})

new_anomalies(t) == SetToSeq(anomaly_detect(call[t].copy) \ Range(anomalies))

Held(t, place, new) ==
    Goto(t, [call[t] EXCEPT !.at = place, !.arg = [snapshot |-> @.snapshot, new |-> new]])

list_drift(t) ==
    /\ At(t, "drift")
    /\ Held(t, IF new_drift(t) = <<>> THEN "anomaly" ELSE "put_drift", new_drift(t))
    /\ UNCHANGED intelState

put_drift(t) ==
    /\ At(t, "put_drift")
    /\ drifts' = Append(drifts, Head(call[t].arg.new))
    /\ Held(t, IF Len(call[t].arg.new) = 1 THEN "anomaly" ELSE "put_drift", Tail(call[t].arg.new))
    /\ UNCHANGED <<metrics, health, announced, anomalies, degradations, recommendations, comparisons,
                   times, blurred, overlapped>>

list_anomalies(t) ==
    /\ At(t, "anomaly")
    /\ Held(t, IF new_anomalies(t) = <<>> THEN "degrade" ELSE "put_anomaly", new_anomalies(t))
    /\ UNCHANGED intelState

put_anomaly(t) ==
    /\ At(t, "put_anomaly")
    /\ anomalies' = Append(anomalies, Head(call[t].arg.new))
    /\ Held(t, IF Len(call[t].arg.new) = 1 THEN "degrade" ELSE "put_anomaly", Tail(call[t].arg.new))
    /\ UNCHANGED <<metrics, health, announced, drifts, degradations, recommendations, comparisons,
                   times, blurred, overlapped>>

\* Mutant of Level: the drift is forgotten.
LevelOfHealth(t) == assess(call[t].arg.snapshot.status, {})

Level(t) == assess(call[t].arg.snapshot.status, drift_detect(call[t].copy))

put_degradation(t) ==
    /\ At(t, "degrade")
    /\ degradations' = [degradations EXCEPT ![VersionOf(t)] = Level(t)]
    /\ Step(t, "advise")
    /\ UNCHANGED <<metrics, health, announced, drifts, anomalies, recommendations, comparisons,
                   times, blurred, overlapped>>

\* The next metric of the request, or its end
NextMetric(t) ==
    IF Len(call[t].id) = 1
    THEN Done(t) /\ UNCHANGED <<times, blurred, overlapped>>
    ELSE /\ Goto(t, Recording(call[t].op, Tail(call[t].id)))
         /\ times' = [times EXCEPT !.metric = @ + 1]
         /\ UNCHANGED <<blurred, overlapped>>

advise(t) ==
    /\ At(t, "advise")
    /\ LET r == [version |-> VersionOf(t), time |-> times.advice + 1, status |-> "pending",
                 kind |-> generate(call[t].arg.snapshot, Level(t), drift_detect(call[t].copy), anomaly_detect(call[t].copy))]
           same == recommendations # {} /\ latest_recommendation.version = r.version
                                        /\ latest_recommendation.kind = r.kind
       IN  IF same THEN NextMetric(t)
           ELSE /\ times' = [times EXCEPT !.advice = @ + 1]
                /\ Goto(t, [call[t] EXCEPT !.at = "put_advice", !.arg = r])
                /\ UNCHANGED <<blurred, overlapped>>
    /\ UNCHANGED <<metrics, health, announced, drifts, anomalies, degradations, recommendations, comparisons>>

put_recommendation(t) ==
    /\ At(t, "put_advice")
    /\ recommendations' = recommendations \cup {call[t].arg}
    /\ NextMetric(t)
    /\ UNCHANGED <<metrics, health, announced, drifts, anomalies, degradations, comparisons>>

-----------------------------------------------------------------------------
\* Approving a recommendation and comparing two versions

approve_recommendation(t, r) ==
    /\ Begin(t, [op |-> "approve", at |-> "approve", id |-> "agent", copy |-> r, arg |-> "none"])
    /\ UNCHANGED intelState

put_approved(t) ==
    /\ At(t, "approve")
    /\ recommendations' = {r \in recommendations : r.time # call[t].copy.time}
                            \cup {[call[t].copy EXCEPT !.status = "approved"]}
    /\ Done(t)
    /\ UNCHANGED <<metrics, health, announced, drifts, anomalies, degradations, comparisons,
                   times, blurred, overlapped>>

\* The mean of the relative changes, in thousandths
compare(base, candidate) ==
    LET names == Names(base \cup candidate)
        impact(name) ==
            LET before == Average(base, name, 0)
            IN  (-1000 * _deterioration(name, before, Average(candidate, name, 0))) \div Higher(before, One)
        overall == FoldSet(LAMBDA name, sum : impact(name) + sum, 0, names) \div Cardinality(names)
    IN  IF overall > 20 THEN "better" ELSE IF overall < -20 THEN "worse" ELSE "same"

\* Both versions have metrics.
compare_versions(t, v, w) ==
    /\ list_metrics(v) # {} /\ list_metrics(w) # {}
    /\ Begin(t, [op |-> "compare", at |-> "compare_put", id |-> "agent", copy |-> <<v, w>>,
                 arg |-> compare(list_metrics(v), list_metrics(w))])
    /\ UNCHANGED intelState

put_comparison(t) ==
    /\ At(t, "compare_put")
    /\ comparisons' = comparisons \cup {<<call[t].copy, call[t].arg>>}
    /\ Done(t)
    /\ UNCHANGED <<metrics, health, announced, drifts, anomalies, degradations, recommendations,
                   times, blurred, overlapped>>

-----------------------------------------------------------------------------
observability_routes(t) ==
    \/ \E m \in Measurements : record_metric(t, m)
    \/ \E r \in recommendations : approve_recommendation(t, r)
    \/ \E v, w \in Versions : v # w /\ compare_versions(t, v, w)

\* The server stops: the rows stay.
IntelCrash ==
    /\ \E t \in Threads : ~ At(t, "idle")
    /\ call' = [t \in Threads |-> Idle]
    /\ blurred' = blurred \cup {VersionOf(t) : t \in {u \in Threads : Refreshing(u)}}
    /\ overlapped' = (overlapped \/ \E t \in Threads : Refreshing(t))
    /\ UNCHANGED <<left, metrics, health, announced, drifts, anomalies, degradations, recommendations,
                   comparisons, times>>

RefreshSteps(t) ==
    \/ put_metric(t) \/ refresh(t) \/ compute_health(t) \/ put_snapshot(t) \/ health_changed(t)
    \/ list_drift(t) \/ put_drift(t) \/ list_anomalies(t) \/ put_anomaly(t)
    \/ put_degradation(t) \/ advise(t) \/ put_recommendation(t)

IntelNext ==
    \/ \E t \in Threads :
         observability_routes(t) \/ RefreshSteps(t) \/ put_approved(t) \/ put_comparison(t)
    \/ IntelCrash

IntelSpec == RequestsInit /\ IntelInit /\ [][IntelNext]_intelVars

-----------------------------------------------------------------------------
\* OperationalIntelligenceService.enforce_marketplace_gate: a version without a
\* snapshot passes.
enforce_marketplace_gate(version) ==
    \/ Recorded(version) = {}
    \/ /\ latest_health(version).status # "critical"
       /\ degradations[version] \notin {"major", "critical"}
       /\ 10 * latest_health(version).quality >= 8 * One

Settled(version) ==
    /\ version \notin blurred
    /\ \A t \in Threads : ~ Refreshing(t)

\* What the service says of a version follows from the metrics stored for it: the
\* latest snapshot, the degradation, the drift that was reported and the newest
\* recommendation are what HealthEngine, DriftDetector and the others make of all
\* of them, and the marketplace gate admits the version only when its metrics do.
\* It is so whenever no refresh is under way, except for a version whose last
\* refresh overlapped another one or stopped half way.
HealthFollowsMetrics ==
    \A v \in Versions : Settled(v) /\ list_metrics(v) # {} =>
        LET due == Refreshed(list_metrics(v))
        IN  /\ latest_health(v).status = due.health.status
            /\ degradations[v] = due.level
            /\ \A d \in drift_detect(list_metrics(v)) :
                 \E e \in Range(drifts) : e.metric = d.metric /\ e.baseline = d.baseline /\ e.current = d.current
            /\ latest_recommendation.version = v => latest_recommendation.kind = due.kind
            /\ enforce_marketplace_gate(v) <=>
                 /\ due.level \notin {"major", "critical"}
                 /\ 10 * due.health.quality >= 8 * One

\* Each drift and each anomaly of the agent is reported once, and the last change
\* of health that was announced is the state of the latest snapshot, as long as no
\* refreshes overlapped or stopped half way.
ReportedOnce ==
    overlapped \/
    /\ \A i, j \in DOMAIN drifts :
         i # j => \/ drifts[i].metric # drifts[j].metric
                  \/ drifts[i].baseline # drifts[j].baseline \/ drifts[i].current # drifts[j].current
    /\ IsInjective(anomalies)
    /\ \A v \in Versions : Settled(v) => announced[v] = previous_status(v)

\* What the service has stored of an agent, and what it has announced, follows from
\* the metrics.
IntelligenceAgrees == HealthFollowsMetrics /\ ReportedOnce
=============================================================================
