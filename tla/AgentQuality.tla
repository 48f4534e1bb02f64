---------------------------- MODULE AgentQuality ----------------------------
(***************************************************************************)
(* Evaluations, feedback and the reputation they feed                      *)
(* (src/agentfabric/evaluation, feedback, reputation and their routes),    *)
(* composed with the operational intelligence of AgentIntelligence: an     *)
(* evaluation of an agent and a feedback on it end by recording metrics.   *)
(* The reputation is kept in memory, in an object that every request on    *)
(* the agent changes, and stored as a row after each change.  Scores and   *)
(* ratings are in hundredths.                                              *)
(***************************************************************************)
EXTENDS AgentIntelligence

CONSTANTS
    Outputs,     \* evaluations: of an agent or not, keys expected and found, cases, outputs, safety
    Feedback     \* feedback: on an agent or not, a rating or -1, whether it corrects or reports

VARIABLES
    dataset,      \* evaluation_datasets: stored or not
    results,      \* evaluation_results: run -> overall score, -1 while it is not stored
    scorecards,   \* evaluation_scorecards: run -> score, -1 when there is none
    audited,      \* evaluation_audit_refs: run -> whether an agent was evaluated
    corrections,  \* corrections
    feedback,     \* feedback records
    signals,      \* improvement_signals
    objects,      \* the reputation records that were created
    current,      \* the one in ReputationService._records, 0 when there is none
    timeline,     \* ReputationService._timeline: ratings
    reputation,   \* the row, stored or not: total and count of the ratings, and the timeline
    admitted,     \* history: runs a publication was admitted on
    ratePast      \* history: ratings that overlapped, or were cut short by a stop

rateState == <<dataset, results, scorecards, audited, corrections, feedback, signals, objects,
               current, timeline, reputation, admitted, ratePast>>

qualityState == <<intelState, rateState>>

qualityVars == <<requestVars, qualityState>>

ReputationRecord == [total |-> 0, count |-> 0]

QualityInit ==
    /\ dataset = FALSE
    /\ results = <<>> /\ scorecards = <<>> /\ audited = <<>>
    /\ corrections = 0 /\ feedback = <<>> /\ signals = {}
    /\ objects = <<>> /\ current = 0 /\ timeline = 0
    /\ reputation = [stored |-> FALSE, total |-> 0, count |-> 0, timeline |-> 0]
    /\ admitted = {}
    /\ ratePast = {}

QualityOps == {"evaluate", "feedback", "gate"}

Doing(t, op, place) == call[t].op = op /\ At(t, place)

Work(op, place, arg) == [op |-> op, at |-> place, id |-> "agent", copy |-> "none", arg |-> arg]

-----------------------------------------------------------------------------
\* Evaluations

\* At least one case
dataset_validate(cases) == cases > 0

create_dataset(t, cases) ==
    /\ OneStep(t)
    /\ dataset_validate(cases)
    /\ dataset' = TRUE
    /\ UNCHANGED <<results, scorecards, audited, corrections, feedback, signals, objects, current,
                   timeline, reputation, admitted, ratePast, intelState>>

\* Six of the eleven metrics are always 1.
_score(o) ==
    LET correctness == IF o.expected = 0 THEN 100 ELSE (100 * o.found) \div o.expected
        completeness == IF correctness > 0 THEN Lower((100 * o.outputs) \div o.cases, 100) ELSE 0
        safety == IF o.sensitive THEN 0 ELSE 100
        hallucination_risk == IF correctness >= 50 THEN 100 ELSE 0
    IN  <<correctness, completeness, safety, hallucination_risk, correctness, 100, 100, 100, 100, 100, 100>>

overall_score(o) == Total(_score(o)) \div 11

run_evaluation(t, o) ==
    /\ dataset
    /\ Begin(t, Work("evaluate", "policy", o))
    /\ UNCHANGED qualityState

\* VEIL allows, or the run ends.  The result is made here, with its time: runs are
\* numbered in that order.
evaluation_check_policy(t, allowed) ==
    /\ Doing(t, "evaluate", "policy")
    /\ IF allowed
       THEN /\ results' = Append(results, -1)
            /\ scorecards' = Append(scorecards, -1)
            /\ Goto(t, [call[t] EXCEPT !.at = "result", !.copy = Len(results) + 1])
       ELSE Done(t) /\ UNCHANGED <<results, scorecards>>
    /\ UNCHANGED <<dataset, audited, corrections, feedback, signals, objects, current, timeline,
                   reputation, admitted, ratePast, intelState>>

put_result(t) ==
    /\ Doing(t, "evaluate", "result")
    /\ results' = [results EXCEPT ![call[t].copy] = overall_score(call[t].arg)]
    /\ Step(t, "scorecard")
    /\ UNCHANGED <<dataset, scorecards, audited, corrections, feedback, signals, objects, current, timeline,
                   reputation, admitted, ratePast, intelState>>

from_result(run) == results[run]

put_scorecard(t) ==
    /\ Doing(t, "evaluate", "scorecard")
    /\ scorecards' = [scorecards EXCEPT ![call[t].copy] = from_result(call[t].copy)]
    /\ Step(t, "audit")
    /\ UNCHANGED <<dataset, results, audited, corrections, feedback, signals, objects, current, timeline,
                   reputation, admitted, ratePast, intelState>>

EvaluationMetrics(o) ==
    IF o.agent THEN <<[version |-> "v1", metric |-> "evaluation_score", value |-> overall_score(o)]>> ELSE <<>>

\* metering, and record_metric for each metric, at the end of a route
RecordMetrics(t, ms) ==
    IF ms = <<>> THEN Done(t) /\ UNCHANGED intelState
    ELSE LET r == Recording(call[t].op, ms) IN Goto(t, r) /\ Taken(t, r)

\* An audit call that fails ends the request; the result stays.
put_audit_ref(t, ok) ==
    /\ Doing(t, "evaluate", "audit")
    /\ audited' = IF ok THEN audited @@ (call[t].copy :> call[t].arg.agent) ELSE audited
    /\ CASE ~ok -> Done(t) /\ UNCHANGED intelState
         [] ok /\ call[t].arg.agent -> Step(t, "rate_get") /\ UNCHANGED intelState
         [] OTHER -> RecordMetrics(t, EvaluationMetrics(call[t].arg))
    /\ UNCHANGED <<dataset, results, scorecards, corrections, feedback, signals, objects, current, timeline,
                   reputation, admitted, ratePast>>

-----------------------------------------------------------------------------
\* Feedback: the correction, the record, the signal, then the rating

give_feedback(t, f) ==
    /\ Begin(t, Work("feedback", IF f.correction THEN "correction" ELSE "record", f))
    /\ UNCHANGED qualityState

put_correction(t) ==
    /\ Doing(t, "feedback", "correction")
    /\ corrections' = corrections + 1
    /\ Goto(t, [call[t] EXCEPT !.at = "record", !.copy = corrections + 1])
    /\ UNCHANGED <<dataset, results, scorecards, audited, feedback, signals, objects, current, timeline,
                   reputation, admitted, ratePast, intelState>>

put_feedback(t) ==
    /\ Doing(t, "feedback", "record")
    /\ feedback' = Append(feedback, [agent |-> call[t].arg.agent, rating |-> call[t].arg.rating,
                                     correction_id |-> IF call[t].arg.correction THEN call[t].copy ELSE 0])
    /\ Goto(t, [call[t] EXCEPT !.at = "signal", !.copy = Len(feedback) + 1])
    /\ UNCHANGED <<dataset, results, scorecards, audited, corrections, signals, objects, current, timeline,
                   reputation, admitted, ratePast, intelState>>

\* A report of a failure or an abuse is severe, and so is a low rating.
_signal(f) == IF f.report \/ f.rating \in 0 .. 299 THEN "high" ELSE "low"

\* The metrics a feedback is recorded as
FeedbackMetrics(f) ==
    LET m(name, value) == [version |-> "v1", metric |-> name, value |-> value]
    IN  (IF f.agent /\ f.rating >= 0 THEN <<m("user_rating", f.rating)>> ELSE <<>>)
        \o (IF f.agent /\ f.correction THEN <<m("correction_frequency", 100)>> ELSE <<>>)

put_signal(t) ==
    /\ Doing(t, "feedback", "signal")
    /\ signals' = signals \cup {<<call[t].copy, _signal(call[t].arg)>>}
    /\ IF call[t].arg.agent /\ call[t].arg.rating >= 0 THEN Step(t, "rate_get") /\ UNCHANGED intelState
       ELSE RecordMetrics(t, FeedbackMetrics(call[t].arg))
    /\ UNCHANGED <<dataset, results, scorecards, audited, corrections, feedback, objects, current, timeline,
                   reputation, admitted, ratePast>>

-----------------------------------------------------------------------------
\* ReputationService.record_rating, on the record that get returned

RateStages == {"rate_get", "rate_new", "new_row", "new_put", "rate", "rate_row", "rate_put"}

MarkRating(t) ==
    ratePast' = ratePast \cup IF \E u \in Others(t) : call[u].at \in RateStages THEN {"overlap"} ELSE {}

RatingOf(t) == IF call[t].op = "evaluate" THEN 5 * overall_score(call[t].arg) ELSE call[t].arg.rating

reputation_get(t) ==
    /\ At(t, "rate_get")
    /\ IF current = 0 THEN Step(t, "rate_new")
       ELSE Goto(t, [call[t] EXCEPT !.at = "rate", !.copy = current])
    /\ MarkRating(t)
    /\ UNCHANGED <<dataset, results, scorecards, audited, corrections, feedback, signals, objects, current,
                   timeline, reputation, admitted, intelState>>

\* A new record takes the place of one that was created meanwhile.  It is stored,
\* and get returns the one that is current then.
reputation_new(t) ==
    /\ At(t, "rate_new")
    /\ objects' = Append(objects, ReputationRecord)
    /\ current' = Len(objects) + 1
    /\ Step(t, "new_row")
    /\ UNCHANGED <<dataset, results, scorecards, audited, corrections, feedback, signals, timeline, reputation,
                   admitted, ratePast, intelState>>

\* The additions to the record and to its timeline are one step: nothing reads
\* both of them but _persist.
record_rating(t) ==
    /\ At(t, "rate")
    /\ objects' = [objects EXCEPT ![call[t].copy] = [total |-> @.total + RatingOf(t), count |-> @.count + 1]]
    /\ timeline' = timeline + 1
    /\ Step(t, "rate_row")
    /\ UNCHANGED <<dataset, results, scorecards, audited, corrections, feedback, signals, current, reputation,
                   admitted, ratePast, intelState>>

\* The row is made of the record that is current, then put.
RowPlaces == "new_row" :> "new_put" @@ "rate_row" :> "rate_put"


_persist(t) ==
    /\ call[t].at \in DOMAIN RowPlaces
    /\ Goto(t, [call[t] EXCEPT !.at = RowPlaces[@], !.copy = [stored |-> TRUE, timeline |-> timeline] @@ objects[current]])
    /\ UNCHANGED qualityState

put_reputation(t) ==
    /\ \/ At(t, "new_put") /\ Step(t, "rate_get") /\ UNCHANGED intelState
       \/ /\ At(t, "rate_put")
          /\ RecordMetrics(t, IF call[t].op = "evaluate" THEN EvaluationMetrics(call[t].arg)
                                                         ELSE FeedbackMetrics(call[t].arg))
    /\ reputation' = call[t].copy
    /\ UNCHANGED <<dataset, results, scorecards, audited, corrections, feedback, signals, objects, current,
                   timeline, admitted, ratePast>>

-----------------------------------------------------------------------------
\* The gate of a publication: the latest run is read, then its scorecard, which
\* is made of the result when it is not stored yet.

PublishThreshold == 80

Stored == {run \in DOMAIN results : results[run] # -1}

_latest_quality == Max(Stored)

quality_gate(t) ==
    /\ Stored # {}
    /\ Begin(t, Work("gate", "scorecard", _latest_quality))
    /\ UNCHANGED qualityState

scorecard(run) == IF scorecards[run] = -1 THEN from_result(run) ELSE scorecards[run]

_enforce_quality_gate(t) ==
    /\ Doing(t, "gate", "scorecard")
    /\ admitted' = admitted \cup {run \in {call[t].arg} : scorecard(run) >= PublishThreshold}
    /\ Done(t)
    /\ UNCHANGED <<dataset, results, scorecards, audited, corrections, feedback, signals, objects, current,
                   timeline, reputation, ratePast, intelState>>

-----------------------------------------------------------------------------
evaluation_routes(t) ==
    \/ \E cases \in 0 .. 1 : create_dataset(t, cases)
    \/ \E o \in Outputs : run_evaluation(t, o)

feedback_routes(t) == \E f \in Feedback : give_feedback(t, f)

\* The server stops and starts again: ReputationService reads the rows.
QualityRestart ==
    /\ IntelCrash
    /\ objects' = <<[total |-> reputation.total, count |-> reputation.count]>>
    /\ current' = IF reputation.stored THEN 1 ELSE 0
    /\ timeline' = reputation.timeline
    /\ ratePast' = ratePast \cup {"stop"}
    /\ UNCHANGED <<dataset, results, scorecards, audited, corrections, feedback, signals, reputation, admitted>>

QualityNext ==
    \/ \E t \in Threads :
         \/ evaluation_routes(t) \/ feedback_routes(t) \/ quality_gate(t)
         \/ \E allowed \in BOOLEAN : evaluation_check_policy(t, allowed)
         \/ put_result(t) \/ put_scorecard(t)
         \/ \E ok \in BOOLEAN : put_audit_ref(t, ok)
         \/ put_correction(t) \/ put_feedback(t) \/ put_signal(t)
         \/ reputation_get(t) \/ reputation_new(t) \/ record_rating(t) \/ _persist(t) \/ put_reputation(t)
         \/ _enforce_quality_gate(t)
         \/ RefreshSteps(t) /\ UNCHANGED rateState
    \/ QualityRestart

QualitySpec == RequestsInit /\ IntelInit /\ QualityInit /\ [][QualityNext]_qualityVars

-----------------------------------------------------------------------------
Rated == Cardinality({run \in DOMAIN audited : audited[run]})
         + Cardinality({i \in DOMAIN feedback : feedback[i].agent /\ feedback[i].rating >= 0})

=============================================================================
