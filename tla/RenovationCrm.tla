---------------------------- MODULE RenovationCrm ----------------------------
(***************************************************************************)
(* Leads, customers, opportunities and what hangs on them                  *)
(* (src/agentfabric/verticals/renovation: leads, crm, service.py, and the  *)
(* routes of server/app.py).  A record keeps the request it was created    *)
(* with, the updates applied to it and the artifact they lead to; replay   *)
(* applies them again and compares.  An update reads the artifact, decides,*)
(* reads the record again, and puts it: three accesses to the store that   *)
(* interleave with those of other requests.                                *)
(***************************************************************************)
EXTENDS Requests, Sequences

CONSTANTS
    Leads,          \* lead ids: the digest of what a lead is created with, as <<lead>>
    Opportunities,  \* opportunity ids, likewise
    CustomerNames,  \* names a conversion may give the customer
    LeadChoices,    \* bound: statuses an update may ask for
    StageChoices,   \* bound: stages an update may ask for
    ContactDates    \* dates of last contact

VARIABLES
    crm,            \* renovation_leads and renovation_opportunities
    customers,      \* renovation_customers: the lead each record names, if any
    links,          \* follow-ups, appointments and site visits: kind and target
    missed,         \* history: records put while another request held a copy
    unfinished      \* history: leads whose conversion died before the customer

crmState == <<crm, customers, links, missed, unfinished>>

crmVars == <<requestVars, crmState>>

CrmIds == Leads \cup Opportunities
NoRecord == [none |-> TRUE]
Kept == "kept"

-----------------------------------------------------------------------------
\* LeadService

LEAD_STATUSES ==
    {"new", "contacted", "appointment_requested", "estimate_scheduled", "proposal_sent", "won", "lost"}

ALLOWED_TRANSITIONS ==
    [s \in LEAD_STATUSES |->
        CASE s = "new" -> {"contacted", "appointment_requested", "lost"}
          [] s = "contacted" -> {"appointment_requested", "estimate_scheduled", "lost"}
          [] s = "appointment_requested" -> {"contacted", "estimate_scheduled", "lost"}
          [] s = "estimate_scheduled" -> {"proposal_sent", "lost"}
          [] s = "proposal_sent" -> {"won", "lost"}
          [] OTHER -> {}]

\* An update names the status or the date it changes; a lead that is lost comes
\* with its reason.
LeadUpdates == [status : LeadChoices \cup {Kept}, contact : ContactDates \cup {Kept}]

new_lead == [status |-> "new", contact |-> "", customer |-> ""]

Allowed(a, u) == u.status \in {Kept, a.status} \cup ALLOWED_TRANSITIONS[a.status]

update_status(a, u) ==
    [a EXCEPT !.status = IF u.status = Kept THEN @ ELSE u.status,
              !.contact = IF u.contact = Kept THEN @ ELSE u.contact]

Convertible(a) == a.status = "won" /\ a.customer = ""

convert(a, c) == [a EXCEPT !.customer = c]

\* CrmService

OPPORTUNITY_STAGES ==
    <<"qualification", "appointment", "estimating", "proposal", "negotiation", "won", "lost">>

Rank(s) == CHOOSE i \in 1..Len(OPPORTUNITY_STAGES) : OPPORTUNITY_STAGES[i] = s

opportunity == [stage |-> "qualification"]

MayMove(a, s) == a.stage \notin {"won", "lost"} /\ Rank(s) >= Rank(a.stage)

update_stage(a, s) == [a EXCEPT !.stage = s]

follow_up(x) == [kind |-> "follow-up", of |-> x]

appointment(x) == [kind |-> "appointment", of |-> x]

\* A visit copies the target of its appointment.
site_visit(a) == [kind |-> "visit", of |-> a.of]

\* The record of a request and its artifact (_record), and the artifact of a record
record(a) == [art |-> a, updates |-> <<>>, converted |-> FALSE]

Stored(d) == crm[d] # NoRecord

artifact(d) == crm[d].art

\* Leads start unknown, or with their proposal sent after three updates.
AtProposal ==
    [art |-> [new_lead EXCEPT !.status = "proposal_sent"],
     updates |-> [i \in 1..3 |-> [status |-> <<"contacted", "estimate_scheduled", "proposal_sent">>[i],
                                  contact |-> Kept]],
     converted |-> FALSE]

CrmInit ==
    /\ \E L \in SUBSET Leads :
         crm = [d \in CrmIds |-> IF d \in L THEN AtProposal ELSE NoRecord]
    /\ customers = <<>>
    /\ links = {}
    /\ missed = {}
    /\ unfinished = {}

-----------------------------------------------------------------------------

CrmHolding(d) == {t \in Threads : call[t].op \in {"crm", "convert"}
                               /\ call[t].at \in {"again", "put", "restore"} /\ call[t].id = d}

put(t, d, r) ==
    /\ crm' = [crm EXCEPT ![d] = r]
    /\ missed' = IF CrmHolding(d) \ {t} # {} THEN missed \cup {d} ELSE missed

OnRecord(d, place, c, arg) == [op |-> "crm", at |-> place, id |-> d, copy |-> c, arg |-> arg]

\* A request that puts one new record: nothing it reads can be withdrawn.
Once(t) == Begin(t, Idle)

\* create_lead and its route: the same request gives the same identifier, so a
\* lead that exists starts anew; then _record_for reads it and puts it back.
create_lead(t, l) ==
    /\ Begin(t, OnRecord(l, "timestamps", NoRecord, "none"))
    /\ put(t, l, record(new_lead))
    /\ UNCHANGED <<customers, links, unfinished>>

\* _record_for
read_record_for(t) ==
    /\ call[t].op = "crm" /\ At(t, "timestamps")
    /\ Goto(t, [call[t] EXCEPT !.at = "restore", !.copy = crm[call[t].id]])
    /\ UNCHANGED crmState

record_for(t) ==
    /\ call[t].op = "crm" /\ At(t, "restore")
    /\ put(t, call[t].id, call[t].copy)
    /\ Done(t)
    /\ UNCHANGED <<customers, links, unfinished>>

update_lead(t, l, u) ==
    /\ l \in Leads /\ Stored(l)
    /\ Allowed(artifact(l), u)
    /\ Begin(t, OnRecord(l, "again", update_status(artifact(l), u), u))
    /\ UNCHANGED crmState

\* _validate_crm_target: a lead or a customer that exists
Exists(x) == IF x \in CrmIds THEN Stored(x) ELSE x \in DOMAIN customers

create_opportunity(t, o, x) ==
    /\ Once(t)
    /\ x \in Leads \cup DOMAIN customers
    /\ Exists(x)
    /\ put(t, o, record(opportunity))
    /\ links' = links \cup {[kind |-> "opportunity", of |-> x]}
    /\ UNCHANGED <<customers, unfinished>>

update_opportunity_stage(t, o, s) ==
    /\ o \in Opportunities /\ Stored(o)
    /\ MayMove(artifact(o), s)
    /\ Begin(t, OnRecord(o, "again", update_stage(artifact(o), s), s))
    /\ UNCHANGED crmState

\* The record is read a second time: its updates are current, the artifact is
\* replaced by the one computed before.
read_again(t) ==
    /\ call[t].op = "crm" /\ At(t, "again")
    /\ Goto(t, [call[t] EXCEPT !.at = "put",
                               !.copy = [crm[call[t].id] EXCEPT
                                            !.art = call[t].copy,
                                            !.updates = Append(@, call[t].arg)]])
    /\ UNCHANGED crmState

put_update(t) ==
    /\ call[t].op = "crm" /\ At(t, "put")
    /\ put(t, call[t].id, call[t].copy)
    /\ Done(t)
    /\ UNCHANGED <<customers, links, unfinished>>

-----------------------------------------------------------------------------
\* convert_lead: the customer's identifier is a digest of the lead and the name.
Customer(l, n) == Append(l, n)

convert_lead(t, l, n) ==
    /\ Stored(l)
    /\ Convertible(artifact(l))
    /\ Begin(t, [OnRecord(l, "again", convert(artifact(l), Customer(l, n)), Customer(l, n))
                    EXCEPT !.op = "convert"])
    /\ UNCHANGED crmState

convert_again(t) ==
    /\ call[t].op = "convert" /\ At(t, "again")
    /\ Goto(t, [call[t] EXCEPT !.at = "put",
                               !.copy = [crm[call[t].id] EXCEPT !.art = call[t].copy,
                                                                !.converted = TRUE]])
    /\ UNCHANGED crmState

\* Mutant of convert_put: the customer is not stored.
ConvertSkips(t) ==
    /\ call[t].op = "convert" /\ At(t, "put")
    /\ put(t, call[t].id, call[t].copy)
    /\ Goto(t, [call[t] EXCEPT !.op = "crm", !.at = "timestamps"])
    /\ UNCHANGED <<customers, links, unfinished>>

convert_put(t) ==
    /\ call[t].op = "convert" /\ At(t, "put")
    /\ put(t, call[t].id, call[t].copy)
    /\ Step(t, "customer")
    /\ UNCHANGED <<customers, links, unfinished>>

WithCustomer(c, l) == [x \in DOMAIN customers \cup {c} |-> IF x = c THEN l ELSE customers[x]]

put_customer(t) ==
    /\ call[t].op = "convert" /\ At(t, "customer")
    /\ customers' = WithCustomer(call[t].arg, call[t].id)
    /\ Step(t, "artifact")
    /\ UNCHANGED <<crm, links, missed, unfinished>>

\* The route stores the customer again, without its lead, and goes on to
\* _record_for of the lead.
put_artifact(t) ==
    /\ call[t].op = "convert" /\ At(t, "artifact")
    /\ customers' = WithCustomer(call[t].arg, "none")
    /\ Goto(t, [call[t] EXCEPT !.op = "crm", !.at = "timestamps"])
    /\ UNCHANGED <<crm, links, missed, unfinished>>

\* create_customer of the operator's desk: a customer that comes from no lead
WalkIn == <<"customer">>

create_customer(t) ==
    /\ Once(t)
    /\ customers' = WithCustomer(WalkIn, "none")
    /\ UNCHANGED <<crm, links, missed, unfinished>>

-----------------------------------------------------------------------------
\* Follow-ups hang on a lead or an opportunity, appointments on a lead or a
\* customer, and a site visit on an appointment.
create_follow_up(t, x) ==
    /\ Once(t)
    /\ x \in CrmIds /\ Exists(x)
    /\ links' = links \cup {follow_up(x)}
    /\ UNCHANGED <<crm, customers, missed, unfinished>>

create_appointment(t, x) ==
    /\ Once(t)
    /\ x \in Leads \cup DOMAIN customers
    /\ Exists(x)
    /\ links' = links \cup {appointment(x)}
    /\ UNCHANGED <<crm, customers, missed, unfinished>>

create_site_visit(t, a) ==
    /\ Once(t)
    /\ a.kind = "appointment"
    /\ links' = links \cup {site_visit(a)}
    /\ UNCHANGED <<crm, customers, missed, unfinished>>

\* A put or an append raises, or the process stops.
DieInCrm(t) ==
    /\ call[t].op \in {"crm", "convert"}
    /\ unfinished' = IF call[t].op = "convert" /\ At(t, "customer")
                     THEN unfinished \cup {call[t].id} ELSE unfinished
    /\ Done(t)
    /\ UNCHANGED <<crm, customers, links, missed>>

-----------------------------------------------------------------------------
\* The routes

lead_routes(t) ==
    \E l \in Leads :
        \/ create_lead(t, l)
        \/ \E u \in LeadUpdates : update_lead(t, l, u)
        \/ \E n \in CustomerNames : convert_lead(t, l, n)

opportunity_routes(t) ==
    \E o \in Opportunities :
        \/ \E x \in Leads \cup DOMAIN customers : create_opportunity(t, o, x)
        \/ \E s \in StageChoices : update_opportunity_stage(t, o, s)

visit_routes(t) ==
    \/ \E x \in CrmIds \cup DOMAIN customers : create_follow_up(t, x) \/ create_appointment(t, x)
    \/ \E a \in links : create_site_visit(t, a)

CrmNext ==
    \E t \in Threads :
        \/ lead_routes(t) \/ create_customer(t) \/ opportunity_routes(t) \/ visit_routes(t)
        \/ read_record_for(t) \/ record_for(t) \/ read_again(t) \/ put_update(t)
        \/ convert_again(t) \/ convert_put(t) \/ put_customer(t) \/ put_artifact(t)
        \/ DieInCrm(t)

CrmSpec == RequestsInit /\ CrmInit /\ [][CrmNext]_crmVars

-----------------------------------------------------------------------------
Diverged == [diverged |-> TRUE]

\* replay_lead: every update applied in order to a new lead, then the conversion
replay_lead(r) ==
    LET step[n \in 0..Len(r.updates)] ==
          IF n = 0 THEN new_lead
          ELSE IF step[n - 1] = Diverged \/ ~ Allowed(step[n - 1], r.updates[n]) THEN Diverged
          ELSE update_status(step[n - 1], r.updates[n])
        last == step[Len(r.updates)]
    IN  IF ~ r.converted \/ last = Diverged THEN last
        ELSE IF Convertible(last) THEN convert(last, r.art.customer) ELSE Diverged

replay_opportunity(r) ==
    LET step[n \in 0..Len(r.updates)] ==
          IF n = 0 THEN opportunity
          ELSE IF step[n - 1] = Diverged \/ ~ MayMove(step[n - 1], r.updates[n]) THEN Diverged
          ELSE update_stage(step[n - 1], r.updates[n])
    IN  step[Len(r.updates)]

\* Replaying a lead or an opportunity reproduces it, whatever was updated before
\* and after a conversion and however often it was created again, unless a
\* request put the record while another one held a copy of it.
CrmReplays ==
    \A d \in CrmIds \ missed :
        Stored(d) => artifact(d) = IF d \in Leads THEN replay_lead(crm[d]) ELSE replay_opportunity(crm[d])

Storing(l) == \E t \in Threads : call[t].op = "convert" /\ call[t].at = "customer" /\ call[t].id = l

\* What a record points at is there: the customer of a converted lead, unless the
\* request that converts it has not stored the customer yet or died before, and
\* the target of an opportunity, a follow-up, an appointment or a visit.
CrmReferencesResolve ==
    /\ \A l \in Leads \ unfinished :
         Stored(l) /\ ~ Storing(l) /\ artifact(l).customer # "" =>
             artifact(l).customer \in DOMAIN customers
    /\ \A k \in links : Exists(k.of)

\* The records of the CRM are what their history makes of them, and refer to
\* records that are there.
CrmRecordsAgree == CrmReplays /\ CrmReferencesResolve
=============================================================================
