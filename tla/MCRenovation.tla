---------------------------- MODULE MCRenovation ----------------------------
(* One part of the renovation vertical at a time: a behaviour is one of the  *)
(* part chosen at the start, and the state of the others stays as it was.    *)
(* Field documentation goes with the change order of the site.               *)
EXTENDS RenovationField, RenovationCrm, RenovationOffice, RenovationMvp

VARIABLE part

MCLogs == {[photos |-> {"approved"}, issues |-> {"issue"}, visible |-> TRUE],
           [photos |-> {"private"}, issues |-> {}, visible |-> FALSE]}

MCNotes == {{"private"}}

MCCosts == {[material |-> 1, labor |-> 1, subcontractor |-> 1, overhead |-> 0]}

MCLeads == {<<"lead">>}

MCOpportunities == {<<"opportunity">>}

\* Requests of several steps that may begin in each part
MCBudget == [site |-> 5, field |-> 4, crm |-> 4, office |-> 3, mvp |-> 3]

MCInit ==
    /\ part \in DOMAIN MCBudget
    /\ SiteInit /\ FieldInit /\ OfficeInit /\ MvpInit
    /\ CrmInit
    /\ part # "crm" => \A d \in CrmIds : crm[d] = NoRecord
    /\ call = [t \in Threads |-> Idle]
    /\ left = MCBudget[part]

SitePart ==
    /\ part = "site"
    /\ SiteNext
    /\ UNCHANGED <<part, fieldState, crmState, officeState, mvpState>>

FieldPart ==
    /\ part = "field"
    /\ FieldNext
    /\ UNCHANGED <<part, crmState, officeState, mvpState>>

CrmPart ==
    /\ part = "crm"
    /\ CrmNext
    /\ UNCHANGED <<part, siteState, fieldState, officeState, mvpState>>

OfficePart ==
    /\ part = "office"
    /\ OfficeNext
    /\ UNCHANGED <<part, siteState, fieldState, crmState, mvpState>>

MvpPart ==
    /\ part = "mvp"
    /\ MvpNext
    /\ UNCHANGED <<part, siteState, fieldState, crmState, officeState>>

MCNext == SitePart \/ FieldPart \/ CrmPart \/ OfficePart \/ MvpPart

MCSpec ==
    /\ MCInit
    /\ [][MCNext]_<<part, requestVars, siteState, fieldState, crmState, officeState, mvpState>>

=============================================================================
