-------------------------- MODULE RenovationOffice --------------------------
(***************************************************************************)
(* The operator's desk of the renovation vertical (operator.py and saas.py *)
(* of src/agentfabric/verticals/renovation, and their routes): estimates   *)
(* and proposals and their approval, the company profile, payment links    *)
(* and statuses with idempotency keys, attachments, notifications and      *)
(* calendar syncs.  Every record is one value of the document store, read  *)
(* and put in separate steps.                                              *)
(***************************************************************************)
EXTENDS Requests, Sequences, FiniteSets

CONSTANTS
    StatusKeys,  \* idempotency keys of payment statuses: a caller's or the default
    LinkKeys,    \* idempotency keys of payment links
    Payments,    \* payment statuses reported
    Invoices     \* invoices of the tenant

VARIABLES
    office,      \* the value of each record, "none" when there is none
    disk,        \* attachments whose file is written
    handed,      \* messages the mail server accepted
    upset,       \* history: records put while another request was about to
    dropped      \* history: messages whose request died before the record

officeState == <<office, disk, handed, upset, dropped>>

officeVars == <<requestVars, officeState>>

Papers == {"estimate", "proposal"}
Files == {"file"}
Mails == {"mail"}
Records == Papers \cup {"company", "calendar"} \cup Files \cup Mails \cup StatusKeys \cup LinkKeys

OfficeInit ==
    /\ office = [r \in Records |-> "none"]
    /\ disk = {} /\ handed = {}
    /\ upset = {} /\ dropped = {}

AtDesk(t, place) == call[t].op = "office" /\ At(t, place)

AboutTo(r) == {t \in Threads : call[t].op = "office" /\ call[t].at \in {"put", "restore"} /\ call[t].id = r}

put_record(t, r, v) ==
    /\ office' = [office EXCEPT ![r] = v]
    /\ upset' = IF AboutTo(r) \ {t} # {} THEN upset \cup {r} ELSE upset

Desk(r, place, v) == [op |-> "office", at |-> place, id |-> r, copy |-> v, arg |-> "none"]

\* The request goes on to put v as record r.
WillPut(t, r, v) == Begin(t, Desk(r, "put", v)) /\ UNCHANGED officeState

Puts(t) ==
    /\ AtDesk(t, "put")
    /\ put_record(t, call[t].id, call[t].copy)
    /\ Done(t)
    /\ UNCHANGED <<disk, handed, dropped>>

-----------------------------------------------------------------------------
\* create_estimate, create_proposal: the identifier is a digest of the request,
\* so an approved one made again is a new record; _record_for puts it back.
create_paper(t, r) ==
    /\ Begin(t, Desk(r, "timestamps", "none"))
    /\ office' = [office EXCEPT ![r] = "made"]
    /\ upset' = IF AboutTo(r) # {} \/ office[r] = "approved" THEN upset \cup {r} ELSE upset
    /\ UNCHANGED <<disk, handed, dropped>>

create_estimate(t) == create_paper(t, "estimate")

create_proposal(t) == office["estimate"] # "none" /\ create_paper(t, "proposal")

_reread(t) ==
    /\ AtDesk(t, "timestamps")
    /\ Goto(t, Desk(call[t].id, "restore", office[call[t].id]))
    /\ UNCHANGED officeState

_record_for(t) ==
    /\ AtDesk(t, "restore")
    /\ put_record(t, call[t].id, call[t].copy)
    /\ Done(t)
    /\ UNCHANGED <<disk, handed, dropped>>

approve_estimate(t) == office["estimate"] # "none" /\ WillPut(t, "estimate", "approved")

accept_proposal(t) == office["proposal"] # "none" /\ WillPut(t, "proposal", "approved")

\* company_profile: reading a profile that is not there stores the default one.
company_profile(t) == office["company"] = "none" /\ WillPut(t, "company", "default")

update_company_profile(t) ==
    /\ Begin(t, Idle)
    /\ put_record(t, "company", "custom")
    /\ UNCHANGED <<disk, handed, dropped>>

-----------------------------------------------------------------------------
\* LocalPaymentProvider: the key of a status is the caller's, or made of the
\* invoice and the status.
StatusKey(k, s) == IF k = "default" THEN s ELSE k


payment_status(t, k, s) ==
    /\ office[StatusKey(k, s)] = "none"
    /\ WillPut(t, StatusKey(k, s), s)

payment_link(t, k, i) ==
    /\ office[k] = "none"
    /\ WillPut(t, k, i)

\* map_webhook_status: what a provider's event type means
provider_status_map ==
    [e \in {"checkout.session.completed", "payment_intent.payment_failed", "other"} |->
        CASE e = "checkout.session.completed" -> "paid"
          [] e = "payment_intent.payment_failed" -> "failed"
          [] OTHER -> "pending"]

\* payment_webhook: a webhook may be delivered again, and out of order.
payment_webhook(t, k, e) ==
    /\ provider_status_map[e] \in Payments
    /\ payment_status(t, k, provider_status_map[e])

-----------------------------------------------------------------------------
\* LocalAttachmentStore: the same content has the same identifier, so saving an
\* archived file again makes it active.
save(t, f) ==
    /\ Begin(t, Desk(f, "record", "active"))
    /\ disk' = disk \cup {f}
    /\ UNCHANGED <<office, handed, upset, dropped>>

save_record(t) ==
    /\ AtDesk(t, "record")
    /\ office' = [office EXCEPT ![call[t].id] = "active"]
    /\ upset' = IF AboutTo(call[t].id) # {} \/ office[call[t].id] = "archived"
                THEN upset \cup {call[t].id} ELSE upset
    /\ Done(t)
    /\ UNCHANGED <<disk, handed, dropped>>

archive(t, f) == office[f] = "active" /\ WillPut(t, f, "archived")

\* send_notification: the provider hands the message over or fails, or fails
\* after the server took it; the record has the outcome, whichever came last.
send(t, m) ==
    /\ \E outcome \in {"sent", "failed"} :
         /\ Begin(t, [Desk(m, "put", outcome) EXCEPT !.arg = "mail"])
         /\ handed' \in IF outcome = "sent" THEN {handed \cup {m}} ELSE {handed, handed \cup {m}}
    /\ UNCHANGED <<office, disk, upset, dropped>>

\* sync_schedule: one reference per schedule and calendar
sync_schedule(t) ==
    \E outcome \in {"synced", "deleted", "failed"} : WillPut(t, "calendar", outcome)

DieInOffice(t) ==
    /\ call[t].op = "office"
    /\ dropped' = IF call[t].arg = "mail" THEN dropped \cup {call[t].id} ELSE dropped
    /\ Done(t)
    /\ UNCHANGED <<office, disk, handed, upset>>

-----------------------------------------------------------------------------
\* The routes
paper_routes(t) ==
    \/ create_estimate(t)
    \/ create_proposal(t)
    \/ approve_estimate(t)
    \/ accept_proposal(t)

settings_routes(t) == company_profile(t) \/ update_company_profile(t)

payment_routes(t) ==
    \/ \E k \in LinkKeys, i \in Invoices : payment_link(t, k, i)
    \/ \E k \in {"key", "default"}, s \in Payments : payment_status(t, k, s)
    \/ \E k \in {"key", "default"}, e \in DOMAIN provider_status_map : payment_webhook(t, k, e)

file_routes(t) == \E f \in Files : save(t, f) \/ archive(t, f)

provider_routes(t) == (\E m \in Mails : send(t, m)) \/ sync_schedule(t)

OfficeNext ==
    \E t \in Threads :
        \/ paper_routes(t) \/ settings_routes(t) \/ payment_routes(t)
        \/ file_routes(t) \/ provider_routes(t)
        \/ _reread(t) \/ _record_for(t) \/ save_record(t) \/ Puts(t)
        \/ DieInOffice(t)

OfficeSpec == RequestsInit /\ OfficeInit /\ [][OfficeNext]_officeVars

-----------------------------------------------------------------------------
\* _filter_page: the offsets a client visits that follows next_offset
_filter_page(total, limit, offset) ==
    [items |-> {i \in 0..(total - 1) : offset <= i /\ i < offset + limit},
     next  |-> IF offset + limit < total THEN offset + limit ELSE total]

PagesOf(total, limit) ==
    LET pages[n \in 0..total] ==
          IF n = 0 THEN <<_filter_page(total, limit, 0)>>
          ELSE IF pages[n - 1][n].next = total
               THEN pages[n - 1] \o <<[items |-> {}, next |-> total]>>
               ELSE pages[n - 1] \o <<_filter_page(total, limit, pages[n - 1][n].next)>>
    IN  pages[total]

Final(r) == CASE r \in Papers -> {"approved"}
              [] r = "company" -> {"custom"}
              [] r \in StatusKeys -> Payments
              [] r \in LinkKeys -> Invoices
              [] r \in Files -> {"archived"}
              [] OTHER -> {}

=============================================================================
