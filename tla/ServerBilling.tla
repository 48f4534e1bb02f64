---------------------------- MODULE ServerBilling ----------------------------
(***************************************************************************)
(* Billing and the package registry of the server (PackageService and      *)
(* BillingService in src/agentfabric/server/services.py, payments.py, the  *)
(* /registry and /billing routes).  Rows are seen by others when get_db    *)
(* commits at the end of a request; a unique column makes the second of    *)
(* two equal inserts raise.  The payment provider is another system: it    *)
(* answers a charge at once, by idempotency key, and reports the outcome   *)
(* later by webhooks that may come twice, late, early or never.            *)
(***************************************************************************)
EXTENDS Requests, FiniteSets

CONSTANTS
    EventKeys,     \* idempotency keys of billing events
    Versions,      \* package versions
    Currencies,    \* the settlement of a tenant is keyed by the currency
    AtOnce,        \* currencies charged by MockPaymentProcessor: paid at once, no webhook
    MaxDeliveries  \* bound: webhooks the provider sends for one intent

VARIABLES
    billed,       \* billing_events: keys
    published,    \* packages: versions
    installs,     \* installs: the version each names
    intent,       \* the provider: amount charged for a key, -1 when there is none
    sent,         \* the provider: webhooks sent for each intent
    payment,      \* payment_records: status of the transaction of each key
    lines,        \* invoice_lines: settlements of each key
    successes     \* history: success reports the provider sent for each key

billingState == <<billed, published, installs, intent, sent, payment, lines, successes>>

billingVars == <<requestVars, billingState>>

BillingInit ==
    /\ billed = {}
    /\ published = {}
    /\ installs = {}
    /\ intent = [c \in Currencies |-> -1]
    /\ sent = [c \in Currencies |-> 0]
    /\ payment = [c \in Currencies |-> "none"]
    /\ lines = [c \in Currencies |-> 0]
    /\ successes = [c \in Currencies |-> 0]

-----------------------------------------------------------------------------
\* PackageService.publish: a version that is there is refused, by the query or,
\* when two requests overlap, by the unique constraint.
publish_package(t, v) ==
    /\ OneStep(t)
    /\ v \notin published
    /\ published' = published \cup {v}
    /\ UNCHANGED <<billed, installs, intent, sent, payment, lines, successes>>

\* PackageService.install: the version asked for, or the newest
install_package(t, v) ==
    /\ OneStep(t)
    /\ v \in published
    /\ installs' = installs \cup {v}
    /\ UNCHANGED <<billed, published, intent, sent, payment, lines, successes>>

\* record_event: a key that is there is answered with processed = False.
record_event(t, k) ==
    /\ OneStep(t)
    /\ k \notin billed
    /\ billed' = billed \cup {k}
    /\ UNCHANGED <<published, installs, intent, sent, payment, lines, successes>>

\* build_invoice sums all events of the tenant; nothing marks an event as paid.
build_invoice == Cardinality(billed)

-----------------------------------------------------------------------------
settle_invoice(t, c) ==
    /\ Begin(t, [Idle EXCEPT !.op = "settle", !.at = "charge", !.id = c, !.copy = build_invoice])
    /\ UNCHANGED billingState

\* The provider knows a key: with the same amount it returns the first intent,
\* with another amount it raises.
charge(t) ==
    /\ At(t, "charge")
    /\ LET c == call[t].id
       IN  IF intent[c] \in {-1, call[t].copy}
           THEN intent' = [intent EXCEPT ![c] = call[t].copy] /\ Step(t, "record")
           ELSE Done(t) /\ UNCHANGED intent
    /\ UNCHANGED <<billed, published, installs, sent, payment, lines, successes>>

\* Mutant of record_payment: a record that is there is written again.
RecordPaymentAgain(t) ==
    /\ At(t, "record")
    /\ payment' = [payment EXCEPT ![call[t].id] = "pending"]
    /\ Done(t)
    /\ UNCHANGED <<billed, published, installs, intent, sent, lines, successes>>

\* provider_txn_id is unique, so a second record of the transaction raises.
record_payment(t) ==
    /\ At(t, "record")
    /\ LET c == call[t].id
       IN  IF payment[c] # "none" THEN UNCHANGED <<payment, lines>>
           ELSE /\ payment' = [payment EXCEPT ![c] = IF c \in AtOnce THEN "succeeded" ELSE "pending"]
                /\ lines' = [lines EXCEPT ![c] = IF c \in AtOnce THEN @ + 1 ELSE @]
    /\ Done(t)
    /\ UNCHANGED <<billed, published, installs, intent, sent, successes>>

-----------------------------------------------------------------------------
WebhookKinds == {"succeeded", "failed", "processing"}

\* The provider reports on an intent; the handler finds the payment or answers 404.
stripe_webhook(t, c, kind) ==
    /\ intent[c] >= 0
    /\ c \notin AtOnce
    /\ sent[c] < MaxDeliveries
    /\ sent' = [sent EXCEPT ![c] = @ + 1]
    /\ successes' = [successes EXCEPT ![c] = IF kind = "succeeded" THEN @ + 1 ELSE @]
    /\ IF payment[c] = "none"
       THEN OneStep(t)
       ELSE Begin(t, [Idle EXCEPT !.op = kind, !.at = "webhook", !.id = c])
    /\ UNCHANGED <<billed, published, installs, intent, payment, lines>>

\* handle_stripe_webhook: the status is set whatever it was, and a success adds
\* a settlement line each time.
handle_stripe_webhook(t) ==
    /\ At(t, "webhook")
    /\ LET c == call[t].id
           paid == call[t].op = "succeeded"
       IN  /\ payment' = [payment EXCEPT ![c] = call[t].op]
           /\ lines' = [lines EXCEPT ![c] = IF paid THEN @ + 1 ELSE @]
    /\ Done(t)
    /\ UNCHANGED <<billed, published, installs, intent, sent, successes>>

\* A request dies or its session rolls back: the charge stays with the provider.
CrashBilling(t) ==
    /\ ~ At(t, "idle")
    /\ Done(t)
    /\ UNCHANGED billingState

BillingNext ==
    \E t \in Threads :
        \/ \E v \in Versions : publish_package(t, v) \/ install_package(t, v)
        \/ \E k \in EventKeys : record_event(t, k)
        \/ \E c \in Currencies :
              \/ settle_invoice(t, c)
              \/ \E kind \in WebhookKinds : stripe_webhook(t, c, kind)
        \/ charge(t) \/ record_payment(t) \/ handle_stripe_webhook(t) \/ CrashBilling(t)

BillingSpec == RequestsInit /\ BillingInit /\ [][BillingNext]_billingVars

-----------------------------------------------------------------------------
\* Settlements follow the provider: a payment is recorded only for an intent the
\* provider has; there is at most one settlement line for each success report it
\* sent, and one for a charge that is paid at once, however often the settlement
\* is asked for; no line stands before the outcome, and a payment that says
\* succeeded has its line.
SettlementsFollowProvider ==
    \A c \in Currencies :
        /\ payment[c] # "none" => intent[c] >= 0
        /\ lines[c] <= (IF c \in AtOnce THEN 1 ELSE successes[c])
        /\ payment[c] = "pending" => lines[c] = 0
        /\ payment[c] = "succeeded" => lines[c] > 0
=============================================================================
