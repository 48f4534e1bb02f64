----------------------------- MODULE Federation -----------------------------
(***************************************************************************)
(* Federation with remote organisations (src/agentfabric/federation and    *)
(* the /federation routes): trust agreements that are activated, revoked   *)
(* and expire, the capability catalogue, signed messages with a nonce, and *)
(* delegations sent as messages.                                           *)
(*                                                                         *)
(* A request runs in a thread of the server; one step is one access to the *)
(* document store or the event store.  The agreement a request acts under  *)
(* is the copy it read, so a revocation can overtake it.  A crash ends a   *)
(* request wherever it is; what it stored stays.                           *)
(***************************************************************************)
EXTENDS Requests, FiniteSets

CONSTANTS
    Agreements,   \* agreement ids (uuid4)
    Messages,     \* messages: id, nonce and signature are made once, by create
    Delegations,  \* delegation ids (uuid4)
    AllowedTasks, \* allowed_capabilities of each agreement
    TaskTypes,    \* task types a caller may ask for
    GovernedTasks \* task types that need a governance approval

\* status of a trust agreement; "absent" is an id that is not stored
AgreementStatus == {"absent", "draft", "active", "revoked", "expired"}

DelegationStatus == {"absent", "requested", "completed", "failed"}

VARIABLES
    orgKnown,    \* federation_orgs has the remote organisation
    agreement,   \* federation_agreements: status of each
    late,        \* agreements whose expires_at has passed
    trail,       \* the status the last event of each agreement announced
    catalogue,   \* federation_remote_capabilities: the agreement of an entry
    stored,      \* federation_messages
    nonces,      \* federation_nonces, by the message that carries the nonce
    receipts,    \* accepted receipts of each message in federation_receipts
    delegation,  \* federation_delegations: status, and the message sent for it
    acks,        \* messages with a receipt a caller added
    metered,     \* usage records "federation_delegations"
    overtaken,   \* history: threads whose agreement changed after they read it
    crossed,     \* history: agreements with two status writers at a time
    twice        \* history: messages two threads were sending at a time

fedStore == <<orgKnown, agreement, late, trail, catalogue, stored, nonces, receipts,
             delegation, acks, metered>>

fedState == <<fedStore, overtaken, crossed, twice>>

fedVars == <<requestVars, fedState>>

NoDelegation == [status |-> "absent", msg |-> "none"]

FedInit ==
    /\ orgKnown = FALSE
    /\ agreement = [a \in Agreements |-> "absent"]
    /\ late = {}
    /\ trail = [a \in Agreements |-> "absent"]
    /\ catalogue = {}
    /\ stored = {}
    /\ nonces = {}
    /\ receipts = [m \in Messages |-> 0]
    /\ delegation = [d \in Delegations |-> NoDelegation]
    /\ acks = {}
    /\ metered = 0
    /\ overtaken = {}
    /\ crossed = {}
    /\ twice = {}

-----------------------------------------------------------------------------
\* Requests that may still write a status: activate and revoke before their
\* event, and any request that may find its agreement expired.
MayWriteStatus(t, a) ==
    /\ call[t].at \in {"activate", "revoke", "assert", "assertFirst", "activated",
                       "revoked", "expired", "expiredFirst"}
    /\ call[t].id = a

\* registry.put_agreement: a thread that read the agreement earlier is overtaken.
PutAgreement(t, a, status) ==
    /\ agreement' = [agreement EXCEPT ![a] = status]
    /\ overtaken' = overtaken \cup {u \in Others(t) : call[u].id = a}
    /\ crossed' = IF \E u \in Others(t) : MayWriteStatus(u, a)
                  THEN crossed \cup {a} ELSE crossed

-----------------------------------------------------------------------------
(* Organisations and agreements. *)

create_org(t) ==
    /\ OneStep(t)
    /\ orgKnown' = TRUE
    /\ UNCHANGED <<agreement, late, trail, catalogue, stored, nonces, receipts,
                   delegation, metered, acks, overtaken, crossed, twice>>

\* The route answers 404 while no organisation has the remote id.  The id is
\* new, so nobody else writes this agreement before its event.
create_agreement(t, a) ==
    /\ OneStep(t)
    /\ orgKnown
    /\ agreement[a] = "absent"
    /\ agreement' = [agreement EXCEPT ![a] = "draft"]
    /\ trail' = [trail EXCEPT ![a] = "draft"]
    /\ UNCHANGED <<orgKnown, late, catalogue, stored, nonces, receipts, delegation,
                   metered, acks, overtaken, crossed, twice>>

\* The clock passes expires_at.
PassExpiry(a) ==
    /\ agreement[a] # "absent"
    /\ late' = late \cup {a}
    /\ UNCHANGED <<orgKnown, agreement, trail, catalogue, stored, nonces, receipts,
                   delegation, metered, requestVars, acks, overtaken, crossed, twice>>

\* The read at the head of activate_agreement and revoke_agreement; neither
\* looks at the status.
ReadToChange(t, a, op) ==
    /\ agreement[a] # "absent"
    /\ Begin(t, [Idle EXCEPT !.op = op, !.at = op, !.id = a, !.copy = agreement[a]])
    /\ overtaken' = overtaken \ {t}
    /\ UNCHANGED <<fedStore, crossed, twice>>

activate_agreement(t) ==
    /\ At(t, "activate")
    /\ LET a == call[t].id
       IN  /\ PutAgreement(t, a, IF a \in late THEN "expired" ELSE "active")
           /\ Step(t, IF a \in late THEN "expired" ELSE "activated")
    /\ UNCHANGED <<orgKnown, late, trail, catalogue, stored, nonces, receipts,
                   delegation, metered, acks, twice>>

revoke_agreement(t) ==
    /\ At(t, "revoke")
    /\ PutAgreement(t, call[t].id, "revoked")
    /\ Step(t, "revoked")
    /\ UNCHANGED <<orgKnown, late, trail, catalogue, stored, nonces, receipts,
                   delegation, metered, acks, twice>>

\* event_store.append of the new status, and the end of the request
StatusEvent(t) ==
    /\ call[t].at \in {"activated", "revoked", "expired"}
    /\ trail' = [trail EXCEPT ![call[t].id] = CASE At(t, "activated") -> "active"
                                                [] At(t, "revoked") -> "revoked"
                                                [] At(t, "expired") -> "expired"]
    /\ Done(t)
    /\ UNCHANGED <<orgKnown, agreement, late, catalogue, stored, nonces, receipts,
                   delegation, metered, acks, overtaken, crossed, twice>>

-----------------------------------------------------------------------------
(* Requests made under an agreement.                                        *)

Sends(t) == call[t].op \in {"message", "delegate"}

\* publish and import act under the agreement their route read; discover,
\* send_message and request_delegation read it themselves.
ReadAgreement(t, a, op, m, d) ==
    /\ agreement[a] # "absent"
    /\ Begin(t, [op |-> op, at |-> IF op = "delegate" THEN "assertFirst" ELSE "assert",
                    id |-> a, copy |-> agreement[a], arg |-> [msg |-> m, del |-> d]])
    /\ overtaken' = overtaken \ {t}
    /\ twice' = IF m # "none" /\ \E u \in Others(t) : Sends(u) /\ call[u].arg.msg = m
                THEN twice \cup {m} ELSE twice
    /\ UNCHANGED <<fedStore, crossed>>


\* Mutant of assert_active: the expired agreement is stored without its event.
AssertSilently(t, next) ==
    LET a == call[t].id
    IN  /\ \/ a \in late /\ PutAgreement(t, a, "expired") /\ Done(t)
           \/ a \notin late /\ call[t].copy # "active" /\ Done(t)
              /\ UNCHANGED <<agreement, overtaken, crossed>>
           \/ a \notin late /\ call[t].copy = "active" /\ Step(t, next)
              /\ UNCHANGED <<agreement, overtaken, crossed>>
        /\ UNCHANGED <<orgKnown, late, trail, catalogue, stored, nonces, receipts,
                       delegation, metered, acks, twice>>

\* _assert_active: an agreement past its date is stored as expired, whatever
\* its status is now; a copy that is not active ends the request.
assert_active(t, next) ==
    LET a == call[t].id
    IN  /\ \/ a \in late /\ PutAgreement(t, a, "expired") /\ Step(t, "expired")
           \/ a \notin late /\ call[t].copy # "active" /\ Done(t)
              /\ UNCHANGED <<agreement, overtaken, crossed>>
           \/ a \notin late /\ call[t].copy = "active" /\ Step(t, next)
              /\ UNCHANGED <<agreement, overtaken, crossed>>
        /\ UNCHANGED <<orgKnown, late, trail, catalogue, stored, nonces, receipts,
                       delegation, metered, acks, twice>>

\* The place after the check: what the operation does next.
AfterAssert(op) ==
    CASE op \in {"publish", "import"} -> "catalogue"
      [] op = "discover" -> "discover"
      [] op \in {"message", "delegate"} -> "validate"

AssertActive(t) == At(t, "assert") /\ assert_active(t, AfterAssert(call[t].op))

AssertFirst(t) == At(t, "assertFirst") /\ assert_active(t, "delegate")

\* publish_local and import_remote store the entry, then the event follows.
PutCapability(t) ==
    /\ At(t, "catalogue")
    /\ catalogue' = catalogue \cup {call[t].id}
    /\ Done(t)
    /\ UNCHANGED <<orgKnown, agreement, late, trail, stored, nonces, receipts,
                   delegation, metered, acks, overtaken, crossed, twice>>

\* The directory lists the entries of the remote organisation; filter_catalog
\* checks the same copy again, and the clock.
discover(t) ==
    /\ At(t, "discover")
    /\ Done(t)
    /\ UNCHANGED <<fedStore, overtaken, crossed, twice>>

\* request_delegation: the capability must be allowed and governed tasks must
\* be approved; payload and VEIL checks may refuse.  send_message reads again.
request_delegation(t, task, approved) ==
    /\ At(t, "delegate")
    /\ \/ /\ task \in AllowedTasks[call[t].id]
          /\ task \in GovernedTasks => approved
          /\ Goto(t, [call[t] EXCEPT !.at = "assert", !.copy = agreement[call[t].id]])
          /\ overtaken' = overtaken \ {t}
       \/ /\ Done(t)
          /\ UNCHANGED overtaken
    /\ UNCHANGED <<fedStore, crossed, twice>>

\* FederatedMessageRouter._validate: the date of the agreement, a nonce seen
\* before, and for other reasons TTL, signature, payload and VEIL policy.
validate(t) ==
    /\ At(t, "validate")
    /\ \/ call[t].id \notin late /\ call[t].arg.msg \notin nonces /\ Step(t, "message")
       \/ Done(t)
    /\ UNCHANGED <<fedStore, overtaken, crossed, twice>>

\* FederatedMessageRouter.send: message, nonce (and event), receipt.
PutMessage(t) ==
    /\ At(t, "message")
    /\ stored' = stored \cup {call[t].arg.msg}
    /\ Step(t, "nonce")
    /\ UNCHANGED <<orgKnown, agreement, late, trail, catalogue, nonces, receipts,
                   delegation, metered, acks, overtaken, crossed, twice>>

PutNonce(t) ==
    /\ At(t, "nonce")
    /\ nonces' = nonces \cup {call[t].arg.msg}
    /\ Step(t, "receipt")
    /\ UNCHANGED <<orgKnown, agreement, late, trail, catalogue, stored, receipts,
                   delegation, metered, acks, overtaken, crossed, twice>>

PutReceipt(t) ==
    /\ At(t, "receipt")
    /\ receipts' = [receipts EXCEPT ![call[t].arg.msg] = @ + 1]
    /\ IF call[t].op = "delegate" THEN Step(t, "putDelegation") ELSE Done(t)
    /\ UNCHANGED <<orgKnown, agreement, late, trail, catalogue, stored, nonces,
                   delegation, metered, acks, overtaken, crossed, twice>>

PutDelegation(t) ==
    /\ At(t, "putDelegation")
    /\ delegation' = [delegation EXCEPT ![call[t].arg.del] =
                        [status |-> "requested", msg |-> call[t].arg.msg]]
    /\ Step(t, "meter")
    /\ UNCHANGED <<orgKnown, agreement, late, trail, catalogue, stored, nonces, receipts,
                   metered, acks, overtaken, crossed, twice>>

\* The route records the usage after the delegation is stored.
MeterDelegation(t) ==
    /\ At(t, "meter")
    /\ metered' = metered + 1
    /\ Done(t)
    /\ UNCHANGED <<orgKnown, agreement, late, trail, catalogue, stored, nonces, receipts,
                   delegation, acks, overtaken, crossed, twice>>

\* A caller may add a receipt of its own to a stored message.
federation_message_receipt(t, m) ==
    /\ OneStep(t)
    /\ m \in stored
    /\ acks' = acks \cup {m}
    /\ UNCHANGED <<orgKnown, agreement, late, trail, catalogue, stored, nonces, receipts,
                   delegation, metered, overtaken, crossed, twice>>

\* complete_delegation and reject_delegation: a put of the record with a new
\* status; neither looks at the status or at the agreement.
decide_delegation(t, d, outcome) ==
    /\ OneStep(t)
    /\ delegation[d].status # "absent"
    /\ delegation' = [delegation EXCEPT ![d].status = outcome]
    /\ UNCHANGED <<orgKnown, agreement, late, trail, catalogue, stored, nonces, receipts,
                   metered, acks, overtaken, crossed, twice>>

\* The process stops: the request is gone, a status it stored has no event.
CrashFed(t) ==
    /\ ~ At(t, "idle")
    /\ Done(t)
    /\ crossed' = IF call[t].at \in {"activated", "revoked", "expired"}
                  THEN crossed \cup {call[t].id} ELSE crossed
    /\ UNCHANGED <<fedStore, overtaken, twice>>

-----------------------------------------------------------------------------
FreshDelegation(d) ==
    /\ delegation[d] = NoDelegation
    /\ \A u \in Threads : Sends(u) => call[u].arg.del # d

federation_agreement_activate(t, a) == ReadToChange(t, a, "activate")

federation_agreement_revoke(t, a) == ReadToChange(t, a, "revoke")

federation_capabilities_publish(t, a) == ReadAgreement(t, a, "publish", "none", "none")

federation_capabilities_import(t, a) == ReadAgreement(t, a, "import", "none", "none")

federation_capabilities(t, a) == ReadAgreement(t, a, "discover", "none", "none")

\* The route makes a new message each time; another caller of send_message may
\* send one again.
send_message(t, a, m) == ReadAgreement(t, a, "message", m, "none")

federation_delegation_create(t, a, m, d) ==
    /\ m \notin stored
    /\ FreshDelegation(d)
    /\ ReadAgreement(t, a, "delegate", m, d)

federation_delegation_complete(t, d) == decide_delegation(t, d, "completed")

federation_delegation_reject(t, d) == decide_delegation(t, d, "failed")

FedRoutes(t) ==
    \/ create_org(t)
    \/ \E a \in Agreements :
         \/ create_agreement(t, a)
         \/ federation_agreement_activate(t, a)
         \/ federation_agreement_revoke(t, a)
         \/ federation_capabilities_publish(t, a)
         \/ federation_capabilities_import(t, a)
         \/ federation_capabilities(t, a)
         \/ \E m \in Messages :
              \/ send_message(t, a, m)
              \/ \E d \in Delegations : federation_delegation_create(t, a, m, d)
    \/ \E m \in Messages : federation_message_receipt(t, m)
    \/ \E d \in Delegations :
         \/ federation_delegation_complete(t, d)
         \/ federation_delegation_reject(t, d)

FedNext ==
    \/ \E t \in Threads :
         \/ FedRoutes(t)
         \/ activate_agreement(t) \/ revoke_agreement(t) \/ StatusEvent(t)
         \/ AssertActive(t) \/ AssertFirst(t)
         \/ PutCapability(t) \/ discover(t)
         \/ \E task \in TaskTypes, approved \in BOOLEAN : request_delegation(t, task, approved)
         \/ validate(t) \/ PutMessage(t) \/ PutNonce(t) \/ PutReceipt(t)
         \/ PutDelegation(t) \/ MeterDelegation(t)
         \/ CrashFed(t)
    \/ \E a \in Agreements : PassExpiry(a)

FedSpec == RequestsInit /\ FedInit /\ [][FedNext]_fedVars

-----------------------------------------------------------------------------
\* The steps by which a request takes effect: a discovery is answered, a
\* capability, a message or a delegation is stored.
TakesEffect(t) ==
    /\ call[t].at \in {"catalogue", "discover", "message", "putDelegation"}
    /\ call'[t].at # call[t].at


\* The events tell the truth about agreements: once no request is between a
\* write and its event, the last event of an agreement names its status, unless
\* two writers overlapped on it or a writer crashed in between.
TrailAgrees ==
    \A a \in Agreements \ crossed :
        (\A t \in Threads : ~ MayWriteStatus(t, a) \/ call[t].at \in {"assert", "assertFirst",
                                                                       "activate", "revoke"})
            => trail[a] = agreement[a]

\* A stored delegation was sent: its message, the nonce and a receipt are in
\* the store, wherever requests crash.
DelegationBacked ==
    \A d \in Delegations : delegation[d].status # "absent" =>
        /\ delegation[d].msg \in stored \cap nonces
        /\ receipts[delegation[d].msg] > 0

\* A message that is sent again is accepted at most once: a second receipt
\* needs two requests that were sending it at the same time.
AcceptedOnceUnlessOverlapped == \A m \in Messages \ twice : receipts[m] <= 1

\* Usage is never charged for a delegation that is not stored.
MeteredDelegationsExist ==
    metered <= Cardinality({d \in Delegations : delegation[d].status # "absent"})

\* The records of the federation agree with each other, through overlapping
\* requests and crashes: events with agreements, delegations with messages,
\* nonces with receipts, and usage with delegations.
FederationRecordsAgree ==
    TrailAgrees /\ DelegationBacked /\ AcceptedOnceUnlessOverlapped /\ MeteredDelegationsExist
=============================================================================
