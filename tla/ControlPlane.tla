---------------------------- MODULE ControlPlane ----------------------------
(***************************************************************************)
(* The production control plane (src/agentfabric/production, the runtime   *)
(* of phase1/runtime.py that it keeps in memory, and their routes): an     *)
(* agent that is installed, loaded, run, suspended and uninstalled,        *)
(* packages and their billing, an audit chain, reviews and moderation,     *)
(* deletion requests, legal documents, tokens, and backups.  Every method  *)
(* of ProductionStore is one transaction on the SQLite file; a request is  *)
(* several of them, and the process may stop between any two.              *)
(***************************************************************************)
EXTENDS Requests, Sequences, FiniteSets

CONSTANTS
    Subjects,     \* users of the tenant
    Uploads,      \* packages a developer may send: version, own, signed, clean
    MaxDocuments  \* bound: versions of the legal document

VARIABLES
    db,       \* the SQLite file
    live,     \* state of the agent in the orchestrator
    charged,  \* totals the payment gateway charged
    backup,   \* the last backup file, and whether it was made between requests
    past      \* history: what may leave two records of the plane apart

planeState == <<db, live, charged, backup, past>>

planeVars == <<requestVars, planeState>>

GENESIS == <<>>
NoBackup == [none |-> TRUE]

\* SCHEMA_SQL: the tables
PlaneInit ==
    /\ db = [agent |-> "none", packages |-> <<>>, installs |-> {},
             billed |-> {}, runs |-> 0, ledger |-> {}, audit |-> <<>>,
             reviews |-> <<>>, moderation |-> <<>>, deletions |-> <<>>,
             document |-> 0, accepted |-> {}, tokens |-> <<>>,
             owner |-> "none", members |-> {}, roles |-> {}]
    /\ live = "none"
    /\ charged = {}
    /\ backup = NoBackup
    /\ past = {}

Plane(op, place, id, arg) == [op |-> op, at |-> place, id |-> id, copy |-> "none", arg |-> arg]

InPlane(t, op, place) == call[t].op = op /\ At(t, place)

PlaneOps == {"runtime", "run", "install", "settle", "audit", "review", "deletion", "accept", "rotate"}

Busy(t) == call[t].op \in PlaneOps

Remember(s) == past' = past \cup s

Overlapping(t, op) == IF \E u \in Others(t) : call[u].op = op THEN {op} ELSE {}

\* One transaction; the runtime, the gateway and the backups are left alone.
Commit(d) == db' = d /\ UNCHANGED <<live, charged, backup>>

-----------------------------------------------------------------------------
\* The agent: the orchestrator first, then its row

Runtime(t, state) ==
    /\ Begin(t, Plane("runtime", "row", "agent", state))
    /\ live' = state
    /\ Remember(Overlapping(t, "runtime"))
    /\ UNCHANGED <<db, charged, backup>>

install_runtime_agent(t) == Runtime(t, "installed")

runtime_load(t) == live # "none" /\ Runtime(t, "loaded")

runtime_suspend(t) == live # "none" /\ Runtime(t, "suspended")

runtime_uninstall(t) == live # "none" /\ Runtime(t, "none")

upsert_runtime_agent == [db EXCEPT !.agent = "installed"]

\* An update that finds no row raises.
update_runtime_agent_state(state) == IF db.agent = "none" THEN db ELSE [db EXCEPT !.agent = state]

delete_runtime_agent == [db EXCEPT !.agent = "none"]

put_row(t) ==
    /\ InPlane(t, "runtime", "row")
    /\ Commit(CASE call[t].arg = "installed" -> upsert_runtime_agent
                [] call[t].arg = "none" -> delete_runtime_agent
                [] OTHER -> update_runtime_agent_state(call[t].arg))
    /\ Done(t)
    /\ UNCHANGED past

\* AgentOrchestrator.run loads an agent that it finds only installed; it raises
\* when there is none or it is suspended.
runtime_run(t) ==
    /\ live \in {"installed", "loaded"}
    /\ Begin(t, Plane("run", IF live = "installed" THEN "load" ELSE "agent", "agent", "none"))
    /\ UNCHANGED planeState

load_for_run(t) ==
    /\ InPlane(t, "run", "load")
    /\ IF live = "none" THEN UNCHANGED live /\ Done(t)
                        ELSE live' = "loaded" /\ Step(t, "agent")
    /\ Remember({"runtime"})
    /\ UNCHANGED <<db, charged, backup>>

bill_run == [db EXCEPT !.runs = @ + 1]

\* The run is billed when it returns; a timeout or an error raises before.
finish_run(t) ==
    /\ InPlane(t, "run", "agent")
    /\ \E ok \in BOOLEAN : Commit(IF ok THEN bill_run ELSE db)
    /\ Done(t)
    /\ UNCHANGED past

-----------------------------------------------------------------------------
\* Packages and billing

\* PackageSecurityPipeline: the signature verifies and the scan finds nothing.
validate(p) == p.signed /\ p.clean

\* A version exists once.
put_package(p) ==
    /\ \A i \in DOMAIN db.packages : db.packages[i] # p.version
    /\ Commit([db EXCEPT !.packages = Append(@, p.version)])

publish_package(t, p) ==
    /\ Begin(t, Idle)
    /\ p.own /\ validate(p)
    /\ put_package(p)
    /\ UNCHANGED past

\* get_package without a version: the one created last
get_package == db.packages[Len(db.packages)]

install_package(t, u) ==
    /\ db.packages # <<>>
    /\ Begin(t, Plane("install", "add", u, get_package))
    /\ UNCHANGED planeState

\* Mutant of add_install: the install is not billed.
AddUnbilled(t) ==
    /\ InPlane(t, "install", "add")
    /\ Commit([db EXCEPT !.installs = @ \cup {<<call[t].id, call[t].arg>>}])
    /\ Done(t)
    /\ UNCHANGED past

add_install(t) ==
    /\ InPlane(t, "install", "add")
    /\ Commit([db EXCEPT !.installs = @ \cup {<<call[t].id, call[t].arg>>}])
    /\ Step(t, "bill")
    /\ UNCHANGED past

\* record_billing_event: an event with the same key is not recorded again.
record_billing_event(t) ==
    /\ InPlane(t, "install", "bill")
    /\ Commit([db EXCEPT !.billed = @ \cup {<<call[t].id, call[t].arg>>}])
    /\ Done(t)
    /\ UNCHANGED past

\* Prices of an install and a run, in cents
build_invoice == 5 * Cardinality(db.billed) + db.runs

settle_invoice(t) ==
    /\ Begin(t, Plane("settle", "charge", "tenant", build_invoice))
    /\ UNCHANGED planeState

charge(t) ==
    /\ InPlane(t, "settle", "charge")
    /\ charged' = charged \cup {call[t].arg}
    /\ Step(t, "ledger")
    /\ UNCHANGED <<db, live, backup, past>>

add_billing_ledger_line(t) ==
    /\ InPlane(t, "settle", "ledger")
    /\ Commit([db EXCEPT !.ledger = @ \cup {call[t].arg}])
    /\ Done(t)
    /\ UNCHANGED past

-----------------------------------------------------------------------------
\* The audit chain.  The digest is taken of the metadata as it came; the row
\* keeps it as JSON with sorted keys.

event_hash(metadata, previous) == <<metadata, previous>>

json_dumps(metadata) == "sorted"

last_audit_hash == IF db.audit = <<>> THEN GENESIS ELSE db.audit[Len(db.audit)].hash

append_audit(t, metadata) ==
    /\ Begin(t, Plane("audit", "row", metadata, last_audit_hash))
    /\ UNCHANGED planeState

put_audit(t) ==
    /\ InPlane(t, "audit", "row")
    /\ Commit([db EXCEPT !.audit =
                 Append(@, [metadata |-> json_dumps(call[t].id), previous |-> call[t].arg,
                            hash |-> event_hash(call[t].id, call[t].arg)])])
    /\ Remember(Overlapping(t, "audit") \cup IF call[t].id # "sorted" THEN {"audit"} ELSE {})
    /\ Done(t)

verify_audit_integrity ==
    \A i \in DOMAIN db.audit :
        LET previous == IF i = 1 THEN GENESIS ELSE db.audit[i - 1].hash
        IN  /\ db.audit[i].previous = previous
            /\ db.audit[i].hash = event_hash(db.audit[i].metadata, previous)

-----------------------------------------------------------------------------
\* Reviews: one that contains a banned term waits for moderation.

Flagged == {"pending", "approved"}

submit_review(t, u, status) ==
    /\ status \in Flagged
    /\ Begin(t, IF status = "pending" THEN Plane("review", "enqueue", Len(db.reviews) + 1, "none") ELSE Idle)
    /\ Commit([db EXCEPT !.reviews = Append(@, [user |-> u, status |-> status]),
                         !.moderation = Append(@, "none")])
    /\ UNCHANGED past

enqueue_review_moderation(t) ==
    /\ InPlane(t, "review", "enqueue")
    /\ Commit(IF call[t].id \in DOMAIN db.moderation
              THEN [db EXCEPT !.moderation[call[t].id] = "pending"] ELSE db)
    /\ Done(t)
    /\ UNCHANGED past

moderate_review(t, i, status) ==
    /\ Begin(t, Idle)
    /\ Commit([db EXCEPT !.reviews[i].status = IF @ = "deleted" THEN @ ELSE status,
                         !.moderation[i] = IF @ = "none" THEN @ ELSE "done"])
    /\ UNCHANGED past

-----------------------------------------------------------------------------
\* Deletion requests of a user, or of the whole tenant

Everyone == "everyone"

request_deletion(t, u) ==
    /\ Begin(t, Idle)
    /\ Commit([db EXCEPT !.deletions = Append(@, [user |-> u, status |-> "pending"])])
    /\ UNCHANGED past

pending_deletion_requests == {i \in DOMAIN db.deletions : db.deletions[i].status = "pending"}

\* Mutant of process_pending_deletions: completed requests are processed too.
ProcessAllDeletions(t) ==
    /\ DOMAIN db.deletions # {}
    /\ Begin(t, Plane("deletion", "execute", "tenant", DOMAIN db.deletions))
    /\ UNCHANGED planeState

process_pending_deletions(t) ==
    /\ pending_deletion_requests # {}
    /\ Begin(t, Plane("deletion", "execute", "tenant", pending_deletion_requests))
    /\ UNCHANGED planeState

Concerns(request, u) == request.user \in {u, Everyone}

\* The reviews are deleted; the moderation queue keeps its rows.
Erased(request) ==
    [db EXCEPT !.installs = {i \in @ : ~ Concerns(request, i[1])},
               !.reviews = [i \in DOMAIN @ |->
                   IF Concerns(request, @[i].user) THEN [@[i] EXCEPT !.status = "deleted"] ELSE @[i]]]

\* A request that is not there any more raises.
execute_deletion_request(t) ==
    /\ InPlane(t, "deletion", "execute")
    /\ \E i \in call[t].arg :
         /\ \A k \in call[t].arg : i <= k
         /\ IF i \in DOMAIN db.deletions
            THEN /\ Commit([Erased(db.deletions[i]) EXCEPT !.deletions[i].status = "completed"])
                 /\ IF call[t].arg = {i} THEN Done(t) ELSE Goto(t, [call[t] EXCEPT !.arg = @ \ {i}])
            ELSE Commit(db) /\ Done(t)
    /\ Remember(Overlapping(t, "deletion"))

-----------------------------------------------------------------------------
\* Legal documents

publish_document(t) ==
    /\ Begin(t, Idle)
    /\ db.document < MaxDocuments
    /\ Commit([db EXCEPT !.document = @ + 1])
    /\ UNCHANGED past

accept(t, u) ==
    /\ db.document > 0
    /\ Begin(t, Plane("accept", "row", u, db.document))
    /\ UNCHANGED planeState

accept_legal_document(t) ==
    /\ InPlane(t, "accept", "row")
    /\ Commit([db EXCEPT !.accepted = @ \cup {<<call[t].id, call[t].arg>>}])
    /\ Done(t)
    /\ UNCHANGED past

\* Namespaces: the creator owns it and grants access to others.
create_namespace(t, u) ==
    /\ Begin(t, Idle)
    /\ db.owner = "none"
    /\ Commit([db EXCEPT !.owner = u, !.members = {u}])
    /\ UNCHANGED past

grant_namespace_access(t, u, w) ==
    /\ Begin(t, Idle)
    /\ db.owner = u
    /\ Commit([db EXCEPT !.members = @ \cup {w}])
    /\ UNCHANGED past

\* Roles: INSERT OR IGNORE, never removed
assign_role(t, u) ==
    /\ Begin(t, Idle)
    /\ Commit([db EXCEPT !.roles = @ \cup {u}])
    /\ UNCHANGED past

\* Tokens: a rotation authenticates, revokes and issues, in three transactions.
store_token(asked) == [db EXCEPT !.tokens = Append(@, [valid |-> TRUE, asked |-> asked])]

issue_token(t) ==
    /\ Begin(t, Idle)
    /\ Commit(store_token(TRUE))
    /\ UNCHANGED past

authenticate_token(k) == k \in DOMAIN db.tokens /\ db.tokens[k].valid

rotate_token(t, k) ==
    /\ authenticate_token(k)
    /\ Begin(t, Plane("rotate", "revoke", k, "none"))
    /\ Remember(Overlapping(t, "rotate"))
    /\ UNCHANGED <<db, live, charged, backup>>

revoke_token(t) ==
    /\ InPlane(t, "rotate", "revoke")
    /\ Commit(IF call[t].id \in DOMAIN db.tokens THEN [db EXCEPT !.tokens[call[t].id].valid = FALSE] ELSE db)
    /\ Step(t, "issue")
    /\ UNCHANGED past

reissue_token(t) ==
    /\ InPlane(t, "rotate", "issue")
    /\ Commit(store_token(FALSE))
    /\ Done(t)
    /\ UNCHANGED past

-----------------------------------------------------------------------------
\* Backups copy the file and copy it back; the orchestrator keeps its agents.

Quiet(t) == \A u \in Others(t) : ~ Busy(u)

create_backup(t) ==
    /\ Begin(t, Idle)
    /\ backup' = [file |-> db, quiet |-> Quiet(t)]
    /\ UNCHANGED <<db, live, charged, past>>

restore_backup(t) ==
    /\ Begin(t, Idle)
    /\ backup # NoBackup
    /\ db' = backup.file
    /\ Remember({"runtime", "restored"} \cup IF backup.quiet /\ Quiet(t) THEN {} ELSE {"torn"})
    /\ UNCHANGED <<live, charged, backup>>

\* _bootstrap_runtime_from_store when the process starts again: the agent is as
\* its row says, and every request is gone.
Restart ==
    /\ left > 0 /\ left' = left - 1
    /\ call' = [t \in Threads |-> IF Busy(t) THEN Idle ELSE call[t]]
    /\ live' = db.agent
    /\ past' = (past \ {"runtime"}) \cup
               {c \in {"install", "settle", "review"} :
                    \E t \in Threads : call[t].op = c /\ call[t].at \in {"bill", "ledger", "enqueue"}}
    /\ UNCHANGED <<db, charged, backup>>

-----------------------------------------------------------------------------
\* The routes

runtime_routes(t) ==
    \/ install_runtime_agent(t) \/ runtime_load(t) \/ runtime_run(t)
    \/ runtime_suspend(t) \/ runtime_uninstall(t)

enterprise_routes(t) ==
    \/ \E u \in Subjects : assign_role(t, u)
    \/ \E u \in Subjects : create_namespace(t, u)
    \/ \E u, w \in Subjects : grant_namespace_access(t, u, w)
    \/ \E m \in {"sorted", "as sent"} : append_audit(t, m)

review_routes(t) ==
    \/ \E u \in Subjects, s \in Flagged : submit_review(t, u, s)
    \/ \E i \in DOMAIN db.reviews, s \in {"approved", "rejected"} : moderate_review(t, i, s)

compliance_routes(t) ==
    \/ \E u \in Subjects \cup {Everyone} : request_deletion(t, u)
    \/ process_pending_deletions(t)
    \/ publish_document(t)
    \/ \E u \in Subjects : accept(t, u)

ops_routes(t) == create_backup(t) \/ restore_backup(t)

\* Calls of the control plane that no route of the server makes
console(t) ==
    \/ \E p \in Uploads : publish_package(t, p)
    \/ \E u \in Subjects : install_package(t, u)
    \/ settle_invoice(t)
    \/ issue_token(t)
    \/ \E k \in DOMAIN db.tokens : rotate_token(t, k)

PlaneNext ==
    \/ \E t \in Threads :
        \/ runtime_routes(t) \/ enterprise_routes(t) \/ review_routes(t)
        \/ compliance_routes(t) \/ ops_routes(t) \/ console(t)
        \/ put_row(t) \/ load_for_run(t) \/ finish_run(t) \/ add_install(t) \/ record_billing_event(t)
        \/ charge(t) \/ add_billing_ledger_line(t) \/ put_audit(t)
        \/ enqueue_review_moderation(t) \/ execute_deletion_request(t)
        \/ accept_legal_document(t) \/ revoke_token(t) \/ reissue_token(t)
    \/ Restart

PlaneSpec == RequestsInit /\ PlaneInit /\ [][PlaneNext]_planeVars

-----------------------------------------------------------------------------
About(op, places) == \E t \in Threads : call[t].op = op /\ call[t].at \in places

\* The records of the control plane agree.  The agent is in the orchestrator what
\* its row says, so that a restart brings it back as it was, unless requests on it
\* overlapped, a run loaded it, or a backup was restored since the last restart.
\* Every install is billed, every charge has its ledger line and every review that
\* is pending waits in the moderation queue, unless the request has not come to it
\* or the process stopped before, or a backup made or restored in the middle of a
\* request was brought back.  The audit chain verifies unless appends overlapped or
\* metadata came with unsorted keys.  There are no more valid tokens than were
\* asked for, unless rotations overlapped.
PlaneRecordsAgree ==
    /\ About("runtime", {"row"}) \/ "runtime" \in past \/ live = db.agent
    /\ "torn" \in past \/
       /\ db.installs \subseteq db.billed \/ About("install", {"bill"}) \/ "install" \in past
       /\ "restored" \in past \/ About("settle", {"ledger"}) \/ "settle" \in past \/ charged = db.ledger
       /\ \A i \in DOMAIN db.reviews :
            db.reviews[i].status = "pending" =>
                db.moderation[i] = "pending" \/ About("review", {"enqueue"}) \/ "review" \in past
       /\ "audit" \in past \/ verify_audit_integrity
       /\ "rotate" \in past \/
          Cardinality({k \in DOMAIN db.tokens : db.tokens[k].valid})
             <= Cardinality({k \in DOMAIN db.tokens : db.tokens[k].asked})

\* A user's installs and reviews disappear only by a deletion that was pending,
\* never by one that was already completed, unless two requests processed
\* deletions at the same time or a backup was restored.
DeletedOnlyOnRequest ==
    [][LET asked(u) == \E i \in pending_deletion_requests : Concerns(db.deletions[i], u)
       IN  \/ past' \cap {"deletion", "restored"} # {}
           \/ /\ \A i \in db.installs \ db'.installs : asked(i[1])
              /\ \A i \in DOMAIN db.reviews :
                   /\ db.reviews[i].status # "deleted"
                   /\ db'.reviews[i].status = "deleted"
                   => asked(db.reviews[i].user)]_planeVars
=============================================================================
