---------------------------- MODULE ServerAccess ----------------------------
(***************************************************************************)
(* Principals, tokens and the audit log of the server                      *)
(* (src/agentfabric/server/auth.py, AuditService in services.py, the /auth *)
(* and /audit routes).  A request reads committed rows, decides, and its   *)
(* own rows are committed at its end: a decision may rest on rows another  *)
(* request is about to change.                                             *)
(***************************************************************************)
EXTENDS Requests, Sequences

CONSTANTS
    Principals,   \* principal ids
    Tokens,       \* token ids (uuid4)
    AuditActions, \* what an audit event says: actor, action, target, metadata
    MaxAudit      \* bound: length of the audit log

VARIABLES
    principals,   \* principals: registered
    token,        \* tokens: status, and the token a token was rotated from
    expiredTokens,\* tokens past their expires_at
    auditLog,     \* audit_events: what, and the place of the event it links to
    bootstraps,   \* history: registrations the bootstrap token allowed
    overlapped    \* history: what two requests were deciding on at a time

accessState == <<principals, token, expiredTokens, auditLog, bootstraps, overlapped>>

accessVars == <<requestVars, accessState>>

NoToken == [status |-> "none", of |-> "none"]

AccessInit ==
    /\ principals = {}
    /\ token = [k \in Tokens |-> NoToken]
    /\ expiredTokens = {}
    /\ auditLog = <<>>
    /\ bootstraps = 0
    /\ overlapped = {}

\* Two requests that decide on the same thing at a time
Overlap(t, op, x) ==
    overlapped' = IF \E u \in Others(t) : call[u].op = op /\ call[u].id = x
                  THEN overlapped \cup {<<op, x>>} ELSE overlapped

usable(k) == token[k].status = "live" /\ k \notin expiredTokens

-----------------------------------------------------------------------------
\* The first principal is registered with the bootstrap token, later ones by an
\* administrator's token.
register_route(t, p) ==
    /\ principals = {} \/ \E k \in Tokens : usable(k)
    /\ Begin(t, [Idle EXCEPT !.op = "register", !.at = "register", !.id = "first",
                             !.copy = p, !.arg = principals = {}])
    /\ Overlap(t, "register", "first")
    /\ UNCHANGED <<principals, token, expiredTokens, auditLog, bootstraps>>

register_principal(t) ==
    /\ At(t, "register")
    /\ principals' = principals \cup {call[t].copy}
    /\ bootstraps' = IF call[t].arg THEN bootstraps + 1 ELSE bootstraps
    /\ Done(t)
    /\ UNCHANGED <<token, expiredTokens, auditLog, overlapped>>

Fresh(k) == token[k] = NoToken

\* issue_token: the caller's token or the bootstrap token; a new row
issue_token(t, k) ==
    /\ OneStep(t)
    /\ principals # {}
    /\ Fresh(k)
    /\ token' = [token EXCEPT ![k].status = "live"]
    /\ UNCHANGED <<principals, expiredTokens, auditLog, bootstraps, overlapped>>

\* Mutant of authenticate: the revoked column is not looked at.
AuthenticateExpiryOnly(t, k) ==
    /\ token[k].status # "none"
    /\ k \notin expiredTokens
    /\ Begin(t, [Idle EXCEPT !.op = "rotate", !.at = "rotate", !.id = k])
    /\ Overlap(t, "rotate", k)
    /\ UNCHANGED <<principals, token, expiredTokens, auditLog, bootstraps>>

authenticate(t, k) ==
    /\ usable(k)
    /\ Begin(t, [Idle EXCEPT !.op = "rotate", !.at = "rotate", !.id = k])
    /\ Overlap(t, "rotate", k)
    /\ UNCHANGED <<principals, token, expiredTokens, auditLog, bootstraps>>

\* rotate_token: the old token is revoked and a new one issued in one commit.
rotate_token(t, k) ==
    /\ At(t, "rotate")
    /\ Fresh(k)
    /\ token' = [token EXCEPT ![call[t].id].status = "revoked",
                              ![k] = [status |-> "live", of |-> call[t].id]]
    /\ Done(t)
    /\ UNCHANGED <<principals, expiredTokens, auditLog, bootstraps, overlapped>>

PassTokenExpiry(k) ==
    /\ token[k].status # "none"
    /\ expiredTokens' = expiredTokens \cup {k}
    /\ UNCHANGED <<requestVars, principals, token, auditLog, bootstraps, overlapped>>

-----------------------------------------------------------------------------
\* AuditService.append reads the last event,
ReadLast(t, what) ==
    /\ Len(auditLog) < MaxAudit
    /\ Begin(t, [Idle EXCEPT !.op = "audit", !.at = "append", !.id = Len(auditLog), !.copy = what])
    /\ Overlap(t, "audit", Len(auditLog))
    /\ UNCHANGED <<principals, token, expiredTokens, auditLog, bootstraps>>

\* and inserts the new one; its hash is unique, so an equal event with the same
\* predecessor raises.
append_audit(t) ==
    /\ At(t, "append")
    /\ LET e == [what |-> call[t].copy, prev |-> call[t].id]
       IN  auditLog' = IF \E i \in 1..Len(auditLog) : auditLog[i] = e
                       THEN auditLog ELSE Append(auditLog, e)
    /\ Done(t)
    /\ UNCHANGED <<principals, token, expiredTokens, bootstraps, overlapped>>

CrashAccess(t) ==
    /\ ~ At(t, "idle")
    /\ Done(t)
    /\ UNCHANGED accessState

AccessNext ==
    \/ \E t \in Threads :
         \/ \E p \in Principals : register_route(t, p)
         \/ \E k \in Tokens : issue_token(t, k) \/ authenticate(t, k) \/ rotate_token(t, k)
         \/ \E what \in AuditActions : ReadLast(t, what)
         \/ register_principal(t) \/ append_audit(t) \/ CrashAccess(t)
    \/ \E k \in Tokens : PassTokenExpiry(k)

AccessSpec == RequestsInit /\ AccessInit /\ [][AccessNext]_accessVars

-----------------------------------------------------------------------------
\* What can be used once is used once, unless two requests decide on it at the
\* same time: the bootstrap token registers one principal, a token is rotated
\* into one other, and the event at the end of the audit log gets one successor,
\* so that the log is one chain.
UsedOnceUnlessOverlapped ==
    /\ bootstraps > 1 => <<"register", "first">> \in overlapped
    /\ \A k \in Tokens :
         <<"rotate", k>> \notin overlapped =>
             \A x, y \in Tokens : token[x].of = k /\ token[y].of = k => x = y
    /\ \A i, j \in 1..Len(auditLog) :
         auditLog[i].prev = auditLog[j].prev /\ <<"audit", auditLog[i].prev>> \notin overlapped => i = j
=============================================================================
