-------------------------- MODULE FactoryExecution --------------------------
(***************************************************************************)
(* Repository execution and the build workers on top of it:                *)
(* src/agentfabric/repository_execution and src/agentfabric/build_workers. *)
(* Both write one directory of one tenant, <tenant_id>/<repository_id>.    *)
(* Executions that differ in their blueprint version have ids of their own *)
(* and share that directory.  Requests run in threads of the server.       *)
(*                                                                         *)
(* What an execution writes depends on the repository alone, so a plan is  *)
(* told apart by the principal in it: it is part of the digest and not of  *)
(* the id.  approve reads a plan and stores its digest in one step here: a *)
(* digest that is stale by then is refused by require.                     *)
(***************************************************************************)
EXTENDS Integers, Sequences, SequencesExt

CONSTANTS
    Execs,        \* execution ids
    Principals,
    Nobody,       \* no plan, no approval
    Threads,
    Scaffold,     \* the paths of an execution, sorted
    Product,      \* the paths of a build, sorted; some are of the scaffold too
    MaxCrashes,   \* bound: deaths of the process
    MaxRuns       \* bound: executions, builds and rollbacks

ASSUME FactoryAssumption == Nobody \notin Principals /\ Scaffold # << >> /\ Product # << >>

VARIABLES
    files,            \* the directory
    plan, approval,   \* digests in factory_execution_plans and _approvals
    result,           \* the executions with a completed result
    rollbacks,        \* the executions in factory_execution_rollbacks
    bplan, bapproval, \* digests in factory_build_plans and _approvals
    bresult,          \* review_status of the completed result of a build
    backups,          \* factory_build_rollback_plans
    pc, job, i,       \* a thread: its line, its execution or build, its file
    mine,             \* a thread: the files it wrote
    back,             \* a thread: the contents it found
    tree,             \* history: the directory as the operations that ended leave it
    before,           \* history: tree when the rollback plan of a build was stored
    disturbed,        \* history: operations overlapped, or one was cut off
    crashes, runs

records == <<plan, approval, result, rollbacks, bplan, bapproval, bresult, backups>>
local == <<pc, job, i, mine, back>>
vars == <<files, records, local, tree, before, disturbed, crashes, runs>>

Paths == ToSet(Scaffold) \cup ToSet(Product)
Empty == [p \in Paths |-> "none"]

Init ==
    /\ files = Empty
    /\ plan = [e \in Execs |-> Nobody]
    /\ approval = [e \in Execs |-> Nobody]
    /\ result = {}
    /\ rollbacks = {}
    /\ bplan = [e \in Execs |-> Nobody]
    /\ bapproval = [e \in Execs |-> Nobody]
    /\ bresult = [e \in Execs |-> "none"]
    /\ backups = [e \in Execs |-> << >>]
    /\ pc = [t \in Threads |-> "idle"]
    /\ job \in [Threads -> {CHOOSE e \in Execs : TRUE}]
    /\ i = [t \in Threads |-> 1]
    /\ mine = [t \in Threads |-> {}]
    /\ back = [t \in Threads |-> Empty]
    /\ tree = Empty
    /\ before = [e \in Execs |-> Empty]
    /\ disturbed = FALSE
    /\ crashes = 0
    /\ runs = 0

Goto(t, place) == pc' = [pc EXCEPT ![t] = place]

\* The thread goes to the file after this one, or on when this was the last.
NextFile(t, list, place, after) ==
    IF i[t] < Len(list)
    THEN i' = [i EXCEPT ![t] = @ + 1] /\ Goto(t, place)
    ELSE i' = [i EXCEPT ![t] = @] /\ Goto(t, after)

\* The same backwards, for the loops over reversed lists.
PreviousFile(t, place, after) ==
    IF i[t] > 1
    THEN i' = [i EXCEPT ![t] = @ - 1] /\ Goto(t, place)
    ELSE i' = [i EXCEPT ![t] = @] /\ Goto(t, after)

\* A request that works on the directory begins.
Begin(t, e, place, first) ==
    /\ pc[t] = "idle"
    /\ runs < MaxRuns
    /\ runs' = runs + 1
    /\ Goto(t, place)
    /\ job' = [job EXCEPT ![t] = e]
    /\ i' = [i EXCEPT ![t] = first]
    /\ mine' = [mine EXCEPT ![t] = {}]
    /\ back' = [back EXCEPT ![t] = Empty]
    /\ disturbed' = (disturbed \/ \E u \in Threads : pc[u] # "idle")
    /\ UNCHANGED <<files, records, tree, before, crashes>>

SetFile(p, content) == files' = [files EXCEPT ![p] = content]

-----------------------------------------------------------------------------
(* RepositoryExecutionEngine *)

\* plan, and replay, which plans again in the name of the caller.
Plan(e, u) ==
    /\ plan' = [plan EXCEPT ![e] = u]
    /\ UNCHANGED <<files, approval, result, rollbacks, bplan, bapproval, bresult, backups, local, tree, before, disturbed, crashes, runs>>

Approve(e) ==
    /\ plan[e] # Nobody
    /\ approval' = [approval EXCEPT ![e] = plan[e]]
    /\ UNCHANGED <<files, plan, result, rollbacks, bplan, bapproval, bresult, backups, local, tree, before, disturbed, crashes, runs>>

Approved(e) == plan[e] # Nobody /\ approval[e] = plan[e]

\* A completed result is returned as it is; otherwise approvals.require.
Execute(t, e) ==
    /\ e \notin result
    /\ Approved(e)
    /\ Begin(t, e, "look", 1)

\* target.exists(): skip the same content, refuse another.
LookAt(t) ==
    /\ pc[t] = "look"
    /\ LET found == files[Scaffold[i[t]]]
       IN  CASE found = "none" -> Goto(t, "write") /\ UNCHANGED i
             [] found = "scaffold" -> NextFile(t, Scaffold, "look", "finish")
             [] OTHER -> Goto(t, "unlink") /\ UNCHANGED i
    /\ UNCHANGED <<files, records, job, mine, back, tree, before, disturbed, crashes, runs>>

WriteFile(t) ==
    /\ pc[t] = "write"
    /\ SetFile(Scaffold[i[t]], "scaffold")
    /\ mine' = [mine EXCEPT ![t] = @ \cup {Scaffold[i[t]]}]
    /\ NextFile(t, Scaffold, "look", "finish")
    /\ UNCHANGED <<records, job, back, tree, before, disturbed, crashes, runs>>

\* An error of the file system, before the file is written.
WriteFails(t) ==
    /\ pc[t] \in {"look", "write"}
    /\ Goto(t, "unlink")
    /\ UNCHANGED <<files, records, job, i, mine, back, tree, before, disturbed, crashes, runs>>


\* for target in reversed(written): target.unlink(missing_ok=True); raise
Unlink(t) ==
    /\ pc[t] = "unlink"
    /\ IF Scaffold[i[t]] \in mine[t] THEN SetFile(Scaffold[i[t]], "none") ELSE UNCHANGED files
    /\ PreviousFile(t, "unlink", "idle")
    /\ UNCHANGED <<records, job, mine, back, tree, before, disturbed, crashes, runs>>

\* The completed result is stored, or an event before it raises.
Finish(t) ==
    /\ pc[t] = "finish"
    /\ \/ result' = result \cup {job[t]} /\ UNCHANGED disturbed
       \/ disturbed' = TRUE /\ UNCHANGED result
    /\ tree' = [p \in Paths |-> IF Contains(Scaffold, p) THEN "scaffold" ELSE tree[p]]
    /\ Goto(t, "idle")
    /\ UNCHANGED <<files, plan, approval, rollbacks, bplan, bapproval, bresult, backups, job, i, mine, back, before, crashes, runs>>

\* rollback removes the paths of the plan, whoever wrote them; the result stays.
Rollback(t, e) ==
    /\ Approved(e)
    /\ Begin(t, e, "remove", Len(Scaffold))

RemoveFile(t) ==
    /\ pc[t] = "remove"
    /\ SetFile(Scaffold[i[t]], "none")
    /\ PreviousFile(t, "remove", "removed")
    /\ UNCHANGED <<records, job, mine, back, tree, before, disturbed, crashes, runs>>

Removed(t) ==
    /\ pc[t] = "removed"
    /\ tree' = [p \in Paths |-> IF Contains(Scaffold, p) THEN "none" ELSE tree[p]]
    /\ rollbacks' = rollbacks \cup {job[t]}
    /\ Goto(t, "idle")
    /\ UNCHANGED <<files, plan, approval, result, bplan, bapproval, bresult, backups, job, i, mine, back, before, disturbed, crashes, runs>>

-----------------------------------------------------------------------------
(* BuildWorkerService *)

\* Mutant of BuildPlan: the result of the execution is not looked at.
BuildPlanAnyway(e, u) ==
    /\ plan[e] # Nobody
    /\ bplan' = [bplan EXCEPT ![e] = u]
    /\ UNCHANGED <<files, plan, approval, result, rollbacks, bapproval, bresult, backups, local, tree, before, disturbed, crashes, runs>>

\* plan, and dry_run and replay, which plan again in the name of the caller.
BuildPlan(e, u) ==
    /\ plan[e] # Nobody /\ e \in result
    /\ bplan' = [bplan EXCEPT ![e] = u]
    /\ UNCHANGED <<files, plan, approval, result, rollbacks, bapproval, bresult, backups, local, tree, before, disturbed, crashes, runs>>

BuildApprove(e) ==
    /\ bplan[e] # Nobody
    /\ bapproval' = [bapproval EXCEPT ![e] = bplan[e]]
    /\ UNCHANGED <<files, plan, approval, result, rollbacks, bplan, bresult, backups, local, tree, before, disturbed, crashes, runs>>

BuildApproved(e) == bplan[e] # Nobody /\ bapproval[e] = bplan[e]

Build(t, e) ==
    /\ bresult[e] = "none"
    /\ BuildApproved(e)
    /\ Begin(t, e, "backup", 1)

\* backups[path] = target.read_text() if target.exists() else None
Backup(t) ==
    /\ pc[t] = "backup"
    /\ back' = [back EXCEPT ![t][Product[i[t]]] = files[Product[i[t]]]]
    /\ Goto(t, "build")
    /\ UNCHANGED <<files, records, job, i, mine, tree, before, disturbed, crashes, runs>>

BuildFile(t) ==
    /\ pc[t] = "build"
    /\ SetFile(Product[i[t]], "product")
    /\ mine' = [mine EXCEPT ![t] = @ \cup {Product[i[t]]}]
    /\ NextFile(t, Product, "backup", "verify")
    /\ UNCHANGED <<records, job, back, tree, before, disturbed, crashes, runs>>

\* The hashes of what is on disk are compared with the plan; any error before
\* or here restores what was written.
Verify(t) ==
    /\ pc[t] = "verify"
    /\ Goto(t, IF \A p \in ToSet(Product) : files[p] = "product" THEN "save" ELSE "restore")
    /\ UNCHANGED <<files, records, job, i, mine, back, tree, before, disturbed, crashes, runs>>

BuildFails(t) ==
    /\ pc[t] \in {"backup", "build", "verify"}
    /\ Goto(t, "restore")
    /\ UNCHANGED <<files, records, job, i, mine, back, tree, before, disturbed, crashes, runs>>

\* _restore of the files in written, last first.
Restore(t) ==
    /\ pc[t] = "restore"
    /\ LET p == Product[i[t]] IN IF p \in mine[t] THEN SetFile(p, back[t][p]) ELSE UNCHANGED files
    /\ PreviousFile(t, "restore", "idle")
    /\ UNCHANGED <<records, job, mine, back, tree, before, disturbed, crashes, runs>>

\* The rollback plan is stored, or an event before it raises: outside the try.
SaveBackups(t) ==
    /\ pc[t] = "save"
    /\ \/ /\ backups' = [backups EXCEPT ![job[t]] = back[t]]
          /\ Goto(t, "complete")
          /\ UNCHANGED disturbed
       \/ disturbed' = TRUE /\ Goto(t, "idle") /\ UNCHANGED backups
    /\ tree' = [p \in Paths |-> IF Contains(Product, p) THEN "product" ELSE tree[p]]
    /\ before' = [before EXCEPT ![job[t]] = tree]
    /\ UNCHANGED <<files, plan, approval, result, rollbacks, bplan, bapproval, bresult, job, i, mine, back, crashes, runs>>

BuildComplete(t) ==
    /\ pc[t] = "complete"
    /\ bresult' = [bresult EXCEPT ![job[t]] = "pending"]
    /\ Goto(t, "idle")
    /\ UNCHANGED <<files, plan, approval, result, rollbacks, bplan, bapproval, backups, job, i, mine, back, tree, before, disturbed, crashes, runs>>

Review(e, decision) ==
    /\ bresult[e] # "none"
    /\ bresult' = [bresult EXCEPT ![e] = decision]
    /\ UNCHANGED <<files, plan, approval, result, rollbacks, bplan, bapproval, backups, local, tree, before, disturbed, crashes, runs>>

BuildRollback(t, e) ==
    /\ BuildApproved(e)
    /\ backups[e] # << >>
    /\ Begin(t, e, "undo", Len(Product))

Undo(t) ==
    /\ pc[t] = "undo"
    /\ SetFile(Product[i[t]], backups[job[t]][Product[i[t]]])
    /\ PreviousFile(t, "undo", "undone")
    /\ UNCHANGED <<records, job, mine, back, tree, before, disturbed, crashes, runs>>

Undone(t) ==
    /\ pc[t] = "undone"
    /\ tree' = [p \in Paths |-> IF Contains(Product, p) THEN before[job[t]][p] ELSE tree[p]]
    /\ Goto(t, "idle")
    /\ UNCHANGED <<files, records, job, i, mine, back, before, disturbed, crashes, runs>>

-----------------------------------------------------------------------------
\* The process dies in the middle of some request.
Crash ==
    /\ crashes < MaxCrashes
    /\ \E t \in Threads : pc[t] # "idle"
    /\ pc' = [t \in Threads |-> "idle"]
    /\ crashes' = crashes + 1
    /\ disturbed' = TRUE
    /\ UNCHANGED <<files, records, job, i, mine, back, tree, before, runs>>

Step(t) ==
    \/ LookAt(t) \/ WriteFile(t) \/ WriteFails(t) \/ Unlink(t) \/ Finish(t) \/ RemoveFile(t) \/ Removed(t)
    \/ Backup(t) \/ BuildFile(t) \/ Verify(t) \/ BuildFails(t) \/ Restore(t) \/ SaveBackups(t)
    \/ BuildComplete(t) \/ Undo(t) \/ Undone(t)

Next ==
    \/ \E e \in Execs : \/ \E u \in Principals : Plan(e, u) \/ BuildPlan(e, u)
                        \/ Approve(e) \/ BuildApprove(e)
                        \/ \E decision \in {"approved", "rejected"} : Review(e, decision)
    \/ \E t \in Threads : \/ Step(t)
                          \/ \E e \in Execs : Execute(t, e) \/ Rollback(t, e) \/ Build(t, e) \/ BuildRollback(t, e)
    \/ Crash

Spec == Init /\ [][Next]_vars

-----------------------------------------------------------------------------

\* "Incomplete execution artifacts block the build": a build is completed on a
\* directory without the files of its execution only when some execution was
\* rolled back, which leaves its result completed, or when requests overlapped.
BuildOnScaffold ==
    [][\A e \in Execs : bresult[e] = "none" /\ bresult'[e] # "none" =>
          disturbed \/ rollbacks # {} \/ \A p \in ToSet(Scaffold) : files[p] # "none"]_vars
=============================================================================
