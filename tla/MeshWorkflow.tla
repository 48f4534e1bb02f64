---------------------------- MODULE MeshWorkflow ----------------------------
(***************************************************************************)
(* MeshWorkflowEngine.start and the replay recovery of the same workflow:  *)
(* src/agentfabric/collaboration and src/agentfabric/recovery.  The nodes  *)
(* of a batch run in a thread pool, the process may die at any step, and   *)
(* one workflow id may be started several times, also concurrently.        *)
(*                                                                         *)
(* The event log is the only thing recovery reads.  Appends are one step   *)
(* here; module EventStore has their interleavings.                        *)
(***************************************************************************)
EXTENDS Integers, Sequences, FiniteSets, SequencesExt

CONSTANTS
    Nodes,        \* node ids of task graphs
    Deps,         \* dependencies of each node
    MaxRetries,   \* max_retries of each node
    NeedApproval, \* the nodes with requires_human_approval
    Runs,         \* calls of start with this workflow id
    Starts,       \* the nodes of a task graph, and the runs that start it
    NoNode,
    MaxCrashes    \* bound: deaths of the process

ASSUME WorkflowAssumption ==
    /\ NoNode \notin Nodes
    /\ Deps \in [Nodes -> SUBSET Nodes]
    /\ MaxRetries \in [Nodes -> Nat]
    /\ NeedApproval \subseteq Nodes
    /\ \A s \in Starts : s.runs \subseteq Runs /\ \A n \in s.nodes : Deps[n] \subseteq s.nodes

VARIABLES
    graph,      \* the nodes of the task graph that the calls of start are given
    call,       \* whether the call of start of each run is under way
    status,     \* WorkflowState.status of each run
    node,       \* WorkflowState.node_status of each run
    attempts,   \* WorkflowState.retry_counters of each run
    at,         \* where the pool thread of a node is
    batch,      \* the batch a run works on
    approved,   \* approved_nodes of each run
    log,        \* the events of this workflow id
    checkpoints, \* the length of WorkflowState.checkpoints of each run
    ran,        \* history: the nodes whose runner returned
    crashes

vars == <<graph, call, status, node, attempts, at, batch, approved, log, checkpoints, ran, crashes>>

Init ==
    /\ \E s \in Starts :
          /\ graph = s.nodes
          /\ call = [r \in Runs |-> IF r \in s.runs THEN "new" ELSE "none"]
    /\ status = [r \in Runs |-> "none"]
    /\ node = [r \in Runs |-> [n \in Nodes |-> "pending"]]
    /\ attempts = [r \in Runs |-> [n \in Nodes |-> 0]]
    /\ at = [r \in Runs |-> [n \in Nodes |-> "todo"]]
    /\ batch = [r \in Runs |-> {}]
    /\ approved = [r \in Runs |-> {}]
    /\ log = << >>
    /\ checkpoints = [r \in Runs |-> 0]
    /\ ran = {}
    /\ crashes = 0

Emit(type, n) == log' = Append(log, [type |-> type, node |-> n])

Return(r) == call' = [call EXCEPT ![r] = "gone"]

\* The whole graph is walked before the first batch is looked at.
Acyclic == \A S \in SUBSET graph : S # {} => \E n \in S : Deps[n] \cap S = {}

\* workflow.started is appended before a cycle is found and raised; an append
\* also raises, with its event in memory, when the event cannot be stored.
Start(r, approve) ==
    /\ call[r] = "new"
    /\ Return(r) \/ (Acyclic /\ call' = [call EXCEPT ![r] = "up"])
    /\ status' = [status EXCEPT ![r] = "running"]
    /\ approved' = [approved EXCEPT ![r] = approve]
    /\ Emit("workflow.started", NoNode)
    /\ UNCHANGED <<node, attempts, at, batch, checkpoints, ran, crashes>>

-----------------------------------------------------------------------------
(* topological_batches: the nodes all of whose dependencies are in earlier batches. *)

Done(r) == {n \in graph : at[r][n] = "done"}

NextBatch(r) == {n \in graph \ Done(r) : Deps[n] \subseteq Done(r)}

\* The batch before is over and its checkpoint made.
Between(r) == call[r] = "up" /\ batch[r] = {}

Waiting(r) == NextBatch(r) \cap (NeedApproval \ approved[r])

\* A node of the next batch was not approved: the call returns.
AwaitApproval(r) ==
    /\ Between(r)
    /\ Waiting(r) # {}
    /\ node' = [node EXCEPT ![r] = [n \in Nodes |-> IF n \in Waiting(r) THEN "awaiting_approval" ELSE @[n]]]
    /\ status' = [status EXCEPT ![r] = "awaiting_approval"]
    /\ Emit("human_approval.requested", NoNode)
    /\ Return(r)
    /\ UNCHANGED <<attempts, at, batch, approved, checkpoints, ran, crashes>>

SubmitBatch(r) ==
    /\ Between(r)
    /\ NextBatch(r) # {} /\ Waiting(r) = {}
    /\ batch' = [batch EXCEPT ![r] = NextBatch(r)]
    /\ UNCHANGED <<call, status, node, attempts, at, approved, log, checkpoints, ran, crashes>>

\* The checkpoint of a batch is stored under its number, and then announced;
\* the call ends when the event cannot be stored.
Checkpoint(r) ==
    /\ call[r] = "up" /\ batch[r] # {}
    /\ batch[r] \subseteq Done(r)
    /\ checkpoints' = [checkpoints EXCEPT ![r] = @ + 1]
    /\ Emit("checkpoint.created", NoNode)
    /\ batch' = [batch EXCEPT ![r] = {}]
    /\ Return(r) \/ UNCHANGED call
    /\ UNCHANGED <<status, node, attempts, at, approved, ran, crashes>>

\* Mutant of BatchRaises: the pool is left only when every node is done.
BatchRaisesNever(r) ==
    /\ call[r] = "up"
    /\ \A n \in batch[r] : at[r][n] = "done"
    /\ \E n \in batch[r] : at[r][n] = "raised"
    /\ Return(r)
    /\ UNCHANGED <<status, node, attempts, at, batch, approved, log, checkpoints, ran, crashes>>

\* The pool is left when all its threads are; the first error is raised again.
BatchRaises(r) ==
    /\ call[r] = "up"
    /\ \A n \in batch[r] : at[r][n] \in {"done", "raised"}
    /\ \E n \in batch[r] : at[r][n] = "raised"
    /\ Return(r)
    /\ UNCHANGED <<status, node, attempts, at, batch, approved, log, checkpoints, ran, crashes>>

Complete(r) ==
    /\ Between(r)
    /\ Done(r) = graph
    /\ status' = [status EXCEPT ![r] = "completed"]
    /\ Emit("workflow.completed", NoNode)
    /\ Return(r)
    /\ UNCHANGED <<node, attempts, at, batch, approved, checkpoints, ran, crashes>>

-----------------------------------------------------------------------------
(* _run_node_with_retries, in a pool thread of its own. *)

Move(r, n, place) == at' = [at EXCEPT ![r][n] = place]

\* The event is inside the try: when it cannot be stored the attempt fails.
TaskStarted(r, n) ==
    /\ n \in batch[r] /\ at[r][n] = "todo"
    /\ attempts' = [attempts EXCEPT ![r][n] = @ + 1]
    /\ \/ Emit("task.started", n) /\ Move(r, n, "started")
       \/ Emit("task.started", n) /\ Move(r, n, "failing")
    /\ UNCHANGED <<call, status, node, batch, approved, checkpoints, ran, crashes>>

\* node_runner returns: the state is updated before any event is.
RunnerReturns(r, n) ==
    /\ at[r][n] = "started"
    /\ node' = [node EXCEPT ![r][n] = "completed"]
    /\ ran' = ran \cup {n}
    /\ Move(r, n, "returned")
    /\ UNCHANGED <<call, status, attempts, batch, approved, log, checkpoints, crashes>>

\* Mutant of TaskCompleted: the event is written before the runner is called.
TaskCompletedEarly(r, n) ==
    /\ at[r][n] \in {"started", "returned"}
    /\ Emit("task.completed", n)
    /\ Move(r, n, "recorded")
    /\ UNCHANGED <<call, status, node, attempts, batch, approved, checkpoints, ran, crashes>>

TaskCompleted(r, n) ==
    /\ at[r][n] = "returned"
    /\ Emit("task.completed", n)
    /\ Move(r, n, "recorded")
    /\ UNCHANGED <<call, status, node, attempts, batch, approved, checkpoints, ran, crashes>>

\* The reputation is recorded and the thread returns.
NodeDone(r, n) ==
    /\ at[r][n] = "recorded"
    /\ Move(r, n, "done")
    /\ UNCHANGED <<call, status, node, attempts, batch, approved, log, checkpoints, ran, crashes>>

\* An exception of the runner, of the context store, of an event or of the
\* reputation: all of them are inside the try.
TaskFailed(r, n) ==
    /\ at[r][n] \in {"failing", "started", "returned", "recorded"}
    /\ Emit("task.failed", n)
    /\ IF attempts[r][n] > MaxRetries[n]
       THEN /\ node' = [node EXCEPT ![r][n] = "failed"]
            /\ status' = [status EXCEPT ![r] = "failed"]
            /\ Move(r, n, "raised")
       ELSE Move(r, n, "todo") /\ UNCHANGED <<node, status>>
    /\ UNCHANGED <<call, attempts, batch, approved, checkpoints, ran, crashes>>

\* The handler of the exception raises, at its first event, at task.failed or
\* later: that error leaves the thread and the workflow stays "running".
HandlerRaises(r, n) ==
    /\ at[r][n] \in {"failing", "started", "returned", "recorded"}
    /\ Move(r, n, "raised")
    /\ Emit("task.failed", n) \/ UNCHANGED log
    /\ UNCHANGED <<call, status, node, attempts, batch, approved, checkpoints, ran, crashes>>

\* The process dies: every call under way is gone, the log and the store stay.
Crash ==
    /\ crashes < MaxCrashes
    /\ \E r \in Runs : call[r] = "up"
    /\ call' = [r \in Runs |-> IF call[r] = "up" THEN "gone" ELSE call[r]]
    /\ crashes' = crashes + 1
    /\ UNCHANGED <<status, node, attempts, at, batch, approved, log, checkpoints, ran>>

-----------------------------------------------------------------------------
NodeStep(r, n) ==
    /\ call[r] = "up"
    /\ \/ TaskStarted(r, n) \/ RunnerReturns(r, n) \/ TaskCompleted(r, n)
       \/ NodeDone(r, n) \/ TaskFailed(r, n) \/ HandlerRaises(r, n)

RunStep(r) ==
    \/ AwaitApproval(r) \/ SubmitBatch(r) \/ Checkpoint(r) \/ BatchRaises(r) \/ Complete(r)
    \/ \E n \in graph : NodeStep(r, n)

Next ==
    /\ UNCHANGED graph
    /\ \/ \E r \in Runs : (\E approve \in SUBSET (NeedApproval \cap graph) : Start(r, approve)) \/ RunStep(r)
       \/ Crash

Spec == Init /\ [][Next]_vars

\* The request thread and the pool threads run on until the process dies.
FairSpec == Spec /\ \A r \in Runs : WF_vars(RunStep(r) /\ UNCHANGED graph)

-----------------------------------------------------------------------------
(* StateRebuilder.rebuild_workflow: a fold over the events in sequence. *)

Unknown == [status |-> "unknown", completed |-> {}, failed |-> {}, started |-> {}, pending |-> {}]

Apply(s, e) ==
    CASE e.type = "workflow.started" -> [s EXCEPT !.status = "running", !.pending = graph]
      [] e.type = "task.started" -> [s EXCEPT !.started = @ \cup {e.node}]
      [] e.type = "task.completed" -> [s EXCEPT !.completed = @ \cup {e.node}, !.failed = @ \ {e.node}]
      [] e.type = "task.failed" ->
            [s EXCEPT !.failed = IF e.node \in s.completed THEN @ ELSE @ \cup {e.node}]
      [] e.type = "human_approval.requested" -> [s EXCEPT !.status = "awaiting_approval"]
      [] e.type = "workflow.completed" -> [s EXCEPT !.status = "completed"]
      [] OTHER -> s

rebuild_workflow(events) == FoldLeft(Apply, Unknown, events)

-----------------------------------------------------------------------------
\* Recovery skips only what was done: whenever the process dies, and however the
\* runs of one id interleave, skip_completed_task_ids names nodes whose runner
\* did return.  A workflow that it reports as completed has no node left to do:
\* every node is completed and none is listed as failed.
RecoveryAgrees ==
    LET s == rebuild_workflow(log)
    IN  /\ s.completed \subseteq ran
        /\ s.status = "completed" => s.completed = graph /\ s.failed = {}

\* A call of start ends: the pool never waits for a node that is not run, and
\* retries are finite.
StartReturns == \A r \in Runs : call[r] = "up" ~> call[r] = "gone"
=============================================================================
