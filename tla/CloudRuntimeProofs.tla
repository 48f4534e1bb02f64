------------------------- MODULE CloudRuntimeProofs -------------------------
(* Theorems about CloudRuntime for every set of jobs, threads and tenants.  *)
EXTENDS CloudRuntime, TLAPS

\* Appending an id keeps the ids that were in the deque and adds the new one.
LEMMA AppendKeeps ==
    ASSUME NEW S, NEW q \in Seq(S), NEW x \in S
    PROVE  /\ Append(q, x) \in Seq(S)
           /\ Len(Append(q, x)) = Len(q) + 1
           /\ Append(q, x)[Len(q) + 1] = x
           /\ \A i \in 1..Len(q) : Append(q, x)[i] = q[i]
  OBVIOUS

\* Taking the head moves every other id one place forward.
LEMMA TailShifts ==
    ASSUME NEW S, NEW q \in Seq(S), q # << >>
    PROVE  /\ Head(q) \in S
           /\ Tail(q) \in Seq(S)
           /\ Head(q) = q[1]
           /\ Len(Tail(q)) = Len(q) - 1
           /\ \A i \in 1..Len(Tail(q)) : Tail(q)[i] = q[i + 1]
  OBVIOUS

\* with_update(status=...) yields a record, with the new status and the old
\* attempts.
LEMMA WithStatusRecord ==
    ASSUME NEW r \in RuntimeJob, NEW s \in JobStatus
    PROVE  /\ WithStatus(r, s) \in RuntimeJob
           /\ WithStatus(r, s).status = s
           /\ WithStatus(r, s).attempts = r.attempts
  BY DEF WithStatus, RuntimeJob

\* Storing a record keeps _jobs well typed.
LEMMA WriteTyped ==
    ASSUME TypeOK, NEW j \in Jobs, NEW r \in RuntimeJob, Write(j, r)
    PROVE  /\ jobs' \in [Jobs -> RuntimeJob]
           /\ jobs'[j] = r
           /\ \A k \in Jobs : k # j => jobs'[k] = jobs[k]
  BY DEF TypeOK, Write

\* The locals of every thread, after one thread has moved.
ThreadsTyped ==
    /\ pc \in [Threads -> Places]
    /\ hand \in [Threads -> Jobs \cup {NoJob}]
    /\ copy \in [Threads -> RuntimeJob]
    /\ \A t \in Threads : pc[t] \notin {"idle", "pop"} => hand[t] \in Jobs

\* A jump keeps the locals of all threads well typed and touches one thread.
LEMMA GotoTyped ==
    ASSUME TypeOK, NEW t \in Threads, NEW place \in Places, NEW j \in Jobs \cup {NoJob},
           NEW r \in RuntimeJob, place \notin {"idle", "pop"} => j \in Jobs,
           Goto(t, place, j, r)
    PROVE  /\ ThreadsTyped'
           /\ pc'[t] = place /\ hand'[t] = j /\ copy'[t] = r
           /\ \A u \in Threads : u # t => /\ pc'[u] = pc[u]
                                          /\ hand'[u] = hand[u]
                                          /\ copy'[u] = copy[u]
  BY DEF TypeOK, Goto, ThreadsTyped

\* The same for a return to idle.
LEMMA ReturnTyped ==
    ASSUME TypeOK, NEW t \in Threads, Return(t)
    PROVE  /\ ThreadsTyped'
           /\ pc'[t] = "idle" /\ hand'[t] = NoJob /\ copy'[t] = Absent
           /\ \A u \in Threads : u # t => /\ pc'[u] = pc[u]
                                          /\ hand'[u] = hand[u]
                                          /\ copy'[u] = copy[u]
<1>1. "idle" \in Places BY DEF Places
<1>2. Absent \in RuntimeJob BY DEF Absent, RuntimeJob
<1> QED BY <1>1, <1>2, GotoTyped DEF Return

\* WriteQueued, shared by retry, requeue_dead_letter and the failure path.
LEMMA WriteQueuedTyped ==
    ASSUME TypeOK, NEW t \in Threads, hand[t] \in Jobs,
           NEW next \in {"recheck", "append"}, WriteQueued(t, next)
    PROVE  /\ jobs' \in [Jobs -> RuntimeJob]
           /\ \A k \in Jobs : k # hand[t] => jobs'[k] = jobs[k]
           /\ jobs'[hand[t]].attempts = copy[t].attempts
           /\ ThreadsTyped'
           /\ pc'[t] = next /\ hand'[t] = hand[t] /\ copy'[t].attempts = copy[t].attempts
           /\ \A u \in Threads : u # t => /\ pc'[u] = pc[u]
                                          /\ hand'[u] = hand[u]
                                          /\ copy'[u] = copy[u]
<1> DEFINE queued == WithStatus(copy[t], "queued")
<1>1. copy[t] \in RuntimeJob BY DEF TypeOK
<1>2. "queued" \in JobStatus BY DEF JobStatus
<1>3. queued \in RuntimeJob /\ queued.attempts = copy[t].attempts BY <1>1, <1>2, WithStatusRecord
<1>4. Write(hand[t], queued) /\ Goto(t, next, hand[t], queued) BY DEF WriteQueued
<1>5. next \in Places /\ next \notin {"idle", "pop"} BY DEF Places
<1> HIDE DEF queued
<1>6. /\ jobs' \in [Jobs -> RuntimeJob] /\ jobs'[hand[t]] = queued
      /\ \A k \in Jobs : k # hand[t] => jobs'[k] = jobs[k]
  BY <1>3, <1>4, WriteTyped
<1> QED BY <1>3, <1>4, <1>5, <1>6, GotoTyped

\* The types of the state variables, and that a thread outside idle and the
\* head of the dequeue loop holds a job id, hold in every step of the runtime.
THEOREM TypeCorrect == Spec => []TypeOK
<1>1. Init => TypeOK
  BY CloudAssumption DEF Init, TypeOK, RuntimeJob, Absent, Places, Threads
<1>2. TypeOK /\ [Next]_vars => TypeOK'
  <2> SUFFICES ASSUME TypeOK, [Next]_vars PROVE TypeOK'
    OBVIOUS
  <2>p. Places = {"idle", "append", "recheck", "cancel", "retry", "requeue", "pop", "lookup",
                  "rotate", "lease", "assign", "enforce", "handle", "completed"}
    BY DEF Places
  <2>s. JobStatus = {"queued", "assigned", "running", "completed", "failed", "cancelled",
                     "dead_lettered"}
    BY DEF JobStatus
  <2>a. Absent \in RuntimeJob BY DEF Absent, RuntimeJob
  <2>t. Operators \subseteq Threads /\ Dispatchers \subseteq Threads BY DEF Threads
  <2>1. ASSUME NEW t \in Operators, NEW j \in Jobs, Submit(t, j) PROVE TypeOK'
    <3> DEFINE queued == [status |-> "queued", attempts |-> 0]
    <3>1. queued \in RuntimeJob BY DEF RuntimeJob, JobStatus
    <3>2. Write(j, queued) /\ Goto(t, "append", j, queued) BY <2>1 DEF Submit
    <3> HIDE DEF queued
    <3> QED BY <2>1, <2>p, <2>t, <3>1, <3>2, WriteTyped, GotoTyped DEF Submit, TypeOK, ThreadsTyped
  <2>2. ASSUME NEW t \in Operators, NEW j \in Jobs,
               NEW call \in {"cancel", "retry", "requeue"}, Get(t, j, call)
        PROVE TypeOK'
    <3>1. jobs[j] \in RuntimeJob BY DEF TypeOK
    <3>2. ThreadsTyped' BY <2>2, <2>p, <2>t, <3>1, GotoTyped DEF Get
    <3> QED BY <2>2, <3>2, CloudAssumption DEF Get, TypeOK, ThreadsTyped
  <2>3. ASSUME NEW t \in Operators, OperatorStep(t) PROVE TypeOK'
    <3>1. CASE Cancel(t)
      <4>1. hand[t] \in Jobs BY <2>t, <3>1 DEF Cancel, TypeOK
      <4>2. WithStatus(copy[t], "cancelled") \in RuntimeJob
        BY <2>s, <2>t, WithStatusRecord DEF TypeOK
      <4> QED BY <2>t, <3>1, <4>1, <4>2, WriteTyped, ReturnTyped DEF Cancel, TypeOK, ThreadsTyped
    <3>2. CASE Retry(t)
      <4>1. hand[t] \in Jobs BY <2>t, <3>2 DEF Retry, TypeOK
      <4> QED BY <2>t, <3>2, <4>1, WriteQueuedTyped DEF Retry, WriteQueued, TypeOK, ThreadsTyped
    <3>3. CASE RequeueDeadLetter(t)
      <4>1. hand[t] \in Jobs BY <2>t, <3>3 DEF RequeueDeadLetter, TypeOK
      <4> QED BY <2>t, <3>3, <4>1, WriteQueuedTyped
              DEF RequeueDeadLetter, WriteQueued, TypeOK, ThreadsTyped
    <3> QED BY <2>3, <3>1, <3>2, <3>3 DEF OperatorStep
  <2>4. ASSUME NEW t \in Threads, PutStep(t) PROVE TypeOK'
    <3>1. CASE PutCheck(t)
      <4>1. hand[t] \in Jobs /\ copy[t] \in RuntimeJob BY <3>1 DEF PutCheck, TypeOK
      <4>2. ThreadsTyped' BY <2>p, <3>1, <4>1, GotoTyped, ReturnTyped DEF PutCheck
      <4> QED BY <3>1, <4>2 DEF PutCheck, TypeOK, ThreadsTyped
    <3>2. CASE QueueAppend(t)
      <4>1. hand[t] \in Jobs BY <3>2 DEF QueueAppend, TypeOK
      <4>2. queue' \in Seq(Jobs) BY <3>2, <4>1, AppendKeeps DEF QueueAppend, TypeOK
      <4> QED BY <3>2, <4>2, ReturnTyped DEF QueueAppend, TypeOK, ThreadsTyped
    <3> QED BY <2>4, <3>1, <3>2 DEF PutStep
  <2>5. ASSUME NEW t \in Dispatchers, DispatchStep(t) PROVE TypeOK'
    <3>c. copy[t] \in RuntimeJob BY <2>t DEF TypeOK
    <3>h. pc[t] \notin {"idle", "pop"} => hand[t] \in Jobs BY <2>t DEF TypeOK
    <3>1. CASE DequeueBegin(t)
      <4>1. ThreadsTyped' BY <2>p, <2>t, <3>1 DEF DequeueBegin, TypeOK, ThreadsTyped
      <4> QED BY <3>1, <4>1 DEF DequeueBegin, TypeOK, ThreadsTyped
    <3>2. CASE DequeueEnd(t)
      BY <2>t, <3>2, ReturnTyped DEF DequeueEnd, TypeOK, ThreadsTyped
    <3>3. CASE DequeuePop(t)
      <4>1. Head(queue) \in Jobs /\ queue' \in Seq(Jobs)
        BY <3>3, TailShifts DEF DequeuePop, TypeOK
      <4>2. ThreadsTyped' BY <2>a, <2>p, <2>t, <3>3, <4>1, GotoTyped DEF DequeuePop
      <4>3. left' \in [Dispatchers -> Nat] BY <3>3 DEF DequeuePop, TypeOK
      <4> QED BY <3>3, <4>1, <4>2, <4>3 DEF DequeuePop, TypeOK, ThreadsTyped
    <3>4. CASE DequeueLookup(t)
      <4>1. hand[t] \in Jobs /\ jobs[hand[t]] \in RuntimeJob BY <3>4, <3>h DEF DequeueLookup, TypeOK
      <4>2. ThreadsTyped'
        BY <2>a, <2>p, <2>t, <3>4, <4>1, GotoTyped DEF DequeueLookup
      <4> QED BY <3>4, <4>2 DEF DequeueLookup, TypeOK, ThreadsTyped
    <3>5. CASE DequeueRotate(t)
      <4>1. hand[t] \in Jobs BY <3>5, <3>h DEF DequeueRotate
      <4>2. queue' \in Seq(Jobs) BY <3>5, <4>1, AppendKeeps DEF DequeueRotate, TypeOK
      <4>3. ThreadsTyped' BY <2>a, <2>p, <2>t, <3>5, GotoTyped DEF DequeueRotate
      <4> QED BY <3>5, <4>2, <4>3 DEF DequeueRotate, TypeOK, ThreadsTyped
    <3>6. CASE DequeueLease(t)
      <4> DEFINE leased == [status |-> "assigned", attempts |-> copy[t].attempts + 1]
      <4>1. hand[t] \in Jobs BY <3>6, <3>h DEF DequeueLease
      <4>2. leased \in RuntimeJob BY <3>c DEF RuntimeJob, JobStatus
      <4>3. Write(hand[t], leased) /\ Goto(t, "assign", hand[t], leased) BY <3>6 DEF DequeueLease
      <4> HIDE DEF leased
      <4>4. ThreadsTyped' BY <2>p, <2>t, <4>1, <4>2, <4>3, GotoTyped
      <4>5. jobs' \in [Jobs -> RuntimeJob] BY <4>1, <4>2, <4>3, WriteTyped
      <4>6. left' \in [Dispatchers -> Nat] /\ leases' \in [Jobs -> Nat]
        BY <3>6, <4>1 DEF DequeueLease, TypeOK
      <4> QED BY <3>6, <4>4, <4>5, <4>6 DEF DequeueLease, TypeOK, ThreadsTyped
    <3>7. CASE Assign(t)
      BY <2>p, <2>t, <3>7, <3>c, <3>h, WriteTyped, GotoTyped DEF Assign, TypeOK, ThreadsTyped
    <3>8. CASE Abandon(t)
      BY <2>t, <3>8, ReturnTyped DEF Abandon, TypeOK, ThreadsTyped
    <3>9. CASE Start(t)
      <4>1. WithStatus(copy[t], "running") \in RuntimeJob BY <2>s, <3>c, WithStatusRecord
      <4> QED BY <2>p, <2>t, <3>9, <3>h, <4>1, WriteTyped, GotoTyped DEF Start, TypeOK, ThreadsTyped
    <3>10. CASE Complete(t)
      <4>1. WithStatus(copy[t], "completed") \in RuntimeJob BY <2>s, <3>c, WithStatusRecord
      <4> QED BY <2>p, <2>t, <3>10, <3>c, <3>h, <4>1, WriteTyped, GotoTyped
              DEF Complete, TypeOK, ThreadsTyped
    <3>11. CASE CompletedEvent(t)
      BY <2>t, <3>11, ReturnTyped DEF CompletedEvent, TypeOK, ThreadsTyped
    <3>12. CASE DeadLetter(t)
      <4>1. WithStatus(copy[t], "dead_lettered") \in RuntimeJob BY <2>s, <3>c, WithStatusRecord
      <4>2. hand[t] \in Jobs BY <3>12, <3>h DEF DeadLetter, Raised
      <4> QED BY <2>t, <3>12, <4>1, <4>2, WriteTyped, ReturnTyped
              DEF DeadLetter, TypeOK, ThreadsTyped
    <3>13. CASE FailAndRequeue(t)
      <4>1. hand[t] \in Jobs BY <3>13, <3>h DEF FailAndRequeue, Raised
      <4> QED BY <2>t, <3>13, <4>1, WriteQueuedTyped
              DEF FailAndRequeue, WriteQueued, TypeOK, ThreadsTyped
    <3> QED BY <2>5, <3>1, <3>2, <3>3, <3>4, <3>5, <3>6, <3>7, <3>8, <3>9, <3>10,
               <3>11, <3>12, <3>13 DEF DispatchStep
  <2>6. CASE UNCHANGED vars BY <2>6 DEF vars, TypeOK
  <2> QED BY <2>1, <2>2, <2>3, <2>4, <2>5, <2>6 DEF Next
<1> QED BY <1>1, <1>2, PTL DEF Spec

-----------------------------------------------------------------------------
Reachable(j) == jobs[j].status = "queued" => InQueue(j) \/ \E t \in Threads : Carries(t, j)

\* A step of t leaves every job reachable that t does not hold, if it neither
\* stores its record nor takes it from the deque.
LEMMA OthersStayReachable ==
    ASSUME TypeOK, NEW t \in Threads, NEW j \in Jobs, hand[t] # j, Reachable(j),
           jobs'[j] = jobs[j], InQueue(j) => InQueue(j)',
           \A u \in Threads : u # t => pc'[u] = pc[u] /\ hand'[u] = hand[u]
    PROVE  Reachable(j)'
  BY DEF Reachable, Carries

\* A deque that does not change keeps its members.
LEMMA SameMembership ==
    ASSUME NEW j \in Jobs, queue' = queue, InQueue(j)
    PROVE  InQueue(j)'
  BY DEF InQueue

\* append adds a member and keeps the others.
LEMMA AppendMembership ==
    ASSUME TypeOK, NEW j \in Jobs, NEW k \in Jobs, queue' = Append(queue, k), InQueue(j) \/ j = k
    PROVE  InQueue(j)'
<1>1. /\ Len(queue') = Len(queue) + 1 /\ queue'[Len(queue) + 1] = k
      /\ \A i \in 1..Len(queue) : queue'[i] = queue[i]
      /\ Len(queue) \in Nat
  BY AppendKeeps DEF TypeOK
<1> QED BY <1>1 DEF InQueue

\* popleft removes no member but the head.
LEMMA TailMembership ==
    ASSUME TypeOK, NEW j \in Jobs, queue # << >>, queue' = Tail(queue), j # Head(queue), InQueue(j)
    PROVE  InQueue(j)'
<1>1. /\ Head(queue) = queue[1] /\ Len(queue') = Len(queue) - 1 /\ Len(queue) \in Nat
      /\ \A i \in 1..Len(queue') : queue'[i] = queue[i + 1]
  BY TailShifts DEF TypeOK
<1>2. PICK i \in 1..Len(queue) : queue[i] = j BY DEF InQueue
<1>3. i # 1 BY <1>1, <1>2
<1>4. i - 1 \in 1..Len(queue') /\ queue'[i - 1] = j BY <1>1, <1>2, <1>3
<1> QED BY <1>4 DEF InQueue

\* The record that dispatch_one stores back after dequeue is the leased one.
LeasedCopies == \A t \in Dispatchers : pc[t] = "assign" => copy[t].status = "assigned"

\* Between dequeue and the put of the worker id the record held is assigned.
LEMMA CopiesLeased == Spec => []LeasedCopies
<1>1. Init => LeasedCopies
  BY DEF Init, LeasedCopies, Threads
<1>2. TypeOK /\ LeasedCopies /\ [Next]_vars => LeasedCopies'
  <2> SUFFICES ASSUME TypeOK, LeasedCopies, [Next]_vars PROVE LeasedCopies'
    OBVIOUS
  <2>t. Operators \subseteq Threads /\ Dispatchers \subseteq Threads BY DEF Threads
  <2>g. ASSUME NEW t \in Threads, NEW place, NEW k, NEW r, Goto(t, place, k, r),
               place = "assign" => r.status = "assigned"
        PROVE  LeasedCopies'
    BY <2>g, <2>t DEF Goto, TypeOK, LeasedCopies
  <2>1. ASSUME NEW t \in Operators, NEW j \in Jobs, Submit(t, j) PROVE LeasedCopies'
    BY <2>1, <2>g, <2>t DEF Submit
  <2>2. ASSUME NEW t \in Operators, NEW j \in Jobs,
               NEW call \in {"cancel", "retry", "requeue"}, Get(t, j, call)
        PROVE LeasedCopies'
    BY <2>2, <2>g, <2>t DEF Get
  <2>3. ASSUME NEW t \in Operators, OperatorStep(t) PROVE LeasedCopies'
    BY <2>3, <2>g, <2>t DEF OperatorStep, Cancel, Retry, RequeueDeadLetter, WriteQueued, Return
  <2>4. ASSUME NEW t \in Threads, PutStep(t) PROVE LeasedCopies'
    BY <2>4, <2>g DEF PutStep, PutCheck, QueueAppend, Return
  <2>5. ASSUME NEW t \in Dispatchers, DispatchStep(t) PROVE LeasedCopies'
    <3>1. CASE DequeueBegin(t) BY <2>t, <3>1 DEF DequeueBegin, LeasedCopies, TypeOK
    <3>2. CASE DequeueLease(t) BY <2>g, <2>t, <3>2 DEF DequeueLease
    <3>3. CASE DequeueEnd(t) \/ DequeuePop(t) \/ DequeueRotate(t)
      BY <2>g, <2>t, <3>3 DEF DequeueEnd, DequeuePop, DequeueRotate, Return
    <3>4. CASE DequeueLookup(t) BY <2>g, <2>t, <3>4 DEF DequeueLookup
    <3>5. CASE Assign(t) \/ Abandon(t) \/ Start(t)
      BY <2>g, <2>t, <3>5 DEF Assign, Abandon, Start, Return
    <3>6. CASE Complete(t) \/ CompletedEvent(t) \/ DeadLetter(t) \/ FailAndRequeue(t)
      BY <2>g, <2>t, <3>6
      DEF Complete, CompletedEvent, DeadLetter, FailAndRequeue, WriteQueued, Return
    <3> QED BY <2>5, <3>1, <3>2, <3>3, <3>4, <3>5, <3>6 DEF DispatchStep
  <2>6. CASE UNCHANGED vars BY <2>6 DEF vars, LeasedCopies
  <2> QED BY <2>1, <2>2, <2>3, <2>4, <2>5, <2>6 DEF Next
<1> QED BY <1>1, <1>2, TypeCorrect, PTL DEF Spec

\* In every interleaving of dispatchers and operators a job whose record says
\* queued is in the deque or held by a thread that will append or lease it.
THEOREM NoQueuedJobLost == Spec => []QueuedJobReachable
<1>1. Init => QueuedJobReachable
  BY DEF Init, QueuedJobReachable, Absent
<1>2. TypeOK /\ TypeOK' /\ LeasedCopies /\ QueuedJobReachable /\ [Next]_vars => QueuedJobReachable'
  <2> SUFFICES ASSUME TypeOK, TypeOK', LeasedCopies, QueuedJobReachable, [Next]_vars, NEW j \in Jobs
               PROVE  Reachable(j)'
    BY DEF QueuedJobReachable, Reachable
  <2>r. Reachable(j) BY DEF QueuedJobReachable, Reachable
  <2>t. Operators \subseteq Threads /\ Dispatchers \subseteq Threads BY DEF Threads
  <2>m. \A t \in Threads : pc[t] \notin {"idle", "pop"} => hand[t] \in Jobs BY DEF TypeOK
  \* Only t moves, t's old job and t's new job aside nothing changes for j.
  <2>g. ASSUME NEW t \in Threads, NEW place, NEW k, NEW r, Goto(t, place, k, r)
        PROVE  /\ \A u \in Threads : u # t => pc'[u] = pc[u] /\ hand'[u] = hand[u]
               /\ pc'[t] = place /\ hand'[t] = k
    BY <2>g DEF Goto, TypeOK
  <2>w. ASSUME NEW k \in Jobs, NEW r, Write(k, r)
        PROVE  jobs'[k] = r /\ (j # k => jobs'[j] = jobs[j])
    BY <2>w DEF Write, TypeOK
  <2>1. ASSUME NEW t \in Operators, NEW k \in Jobs, Submit(t, k) PROVE Reachable(j)'
    <3>1. PICK r : Write(k, r) /\ Goto(t, "append", k, r) BY <2>1 DEF Submit
    <3>2. CASE j = k BY <2>g, <2>t, <3>1, <3>2 DEF Reachable, Carries
    <3>3. CASE j # k
      <4>1. jobs'[j] = jobs[j] BY <2>w, <3>1, <3>3
      <4>2. /\ \A u \in Threads : u # t => pc'[u] = pc[u] /\ hand'[u] = hand[u]
            /\ pc[t] = "idle" /\ queue' = queue
        BY <2>1, <2>g, <2>t, <3>1 DEF Submit
      <4> QED BY <2>r, <2>t, <4>1, <4>2, SameMembership DEF Reachable, Carries
    <3> QED BY <3>2, <3>3
  <2>2. ASSUME NEW t \in Operators, NEW k \in Jobs,
               NEW call \in {"cancel", "retry", "requeue"}, Get(t, k, call)
        PROVE Reachable(j)'
    <3>1. /\ pc[t] = "idle" /\ jobs' = jobs /\ queue' = queue
          /\ \A u \in Threads : u # t => pc'[u] = pc[u] /\ hand'[u] = hand[u]
      BY <2>2, <2>g, <2>t DEF Get
    <3> QED BY <2>r, <2>t, <3>1, SameMembership DEF Reachable, Carries
  \* A step that stores a record that is not queued for the job t holds.
  <2>3. ASSUME NEW t \in Threads, hand[t] \in Jobs, NEW r, Write(hand[t], r), r.status # "queued",
               NEW place, NEW k, NEW c, Goto(t, place, k, c), queue' = queue
        PROVE Reachable(j)'
    <3>1. CASE j = hand[t] BY <2>3, <2>w, <3>1 DEF Reachable
    <3>2. CASE j # hand[t] BY <2>3, <2>g, <2>r, <2>w, <3>2, SameMembership, OthersStayReachable
    <3> QED BY <3>1, <3>2
  \* A step of put or enqueue that stores a queued record.
  <2>4. ASSUME NEW t \in Threads, hand[t] \in Jobs, NEW next \in {"recheck", "append"},
               WriteQueued(t, next)
        PROVE Reachable(j)'
    <3>1. PICK r : Write(hand[t], r) /\ Goto(t, next, hand[t], r) BY <2>4 DEF WriteQueued
    <3>2. CASE j = hand[t] BY <2>4, <2>g, <3>1, <3>2 DEF Reachable, Carries
    <3>3. CASE j # hand[t]
      BY <2>4, <2>g, <2>r, <2>w, <3>1, <3>3, SameMembership, OthersStayReachable DEF WriteQueued
    <3> QED BY <3>2, <3>3
  \* A step that only moves t, from a place where it carries nothing.
  <2>5. ASSUME NEW t \in Threads, NEW place, NEW k, NEW c, Goto(t, place, k, c),
               pc[t] \notin {"append", "recheck", "lookup", "rotate", "lease"},
               jobs' = jobs, queue' = queue
        PROVE Reachable(j)'
    BY <2>5, <2>g, <2>r, SameMembership DEF Reachable, Carries
  \* A step that appends the id t holds.
  <2>6. ASSUME NEW t \in Threads, hand[t] \in Jobs, queue' = Append(queue, hand[t]), jobs' = jobs,
               NEW place, NEW k, NEW c, Goto(t, place, k, c)
        PROVE Reachable(j)'
    <3>a. InQueue(j) \/ j = hand[t] => InQueue(j)' BY <2>6, AppendMembership
    <3>1. CASE j = hand[t] BY <3>1, <3>a DEF Reachable
    <3>2. CASE j # hand[t] BY <2>6, <2>g, <2>r, <3>2, <3>a, OthersStayReachable
    <3> QED BY <3>1, <3>2
  <2>7. ASSUME NEW t \in Operators, OperatorStep(t) PROVE Reachable(j)'
    <3>1. CASE Cancel(t)
      <4>1. WithStatus(copy[t], "cancelled").status # "queued"
        BY <2>t, WithStatusRecord DEF TypeOK, JobStatus
      <4> QED BY <2>3, <2>m, <2>t, <3>1, <4>1 DEF Cancel, Return
    <3>2. CASE Retry(t) BY <2>4, <2>m, <2>t, <3>2 DEF Retry
    <3>3. CASE RequeueDeadLetter(t) BY <2>4, <2>m, <2>t, <3>3 DEF RequeueDeadLetter
    <3> QED BY <2>7, <3>1, <3>2, <3>3 DEF OperatorStep
  <2>8. ASSUME NEW t \in Threads, PutStep(t) PROVE Reachable(j)'
    <3>1. CASE PutCheck(t)
      <4>1. jobs' = jobs /\ queue' = queue BY <3>1 DEF PutCheck
      <4>2. CASE InQueue(hand[t]) /\ j = hand[t] BY <4>1, <4>2, SameMembership DEF InQueue, Reachable
      <4>3. CASE ~InQueue(hand[t]) /\ j = hand[t]
        <5>1. Goto(t, "append", hand[t], copy[t]) BY <3>1, <4>3 DEF PutCheck
        <5> QED BY <2>g, <4>3, <5>1 DEF Reachable, Carries
      <4>4. CASE j # hand[t]
        <5>1. \A u \in Threads : u # t => pc'[u] = pc[u] /\ hand'[u] = hand[u]
          BY <2>g, <3>1 DEF PutCheck, Return
        <5> QED BY <2>r, <4>1, <4>4, <5>1, SameMembership, OthersStayReachable
      <4> QED BY <4>2, <4>3, <4>4
    <3>2. CASE QueueAppend(t) BY <2>6, <2>m, <3>2 DEF QueueAppend, Return
    <3> QED BY <2>8, <3>1, <3>2 DEF PutStep
  <2>9. ASSUME NEW t \in Dispatchers, DispatchStep(t) PROVE Reachable(j)'
    <3>c. copy[t] \in RuntimeJob BY <2>t DEF TypeOK
    <3>s. \A s \in JobStatus \ {"queued"} : WithStatus(copy[t], s).status # "queued"
      BY <3>c, WithStatusRecord DEF JobStatus
    <3>1. CASE DequeueBegin(t)
      BY <2>r, <2>t, <3>1, SameMembership DEF DequeueBegin, TypeOK, Reachable, Carries
    <3>2. CASE DequeueEnd(t) BY <2>5, <2>t, <3>2 DEF DequeueEnd, Return
    <3>3. CASE DequeuePop(t)
      <4>1. CASE j = Head(queue) BY <2>g, <2>t, <3>3, <4>1 DEF DequeuePop, Reachable, Carries
      <4>2. CASE j # Head(queue)
        BY <2>g, <2>r, <2>t, <3>3, <4>2, TailMembership DEF DequeuePop, Reachable, Carries
      <4> QED BY <4>1, <4>2
    <3>4. CASE DequeueLookup(t)
      <4>1. jobs' = jobs /\ queue' = queue /\ hand[t] \in Jobs
        BY <2>m, <2>t, <3>4 DEF DequeueLookup
      <4>2. CASE j = hand[t] BY <2>g, <2>t, <3>4, <4>1, <4>2 DEF DequeueLookup, Reachable, Carries
      <4>3. CASE j # hand[t]
        <5>1. \A u \in Threads : u # t => pc'[u] = pc[u] /\ hand'[u] = hand[u]
          BY <2>g, <2>t, <3>4 DEF DequeueLookup
        <5> QED BY <2>r, <2>t, <4>1, <4>3, <5>1, SameMembership, OthersStayReachable
      <4> QED BY <4>2, <4>3
    <3>5. CASE DequeueRotate(t) BY <2>6, <2>m, <2>t, <3>5 DEF DequeueRotate
    <3>6. CASE DequeueLease(t)
      <4>1. PICK r : r.status = "assigned" /\ Write(hand[t], r) /\ Goto(t, "assign", hand[t], r)
        BY <3>6 DEF DequeueLease
      <4> QED BY <2>3, <2>m, <2>t, <3>6, <4>1 DEF DequeueLease
    <3>7. CASE Assign(t) BY <2>3, <2>m, <2>t, <3>7 DEF Assign, LeasedCopies
    <3>8. CASE Abandon(t) BY <2>5, <2>t, <3>8 DEF Abandon, Return
    <3>9. CASE Start(t) BY <2>3, <2>m, <2>t, <3>9, <3>s DEF Start, JobStatus
    <3>10. CASE Complete(t) BY <2>3, <2>m, <2>t, <3>10, <3>s DEF Complete, JobStatus
    <3>11. CASE CompletedEvent(t) BY <2>5, <2>t, <3>11 DEF CompletedEvent, Return
    <3>12. CASE DeadLetter(t) BY <2>3, <2>m, <2>t, <3>12, <3>s DEF DeadLetter, Raised, Return, JobStatus
    <3>13. CASE FailAndRequeue(t) BY <2>4, <2>m, <2>t, <3>13 DEF FailAndRequeue, Raised
    <3> QED BY <2>9, <3>1, <3>2, <3>3, <3>4, <3>5, <3>6, <3>7, <3>8, <3>9, <3>10,
               <3>11, <3>12, <3>13 DEF DispatchStep
  <2>10. CASE UNCHANGED vars
    BY <2>10, <2>r DEF vars, Reachable, Carries, InQueue
  <2> QED BY <2>1, <2>2, <2>7, <2>8, <2>9, <2>10 DEF Next
<1> QED BY <1>1, <1>2, TypeCorrect, CopiesLeased, PTL DEF Spec

-----------------------------------------------------------------------------
\* Stale records may lose attempts and never invent one; so a job in the dead
\* letters was leased max_attempts times.
AttemptsInv == AttemptsNeverOvercount /\ NoEarlyDeadLetter

\* The attempts of every stored or held record are covered by leases.
THEOREM AttemptsCovered == Spec => []AttemptsInv
<1>1. Init => AttemptsInv
  BY DEF Init, AttemptsInv, AttemptsNeverOvercount, NoEarlyDeadLetter, Absent
<1>2. TypeOK /\ TypeOK' /\ AttemptsInv /\ [Next]_vars => AttemptsInv'
  <2> SUFFICES ASSUME TypeOK, TypeOK', AttemptsInv, [Next]_vars PROVE AttemptsInv'
    OBVIOUS
  <2>t. Operators \subseteq Threads /\ Dispatchers \subseteq Threads BY DEF Threads
  <2>m. \A t \in Threads : pc[t] \notin {"idle", "pop"} => hand[t] \in Jobs BY DEF TypeOK
  <2>b. \A t \in Threads : hand[t] \in Jobs => copy[t].attempts <= leases[hand[t]]
    BY DEF AttemptsInv, AttemptsNeverOvercount
  <2>l. \A k \in Jobs : leases[k] \in Nat BY DEF TypeOK
  \* A jump to a record that is covered, beside a write of a covered record.
  <2>g. ASSUME NEW t \in Threads, NEW place, NEW k, NEW c, Goto(t, place, k, c),
               k \in Jobs => c.attempts <= leases[k],
               \/ jobs' = jobs
               \/ \E j \in Jobs, r \in RuntimeJob : Write(j, r) /\ r.attempts <= leases[j],
               leases' = leases, \A j \in dead' : j \in dead \/ leases[j] >= MaxAttempts[j]
        PROVE  AttemptsInv'
    <3>1. \A j \in Jobs : jobs'[j].attempts <= leases'[j]
      BY <2>g DEF Write, TypeOK, AttemptsInv, AttemptsNeverOvercount
    <3>2. \A u \in Threads : hand'[u] \in Jobs => copy'[u].attempts <= leases'[hand'[u]]
      BY <2>g DEF Goto, TypeOK, AttemptsInv, AttemptsNeverOvercount
    <3>3. NoEarlyDeadLetter' BY <2>g DEF AttemptsInv, NoEarlyDeadLetter
    <3> QED BY <3>1, <3>2, <3>3 DEF AttemptsInv, AttemptsNeverOvercount
  <2>a. Absent.attempts = 0 BY DEF Absent
  <2>n. \A j \in Jobs : Absent.attempts <= leases[j] BY <2>a, <2>l
  <2>0. NoJob \notin Jobs BY CloudAssumption
  \* with_update(status=...) of the record t holds.
  <2>u. ASSUME NEW t \in Threads, hand[t] \in Jobs, NEW s \in JobStatus
        PROVE  /\ WithStatus(copy[t], s) \in RuntimeJob
               /\ WithStatus(copy[t], s).attempts <= leases[hand[t]]
    BY <2>b, <2>u, WithStatusRecord DEF TypeOK
  <2>q. ASSUME NEW t \in Threads, hand[t] \in Jobs, NEW next, WriteQueued(t, next), dead' = dead
        PROVE  AttemptsInv'
    BY <2>g, <2>q, <2>u DEF WriteQueued, JobStatus
  <2>1. ASSUME NEW t \in Operators, NEW j \in Jobs, Submit(t, j) PROVE AttemptsInv'
    <3>1. PICK r \in RuntimeJob : Write(j, r) /\ Goto(t, "append", j, r) /\ r.attempts = 0
      BY <2>1 DEF Submit, RuntimeJob, JobStatus
    <3> QED BY <2>1, <2>g, <2>l, <2>t, <3>1 DEF Submit
  <2>2. ASSUME NEW t \in Operators, NEW j \in Jobs,
               NEW call \in {"cancel", "retry", "requeue"}, Get(t, j, call)
        PROVE AttemptsInv'
    <3>1. jobs[j].attempts <= leases[j] BY DEF AttemptsInv, AttemptsNeverOvercount
    <3> QED BY <2>2, <2>g, <2>t, <3>1 DEF Get
  <2>3. ASSUME NEW t \in Operators, OperatorStep(t) PROVE AttemptsInv'
    <3>1. CASE Cancel(t) BY <2>0, <2>g, <2>m, <2>t, <2>u, <3>1 DEF Cancel, Return, JobStatus
    <3>2. CASE Retry(t) BY <2>m, <2>q, <2>t, <3>2 DEF Retry, WriteQueued
    <3>3. CASE RequeueDeadLetter(t) BY <2>m, <2>q, <2>t, <3>3 DEF RequeueDeadLetter, WriteQueued
    <3> QED BY <2>3, <3>1, <3>2, <3>3 DEF OperatorStep
  <2>4. ASSUME NEW t \in Threads, PutStep(t) PROVE AttemptsInv'
    <3>1. CASE PutCheck(t) BY <2>0, <2>b, <2>g, <3>1 DEF PutCheck, Return
    <3>2. CASE QueueAppend(t) BY <2>0, <2>g, <3>2 DEF QueueAppend, Return
    <3> QED BY <2>4, <3>1, <3>2 DEF PutStep
  <2>5. ASSUME NEW t \in Dispatchers, DispatchStep(t) PROVE AttemptsInv'
    <3>c. copy[t] \in RuntimeJob BY <2>t DEF TypeOK
    <3>1. CASE DequeueBegin(t)
      BY <3>1 DEF DequeueBegin, AttemptsInv, AttemptsNeverOvercount, NoEarlyDeadLetter
    <3>2. CASE DequeueEnd(t) BY <2>0, <2>g, <2>t, <3>2 DEF DequeueEnd, Return
    <3>3. CASE DequeuePop(t) BY <2>g, <2>n, <2>t, <3>3 DEF DequeuePop
    <3>4. CASE DequeueLookup(t)
      <4>1. jobs[hand[t]].attempts <= leases[hand[t]]
        BY <2>m, <2>t, <3>4 DEF DequeueLookup, AttemptsInv, AttemptsNeverOvercount
      <4> QED BY <2>g, <2>n, <2>t, <2>0, <3>4, <4>1 DEF DequeueLookup
    <3>5. CASE DequeueRotate(t) BY <2>0, <2>g, <2>t, <3>5 DEF DequeueRotate
    <3>6. CASE DequeueLease(t)
      <4>1. PICK r \in RuntimeJob :
               /\ Write(hand[t], r) /\ Goto(t, "assign", hand[t], r)
               /\ r.attempts = copy[t].attempts + 1
        BY <3>6, <3>c DEF DequeueLease, RuntimeJob, JobStatus
      <4>2. hand[t] \in Jobs BY <2>m, <2>t, <3>6 DEF DequeueLease
      <4>3. /\ leases'[hand[t]] = leases[hand[t]] + 1
            /\ \A k \in Jobs : leases[k] <= leases'[k] /\ leases'[k] \in Nat
        BY <3>6, <4>2 DEF DequeueLease, TypeOK
      <4>4. copy[t].attempts \in Nat /\ copy[t].attempts + 1 <= leases'[hand[t]]
        BY <2>b, <2>l, <2>t, <3>c, <4>2, <4>3 DEF RuntimeJob
      <4>5. \A j \in Jobs : jobs'[j].attempts <= leases'[j]
        <5> SUFFICES ASSUME NEW j \in Jobs PROVE jobs'[j].attempts <= leases'[j]
          OBVIOUS
        <5>1. CASE j = hand[t] BY <4>1, <4>2, <4>4, <5>1, WriteTyped
        <5>2. CASE j # hand[t]
          <6>1. jobs'[j] = jobs[j] BY <4>1, <4>2, <5>2, WriteTyped
          <6>2. jobs[j].attempts <= leases[j] /\ jobs[j].attempts \in Nat
            BY DEF AttemptsInv, AttemptsNeverOvercount, TypeOK, RuntimeJob
          <6> QED BY <2>l, <4>3, <6>1, <6>2
        <5> QED BY <5>1, <5>2
      <4>6. \A u \in Threads : hand'[u] \in Jobs => copy'[u].attempts <= leases'[hand'[u]]
        <5> SUFFICES ASSUME NEW u \in Threads, hand'[u] \in Jobs
                     PROVE  copy'[u].attempts <= leases'[hand'[u]]
          OBVIOUS
        <5>1. CASE u = t BY <2>t, <4>1, <4>2, <4>4, <5>1 DEF Goto, TypeOK
        <5>2. CASE u # t
          <6>1. hand'[u] = hand[u] /\ copy'[u] = copy[u] BY <4>1, <5>2 DEF Goto, TypeOK
          <6>2. copy[u].attempts \in Nat BY DEF TypeOK, RuntimeJob
          <6> QED BY <2>b, <2>l, <4>3, <6>1, <6>2
        <5> QED BY <5>1, <5>2
      <4>7. NoEarlyDeadLetter'
        <5> SUFFICES ASSUME NEW j \in dead' PROVE leases'[j] >= MaxAttempts[j]
          BY DEF NoEarlyDeadLetter
        <5>1. j \in dead /\ j \in Jobs BY <3>6 DEF DequeueLease, TypeOK
        <5>2. leases[j] >= MaxAttempts[j] BY <5>1 DEF AttemptsInv, NoEarlyDeadLetter
        <5>3. MaxAttempts[j] \in Int BY <5>1, CloudAssumption
        <5> QED BY <2>l, <4>3, <5>1, <5>2, <5>3
      <4> QED BY <4>5, <4>6, <4>7 DEF AttemptsInv, AttemptsNeverOvercount
    <3>7. CASE Assign(t)
      <4>1. hand[t] \in Jobs /\ copy[t].attempts <= leases[hand[t]] BY <2>b, <2>m, <2>t, <3>7 DEF Assign
      <4> QED BY <2>g, <2>t, <3>7, <3>c, <4>1 DEF Assign
    <3>8. CASE Abandon(t) BY <2>0, <2>g, <2>t, <3>8 DEF Abandon, Return
    <3>9. CASE Start(t) BY <2>g, <2>m, <2>t, <2>u, <3>9 DEF Start, JobStatus
    <3>10. CASE Complete(t) BY <2>b, <2>g, <2>m, <2>t, <2>u, <3>10 DEF Complete, JobStatus
    <3>11. CASE CompletedEvent(t) BY <2>0, <2>g, <2>t, <3>11 DEF CompletedEvent, Return
    <3>12. CASE DeadLetter(t)
      <4>1. hand[t] \in Jobs BY <2>m, <2>t, <3>12 DEF DeadLetter, Raised
      <4>2. leases[hand[t]] >= MaxAttempts[hand[t]]
        <5>1. copy[t].attempts \in Nat BY <3>c DEF RuntimeJob
        <5>2. MaxAttempts[hand[t]] \in Int BY <4>1, CloudAssumption
        <5> QED BY <2>b, <2>l, <2>t, <3>12, <4>1, <5>1, <5>2 DEF DeadLetter
      <4> QED BY <2>0, <2>g, <2>t, <2>u, <3>12, <4>1, <4>2 DEF DeadLetter, Return, JobStatus
    <3>13. CASE FailAndRequeue(t) BY <2>m, <2>q, <2>t, <3>13 DEF FailAndRequeue, Raised, WriteQueued
    <3> QED BY <2>5, <3>1, <3>2, <3>3, <3>4, <3>5, <3>6, <3>7, <3>8, <3>9, <3>10,
               <3>11, <3>12, <3>13 DEF DispatchStep
  <2>6. CASE UNCHANGED vars
    BY <2>6 DEF vars, AttemptsInv, AttemptsNeverOvercount, NoEarlyDeadLetter
  <2> QED BY <2>1, <2>2, <2>3, <2>4, <2>5, <2>6 DEF Next
<1> QED BY <1>1, <1>2, TypeCorrect, PTL DEF Spec

\* No job is dead-lettered before it was leased max_attempts times.
THEOREM DeadLettersExhausted == Spec => []NoEarlyDeadLetter
  BY AttemptsCovered, PTL DEF AttemptsInv
=============================================================================
