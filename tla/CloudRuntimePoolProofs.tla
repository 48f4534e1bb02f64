----------------------- MODULE CloudRuntimePoolProofs -----------------------
(* The cloud job runtime implements JobPool for every set of jobs and every *)
(* finite set of threads.                                                   *)
EXTENDS CloudRuntimePool, CloudRuntimeProofs, FiniteSetTheorems

\* 1 for a fact, 0 for its negation
Ind(b) == IF b THEN 1 ELSE 0

\* Two sets that agree but for one element
LEMMA OneElementCount ==
    ASSUME NEW A, NEW B, NEW x, IsFiniteSet(A), A \ {x} = B \ {x}
    PROVE  /\ IsFiniteSet(B) /\ Cardinality(A) \in Nat /\ Cardinality(B) \in Nat
           /\ Cardinality(B) = Cardinality(A) + Ind(x \in B) - Ind(x \in A)
<1>1. IsFiniteSet(A \ {x}) BY FS_RemoveElement
<1>2. CASE x \in B
  <2>1. B = (B \ {x}) \cup {x} BY <1>2
  <2> QED BY <1>1, <1>2, <2>1, FS_AddElement, FS_RemoveElement, FS_CardinalityType DEF Ind
<1>3. CASE x \notin B
  <2>1. B = A \ {x} BY <1>3
  <2>2. IsFiniteSet(B) BY <1>1, <2>1
  <2>3. Cardinality(A) \in Nat /\ Cardinality(B) \in Nat BY <2>2, FS_CardinalityType
  <2>4. Cardinality(B) = IF x \in A THEN Cardinality(A) - 1 ELSE Cardinality(A)
    BY <2>1, FS_RemoveElement
  <2> QED BY <1>3, <2>2, <2>3, <2>4 DEF Ind
<1> QED BY <1>2, <1>3

\* The places of an id in a deque are finitely many.
LEMMA OccursFinite ==
    ASSUME NEW q \in Seq(Jobs), NEW j
    PROVE  IsFiniteSet({i \in 1 .. Len(q) : q[i] = j}) /\ Occurs(q, j) \in Nat
<1>1. Len(q) \in Nat OBVIOUS
<1>2. IsFiniteSet(1 .. Len(q)) BY <1>1, FS_Interval
<1>3. {i \in 1 .. Len(q) : q[i] = j} \in SUBSET (1 .. Len(q)) OBVIOUS
<1> QED BY <1>2, <1>3, FS_Subset, FS_CardinalityType DEF Occurs

\* append adds one occurrence of one id.
LEMMA OccursAppend ==
    ASSUME NEW q \in Seq(Jobs), NEW k \in Jobs, NEW j
    PROVE  Occurs(Append(q, k), j) = Occurs(q, j) + Ind(k = j)
<1> DEFINE A == {i \in 1 .. Len(q) : q[i] = j}
           a == Append(q, k)
           B == {i \in 1 .. Len(a) : a[i] = j}
           x == Len(q) + 1
<1>1. /\ Len(a) = Len(q) + 1 /\ a[x] = k /\ Len(q) \in Nat
      /\ \A i \in 1 .. Len(q) : a[i] = q[i]
  BY AppendKeeps
<1>2. IsFiniteSet(A) /\ Cardinality(A) \in Nat BY OccursFinite DEF Occurs
<1> HIDE DEF a
<1>3. A \ {x} = B \ {x} BY <1>1
<1>4. x \notin A /\ (x \in B <=> k = j) BY <1>1
<1>5. Cardinality(B) = Cardinality(A) + Ind(x \in B) - Ind(x \in A)
  <2> HIDE DEF A, B, x
  <2> QED BY <1>2, <1>3, OneElementCount
<1>6. Cardinality(B) = Cardinality(A) + Ind(k = j) BY <1>2, <1>4, <1>5 DEF Ind
<1> QED BY <1>6 DEF Occurs, a

\* popleft removes one occurrence of the head.
LEMMA OccursTail ==
    ASSUME NEW q \in Seq(Jobs), q # << >>, NEW j
    PROVE  Occurs(Tail(q), j) = Occurs(q, j) - Ind(Head(q) = j)
<1> DEFINE A == {i \in 1 .. Len(q) : q[i] = j}
           r == Tail(q)
           B == {i \in 1 .. Len(r) : r[i] = j}
           C == A \ {1}
           f == [i \in B |-> i + 1]
<1>1. /\ Len(r) = Len(q) - 1 /\ Head(q) = q[1] /\ Len(q) \in Nat /\ Len(q) >= 1 /\ r \in Seq(Jobs)
      /\ \A i \in 1 .. Len(r) : r[i] = q[i + 1]
  BY TailShifts
<1>2. /\ IsFiniteSet(A) /\ Cardinality(A) \in Nat BY OccursFinite DEF Occurs
<1>3. /\ IsFiniteSet(B) /\ Cardinality(B) \in Nat BY <1>1, OccursFinite DEF Occurs
<1> HIDE DEF r
<1>4. ExistsBijection(B, C)
  <2>1. f \in [B -> C] BY <1>1
  <2>2. \A a, b \in B : f[a] = f[b] => a = b BY <1>1
  <2>3. \A c \in C : \E b \in B : f[b] = c
    <3> TAKE c \in C
    <3>1. c - 1 \in B BY <1>1
    <3>2. f[c - 1] = c BY <1>1, <3>1
    <3> QED BY <3>1, <3>2
  <2>4. IsInjective(f) BY <2>2 DEF IsInjective
  <2> HIDE DEF f, B, C
  <2> QED BY <2>1, <2>3, <2>4 DEF ExistsBijection, Bijection, Injection, Surjection
<1>5. Cardinality(C) = Cardinality(B) BY <1>3, <1>4, FS_Bijection
<1>6. 1 \in A <=> Head(q) = j BY <1>1
<1>7. Cardinality(C) = IF 1 \in A THEN Cardinality(A) - 1 ELSE Cardinality(A)
  <2> HIDE DEF A
  <2> QED BY <1>2, FS_RemoveElement
<1>8. Cardinality(B) = Cardinality(A) - Ind(Head(q) = j) BY <1>2, <1>5, <1>6, <1>7 DEF Ind
<1> QED BY <1>8 DEF Occurs, r

\* The counts of tickets and leases are numbers.
LEMMA CountsTyped ==
    ASSUME TypeOK
    PROVE  /\ Tickets \in [Jobs -> Nat] /\ Running \in [Jobs -> Nat]
           /\ \A j \in Jobs : IsFiniteSet(Carriers(j)) /\ IsFiniteSet(Runners(j))
<1>1. ASSUME NEW j \in Jobs
      PROVE  /\ IsFiniteSet(Carriers(j)) /\ Cardinality(Carriers(j)) \in Nat
             /\ IsFiniteSet(Runners(j)) /\ Cardinality(Runners(j)) \in Nat
             /\ Occurs(queue, j) \in Nat
  <2>1. Carriers(j) \in SUBSET Threads BY DEF Carriers
  <2>2. Runners(j) \in SUBSET Threads BY DEF Runners, Threads
  <2>3. IsFiniteSet(Carriers(j)) /\ IsFiniteSet(Runners(j))
    BY <2>1, <2>2, ThreadsAssumption, FS_Subset
  <2>4. queue \in Seq(Jobs) BY DEF TypeOK
  <2> QED BY <2>3, <2>4, FS_CardinalityType, OccursFinite
<1> QED BY <1>1 DEF Tickets, Running

\* What a step of one thread does to the tickets and leases of one job
LEMMA CountStep ==
    ASSUME TypeOK, TypeOK', NEW t \in Threads, NEW j \in Jobs,
           \A u \in Threads : u # t => pc'[u] = pc[u] /\ hand'[u] = hand[u]
    PROVE  /\ Tickets'[j] = Tickets[j] + Occurs(queue', j) - Occurs(queue, j)
                              + Ind(Carries(t, j)') - Ind(Carries(t, j))
           /\ Running'[j] = Running[j] + Ind(t \in Dispatchers /\ Runs(t, j)')
                              - Ind(t \in Dispatchers /\ Runs(t, j))
           /\ Tickets[j] \in Nat /\ Tickets'[j] \in Nat
           /\ Running[j] \in Nat /\ Running'[j] \in Nat
           /\ Occurs(queue, j) \in Nat /\ Occurs(queue', j) \in Nat
<1>1. /\ IsFiniteSet(Carriers(j)) /\ IsFiniteSet(Runners(j))
      /\ Tickets[j] \in Nat /\ Running[j] \in Nat
  BY CountsTyped
<1>2. Carriers(j) \ {t} = Carriers(j)' \ {t} BY DEF Carriers, Carries
<1>3. Runners(j) \ {t} = Runners(j)' \ {t} BY DEF Runners, Runs, Threads
<1>4. /\ t \in Carriers(j) <=> Carries(t, j)
      /\ t \in Carriers(j)' <=> Carries(t, j)'
  BY DEF Carriers
<1>5. /\ t \in Runners(j) <=> t \in Dispatchers /\ Runs(t, j)
      /\ t \in Runners(j)' <=> t \in Dispatchers /\ Runs(t, j)'
  BY DEF Runners
<1>6. /\ Cardinality(Carriers(j)) \in Nat /\ Cardinality(Carriers(j)') \in Nat
      /\ Cardinality(Carriers(j)')
           = Cardinality(Carriers(j)) + Ind(t \in Carriers(j)') - Ind(t \in Carriers(j))
  BY <1>1, <1>2, OneElementCount
<1>7. /\ Cardinality(Runners(j)) \in Nat /\ Cardinality(Runners(j)') \in Nat
      /\ Cardinality(Runners(j)')
           = Cardinality(Runners(j)) + Ind(t \in Runners(j)') - Ind(t \in Runners(j))
  BY <1>1, <1>3, OneElementCount
<1>8. Occurs(queue, j) \in Nat /\ Occurs(queue', j) \in Nat
  <2>1. queue \in Seq(Jobs) /\ queue' \in Seq(Jobs) BY DEF TypeOK
  <2> QED BY <2>1, OccursFinite
<1>9. /\ Tickets[j] = Occurs(queue, j) + Cardinality(Carriers(j))
      /\ Tickets'[j] = Occurs(queue', j) + Cardinality(Carriers(j)')
  BY DEF Tickets, Occurs
<1>10. /\ Running[j] = Cardinality(Runners(j)) /\ Running'[j] = Cardinality(Runners(j)')
  BY DEF Running
<1>11. /\ Ind(t \in Carriers(j)') = Ind(Carries(t, j)') /\ Ind(t \in Carriers(j)) = Ind(Carries(t, j))
       /\ Ind(Carries(t, j)') \in Int /\ Ind(Carries(t, j)) \in Int
  BY <1>4 DEF Ind
<1>12. /\ Ind(t \in Runners(j)') = Ind(t \in Dispatchers /\ Runs(t, j)')
       /\ Ind(t \in Runners(j)) = Ind(t \in Dispatchers /\ Runs(t, j))
       /\ Ind(t \in Dispatchers /\ Runs(t, j)') \in Int /\ Ind(t \in Dispatchers /\ Runs(t, j)) \in Int
  BY <1>5 DEF Ind
<1> QED BY <1>1, <1>6, <1>7, <1>8, <1>9, <1>10, <1>11, <1>12

-----------------------------------------------------------------------------
\* Every id in the deque or in the hands of a thread inside a call was submitted.
Held ==
    /\ \A t \in Threads : pc[t] \notin {"idle", "pop"} => hand[t] \in Submitted
    /\ \A i \in 1 .. Len(queue) : queue[i] \in Submitted

\* Storing a record of a submitted job submits nothing and removes nothing.
LEMMA WriteKeepsSubmitted ==
    ASSUME TypeOK, NEW k \in Submitted, NEW r \in RuntimeJob, r.status # "absent", Write(k, r)
    PROVE  Submitted' = Submitted
<1>1. k \in Jobs BY DEF Submitted
<1>2. jobs'[k] = r /\ \A j \in Jobs : j # k => jobs'[j] = jobs[j] BY <1>1, WriteTyped
<1>3. jobs[k].status # "absent" BY DEF Submitted
<1>4. \A j \in Jobs : jobs'[j].status # "absent" <=> jobs[j].status # "absent" BY <1>2, <1>3
<1> QED BY <1>4 DEF Submitted

\* The same for with_update(status=...)
LEMMA StatusKeepsSubmitted ==
    ASSUME TypeOK, NEW k \in Submitted, NEW c \in RuntimeJob, NEW s \in JobStatus,
           Write(k, WithStatus(c, s))
    PROVE  Submitted' = Submitted
<1> DEFINE r == WithStatus(c, s)
<1>1. r \in RuntimeJob /\ r.status = s BY WithStatusRecord
<1>2. s # "absent" BY DEF JobStatus
<1>3. Write(k, r) OBVIOUS
<1> HIDE DEF r
<1> QED BY <1>1, <1>2, <1>3, WriteKeepsSubmitted

\* A step that is no submit keeps the set of submitted jobs.
LEMMA OnlySubmitSubmits ==
    ASSUME TypeOK, LeasedCopies, Held, NEW t \in Threads,
           \/ \E j \in Jobs : \E call \in {"cancel", "retry", "requeue"} : Get(t, j, call)
           \/ OperatorStep(t) \/ PutStep(t)
           \/ t \in Dispatchers /\ DispatchStep(t)
    PROVE  Submitted' = Submitted
<1>c. copy[t] \in RuntimeJob BY DEF TypeOK
<1>h. pc[t] \notin {"idle", "pop"} => hand[t] \in Submitted BY DEF Held
<1>s. {"queued", "running", "completed", "cancelled", "dead_lettered"} \subseteq JobStatus
  BY DEF JobStatus
<1>1. CASE UNCHANGED jobs BY <1>1 DEF Submitted
<1>2. CASE pc[t] \notin {"idle", "pop"} /\ \E s \in JobStatus : Write(hand[t], WithStatus(copy[t], s))
  BY <1>2, <1>c, <1>h, StatusKeepsSubmitted
<1>3. CASE OperatorStep(t)
  BY <1>3, <1>2, <1>s DEF OperatorStep, Cancel, Retry, RequeueDeadLetter, WriteQueued
<1>4. CASE PutStep(t) BY <1>4, <1>1 DEF PutStep, PutCheck, QueueAppend
<1>5. CASE \E j \in Jobs : \E call \in {"cancel", "retry", "requeue"} : Get(t, j, call)
  BY <1>5, <1>1 DEF Get
<1>6. CASE t \in Dispatchers /\ DispatchStep(t)
  <2>1. CASE DequeueBegin(t) \/ DequeueEnd(t) \/ DequeuePop(t) \/ DequeueLookup(t) \/ DequeueRotate(t)
    BY <2>1, <1>1 DEF DequeueBegin, DequeueEnd, DequeuePop, DequeueLookup, DequeueRotate
  <2>2. CASE Abandon(t) \/ CompletedEvent(t) BY <2>2, <1>1 DEF Abandon, CompletedEvent
  <2>3. CASE DequeueLease(t)
    <3> DEFINE leased == [status |-> "assigned", attempts |-> copy[t].attempts + 1]
    <3>1. leased \in RuntimeJob /\ leased.status # "absent" BY <1>c DEF RuntimeJob, JobStatus
    <3>2. Write(hand[t], leased) /\ hand[t] \in Submitted BY <2>3, <1>h DEF DequeueLease
    <3> HIDE DEF leased
    <3> QED BY <3>1, <3>2, WriteKeepsSubmitted
  <2>4. CASE Assign(t)
    <3>1. copy[t].status # "absent" BY <2>4, <1>6 DEF Assign, LeasedCopies
    <3>2. Write(hand[t], copy[t]) /\ hand[t] \in Submitted BY <2>4, <1>h DEF Assign
    <3> QED BY <1>c, <3>1, <3>2, WriteKeepsSubmitted
  <2>5. CASE Start(t) BY <2>5, <1>2, <1>s DEF Start
  <2>6. CASE Complete(t) BY <2>6, <1>2, <1>s DEF Complete
  <2>7. CASE DeadLetter(t) BY <2>7, <1>2, <1>s DEF DeadLetter, Raised
  <2>8. CASE FailAndRequeue(t) BY <2>8, <1>2, <1>s DEF FailAndRequeue, Raised, WriteQueued
  <2> QED BY <1>6, <2>1, <2>2, <2>3, <2>4, <2>5, <2>6, <2>7, <2>8 DEF DispatchStep
<1> QED BY <1>3, <1>4, <1>5, <1>6

\* submit adds its job.
LEMMA SubmitSubmits ==
    ASSUME TypeOK, NEW t \in Operators, NEW j \in Jobs, Submit(t, j)
    PROVE  j \notin Submitted /\ Submitted' = Submitted \cup {j}
<1> DEFINE queued == [status |-> "queued", attempts |-> 0]
<1>1. queued \in RuntimeJob /\ queued.status # "absent" BY DEF RuntimeJob, JobStatus
<1>2. Write(j, queued) /\ jobs[j].status = "absent" BY DEF Submit
<1> HIDE DEF queued
<1>3. jobs'[j] = queued /\ \A k \in Jobs : k # j => jobs'[k] = jobs[k] BY <1>1, <1>2, WriteTyped
<1> QED BY <1>1, <1>2, <1>3 DEF Submitted

\* dequeue, put and enqueue move ids of submitted jobs only.
LEMMA HeldStays == Spec => []Held
<1>1. Init => Held
  BY DEF Init, Held
<1>2. TypeOK /\ TypeOK' /\ LeasedCopies /\ Held /\ [Next]_vars => Held'
  <2> SUFFICES ASSUME TypeOK, TypeOK', LeasedCopies, Held, [Next]_vars PROVE Held'
    OBVIOUS
  <2>t. Operators \subseteq Threads /\ Dispatchers \subseteq Threads BY DEF Threads
  <2>q. queue \in Seq(Jobs) /\ Len(queue) \in Nat BY DEF TypeOK
  \* A step of t that keeps the deque and leaves a submitted id in its hand
  <2>g. ASSUME NEW t \in Threads, NEW place, NEW k, NEW r, Goto(t, place, k, r),
               Submitted \subseteq Submitted', place \in {"idle", "pop"} \/ k \in Submitted',
               \/ queue' = queue
               \/ queue # << >> /\ queue' = Tail(queue)
               \/ pc[t] \notin {"idle", "pop"} /\ queue' = Append(queue, hand[t])
        PROVE  Held'
    <3>1. \A u \in Threads : pc'[u] \notin {"idle", "pop"} => hand'[u] \in Submitted'
      BY <2>g DEF Goto, TypeOK, Held
    <3>2. CASE queue' = queue BY <2>g, <3>1, <3>2 DEF Held
    <3>3. CASE queue # << >> /\ queue' = Tail(queue)
      <4>1. /\ Len(queue') = Len(queue) - 1
            /\ \A i \in 1 .. Len(queue') : queue'[i] = queue[i + 1]
        BY <2>q, <3>3, TailShifts
      <4>2. \A i \in 1 .. Len(queue') : queue'[i] \in Submitted
        BY <2>q, <4>1 DEF Held
      <4> QED BY <2>g, <3>1, <4>2 DEF Held
    <3>4. CASE pc[t] \notin {"idle", "pop"} /\ queue' = Append(queue, hand[t])
      <4>1. hand[t] \in Submitted /\ hand[t] \in Jobs BY <3>4 DEF Held, Submitted
      <4>2. /\ Len(queue') = Len(queue) + 1 /\ queue'[Len(queue) + 1] = hand[t]
            /\ \A i \in 1 .. Len(queue) : queue'[i] = queue[i]
        BY <2>q, <3>4, <4>1, AppendKeeps
      <4>3. \A i \in 1 .. Len(queue') : queue'[i] \in Submitted
        BY <2>q, <4>1, <4>2 DEF Held
      <4> QED BY <2>g, <3>1, <4>3 DEF Held
    <3> QED BY <2>g, <3>2, <3>3, <3>4
  <2>h. \A t \in Threads : pc[t] \notin {"idle", "pop"} => hand[t] \in Submitted BY DEF Held
  <2>1. ASSUME NEW t \in Operators, NEW j \in Jobs, Submit(t, j) PROVE Held'
    <3>1. PICK r : Goto(t, "append", j, r) BY <2>1 DEF Submit
    <3>2. queue' = queue BY <2>1 DEF Submit
    <3>3. Submitted' = Submitted \cup {j} BY <2>1, SubmitSubmits
    <3> QED BY <2>g, <2>t, <3>1, <3>2, <3>3
  <2>2. ASSUME NEW t \in Operators, NEW j \in Jobs,
               NEW call \in {"cancel", "retry", "requeue"}, Get(t, j, call)
        PROVE Held'
    <3>1. Submitted' = Submitted BY <2>2, <2>t, OnlySubmitSubmits
    <3>2. j \in Submitted /\ queue' = queue BY <2>2 DEF Get, Submitted
    <3>3. Goto(t, call, j, jobs[j]) BY <2>2 DEF Get
    <3> QED BY <2>g, <2>t, <3>1, <3>2, <3>3
  <2>3. ASSUME NEW t \in Operators, OperatorStep(t) PROVE Held'
    <3>1. Submitted' = Submitted BY <2>3, <2>t, OnlySubmitSubmits
    <3> QED BY <2>3, <2>g, <2>h, <2>t, <3>1
            DEF OperatorStep, Cancel, Retry, RequeueDeadLetter, WriteQueued, Return
  <2>4. ASSUME NEW t \in Threads, PutStep(t) PROVE Held'
    <3>1. Submitted' = Submitted BY <2>4, OnlySubmitSubmits
    <3> QED BY <2>4, <2>g, <2>h, <3>1 DEF PutStep, PutCheck, QueueAppend, Return
  <2>5. ASSUME NEW t \in Dispatchers, DispatchStep(t) PROVE Held'
    <3>s. Submitted' = Submitted BY <2>5, <2>t, OnlySubmitSubmits
    <3>1. CASE DequeueBegin(t)
      BY <2>t, <3>1, <3>s DEF DequeueBegin, Held, TypeOK
    <3>2. CASE DequeueEnd(t) BY <2>g, <2>t, <3>2, <3>s DEF DequeueEnd, Return
    <3>3. CASE DequeuePop(t)
      <4>1. Head(queue) \in Submitted BY <2>q, <3>3, TailShifts DEF DequeuePop, Held
      <4> QED BY <2>g, <2>t, <3>3, <3>s, <4>1 DEF DequeuePop
    <3>4. CASE DequeueLookup(t) BY <2>g, <2>h, <2>t, <3>4, <3>s DEF DequeueLookup
    <3>5. CASE DequeueRotate(t) BY <2>g, <2>t, <3>5, <3>s DEF DequeueRotate
    <3>6. CASE DequeueLease(t) BY <2>g, <2>h, <2>t, <3>6, <3>s DEF DequeueLease
    <3>7. CASE Assign(t) BY <2>g, <2>h, <2>t, <3>7, <3>s DEF Assign
    <3>8. CASE Abandon(t) BY <2>g, <2>t, <3>8, <3>s DEF Abandon, Return
    <3>9. CASE Start(t) BY <2>g, <2>h, <2>t, <3>9, <3>s DEF Start
    <3>10. CASE Complete(t) BY <2>g, <2>h, <2>t, <3>10, <3>s DEF Complete
    <3>11. CASE CompletedEvent(t) BY <2>g, <2>t, <3>11, <3>s DEF CompletedEvent, Return
    <3>12. CASE DeadLetter(t) BY <2>g, <2>t, <3>12, <3>s DEF DeadLetter, Return
    <3>13. CASE FailAndRequeue(t) BY <2>g, <2>h, <2>t, <3>13, <3>s DEF FailAndRequeue, Raised, WriteQueued
    <3> QED BY <2>5, <3>1, <3>2, <3>3, <3>4, <3>5, <3>6, <3>7, <3>8, <3>9, <3>10,
               <3>11, <3>12, <3>13 DEF DispatchStep
  <2>6. CASE UNCHANGED vars BY <2>6 DEF vars, Held, Submitted
  <2> QED BY <2>1, <2>2, <2>3, <2>4, <2>5, <2>6 DEF Next
<1> QED BY <1>1, <1>2, TypeCorrect, CopiesLeased, PTL DEF Spec

-----------------------------------------------------------------------------
CarryPlaces == {"append", "recheck", "lookup", "rotate", "lease"}

RunPlaces == {"assign", "enforce", "handle", "completed"}

\* Only t moves, by the step of a dispatcher or at the places of an operator.
MovesOnly(t) ==
    /\ \A u \in Threads : u # t => pc'[u] = pc[u] /\ hand'[u] = hand[u]
    /\ t \in Dispatchers \/ (pc[t] \notin RunPlaces /\ pc'[t] \notin RunPlaces)

\* Entries that change by n for one job and stay for the others
LEMMA PlusIs ==
    ASSUME NEW f, NEW g, DOMAIN f = Jobs, DOMAIN g = Jobs, f = [j \in Jobs |-> f[j]],
           g = [j \in Jobs |-> g[j]], NEW k \in Jobs, NEW n,
           g[k] = f[k] + n, \A j \in Jobs : j # k => g[j] = f[j]
    PROVE  g = Pool!Plus(f, k, n)
  BY DEF Pool!Plus

\* A step that keeps the deque changes the counts of the job t had or has.
LEMMA MoveCounts ==
    ASSUME TypeOK, TypeOK', NEW t \in Threads, MovesOnly(t), queue' = queue, NEW k \in Jobs,
           pc[t] \in CarryPlaces \cup RunPlaces => hand[t] = k,
           pc'[t] \in CarryPlaces \cup RunPlaces => hand'[t] = k
    PROVE  LET n == Ind(pc'[t] \in CarryPlaces) - Ind(pc[t] \in CarryPlaces)
               m == Ind(pc'[t] \in RunPlaces) - Ind(pc[t] \in RunPlaces)
           IN  /\ Tickets' = Pool!Plus(Tickets, k, n) /\ Tickets[k] + n >= 0
               /\ Running' = Pool!Plus(Running, k, m) /\ Running[k] + m >= 0
               /\ n = 0 => Tickets' = Tickets
               /\ m = 0 => Running' = Running
<1> DEFINE n == Ind(pc'[t] \in CarryPlaces) - Ind(pc[t] \in CarryPlaces)
           m == Ind(pc'[t] \in RunPlaces) - Ind(pc[t] \in RunPlaces)
<1>1. /\ \A j \in Jobs : Carries(t, j) <=> hand[t] = j /\ pc[t] \in CarryPlaces
      /\ \A j \in Jobs : Carries(t, j)' <=> hand'[t] = j /\ pc'[t] \in CarryPlaces
      /\ \A j \in Jobs : Runs(t, j) <=> hand[t] = j /\ pc[t] \in RunPlaces
      /\ \A j \in Jobs : Runs(t, j)' <=> hand'[t] = j /\ pc'[t] \in RunPlaces
  BY DEF Carries, Runs, CarryPlaces, RunPlaces
<1>2. ASSUME NEW j \in Jobs
      PROVE  /\ Tickets'[j] = Tickets[j] + Ind(Carries(t, j)') - Ind(Carries(t, j))
             /\ Running'[j] = Running[j] + Ind(t \in Dispatchers /\ Runs(t, j)')
                                - Ind(t \in Dispatchers /\ Runs(t, j))
             /\ Tickets[j] \in Nat /\ Tickets'[j] \in Nat /\ Running[j] \in Nat /\ Running'[j] \in Nat
  <2>1. Ind(Carries(t, j)') \in Int /\ Ind(Carries(t, j)) \in Int BY DEF Ind
  <2> QED BY <2>1, CountStep DEF MovesOnly
<1>3. Tickets'[k] = Tickets[k] + n /\ Running'[k] = Running[k] + m
  BY <1>1, <1>2 DEF Ind, MovesOnly
<1>4. \A j \in Jobs : j # k => Tickets'[j] = Tickets[j] /\ Running'[j] = Running[j]
  BY <1>1, <1>2 DEF Ind
<1>5. n \in Int /\ m \in Int BY DEF Ind
<1> HIDE DEF n, m
<1>6. /\ DOMAIN Tickets = Jobs /\ Tickets = [j \in Jobs |-> Tickets[j]]
      /\ DOMAIN Running = Jobs /\ Running = [j \in Jobs |-> Running[j]]
      /\ DOMAIN Tickets' = Jobs /\ Tickets' = [j \in Jobs |-> Tickets'[j]]
      /\ DOMAIN Running' = Jobs /\ Running' = [j \in Jobs |-> Running'[j]]
  BY DEF Tickets, Running
<1>7. Tickets' = Pool!Plus(Tickets, k, n) /\ Running' = Pool!Plus(Running, k, m)
  BY <1>3, <1>4, <1>6, PlusIs
<1>8. Tickets[k] + n >= 0 /\ Running[k] + m >= 0 BY <1>2, <1>3, <1>5
<1>9. n = 0 => Tickets' = Tickets
  <2> SUFFICES ASSUME n = 0 PROVE Tickets' = Tickets OBVIOUS
  <2>1. \A j \in Jobs : Tickets'[j] = Tickets[j] BY <1>2, <1>3, <1>4
  <2> QED BY <1>6, <2>1
<1>10. m = 0 => Running' = Running
  <2> SUFFICES ASSUME m = 0 PROVE Running' = Running OBVIOUS
  <2>1. \A j \in Jobs : Running'[j] = Running[j] BY <1>2, <1>3, <1>4
  <2> QED BY <1>6, <2>1
<1> QED BY <1>7, <1>8, <1>9, <1>10 DEF n, m

\* An id that goes from the hand of t to the back of the deque, or from its
\* front to the hand of t, is still one ticket.
LEMMA PassedOn ==
    ASSUME TypeOK, TypeOK', NEW t \in Threads, MovesOnly(t),
           pc[t] \notin RunPlaces, pc'[t] \notin RunPlaces,
           \/ /\ pc[t] \in CarryPlaces /\ pc'[t] \notin CarryPlaces
              /\ hand[t] \in Jobs /\ queue' = Append(queue, hand[t])
           \/ /\ pc[t] \notin CarryPlaces /\ pc'[t] \in CarryPlaces
              /\ queue # << >> /\ hand'[t] = Head(queue) /\ queue' = Tail(queue)
    PROVE  Tickets' = Tickets /\ Running' = Running
<1>1. /\ \A j \in Jobs : Carries(t, j) <=> hand[t] = j /\ pc[t] \in CarryPlaces
      /\ \A j \in Jobs : Carries(t, j)' <=> hand'[t] = j /\ pc'[t] \in CarryPlaces
      /\ \A j \in Jobs : ~Runs(t, j) /\ ~Runs(t, j)'
  BY DEF Carries, Runs, CarryPlaces, RunPlaces
<1>2. ASSUME NEW j \in Jobs PROVE Tickets'[j] = Tickets[j] /\ Running'[j] = Running[j]
  <2>1. /\ Tickets'[j] = Tickets[j] + Occurs(queue', j) - Occurs(queue, j)
                           + Ind(Carries(t, j)') - Ind(Carries(t, j))
        /\ Running'[j] = Running[j] + Ind(t \in Dispatchers /\ Runs(t, j)')
                           - Ind(t \in Dispatchers /\ Runs(t, j))
        /\ Tickets[j] \in Nat /\ Running[j] \in Nat
        /\ Occurs(queue, j) \in Nat /\ Occurs(queue', j) \in Nat
    BY CountStep DEF MovesOnly
  <2>2. Running'[j] = Running[j] BY <1>1, <2>1 DEF Ind
  <2>3. queue \in Seq(Jobs) BY DEF TypeOK
  <2>4. CASE pc[t] \in CarryPlaces
    <3>1. /\ pc'[t] \notin CarryPlaces /\ hand[t] \in Jobs /\ queue' = Append(queue, hand[t])
      BY <2>4
    <3>2. Occurs(queue', j) = Occurs(queue, j) + Ind(hand[t] = j) BY <2>3, <3>1, OccursAppend
    <3>3. Ind(Carries(t, j)') = 0 /\ Ind(Carries(t, j)) = Ind(hand[t] = j) BY <1>1, <2>4, <3>1 DEF Ind
    <3>4. Ind(hand[t] = j) \in Int BY DEF Ind
    <3> QED BY <2>1, <2>2, <3>2, <3>3, <3>4
  <2>5. CASE pc[t] \notin CarryPlaces
    <3>1. /\ pc'[t] \in CarryPlaces /\ queue # << >> /\ hand'[t] = Head(queue) /\ queue' = Tail(queue)
      BY <2>5
    <3>2. Occurs(queue', j) = Occurs(queue, j) - Ind(Head(queue) = j) BY <2>3, <3>1, OccursTail
    <3>3. Ind(Carries(t, j)) = 0 /\ Ind(Carries(t, j)') = Ind(Head(queue) = j)
      BY <1>1, <2>5, <3>1 DEF Ind
    <3>4. Ind(Head(queue) = j) \in Int BY DEF Ind
    <3> QED BY <2>1, <2>2, <3>2, <3>3, <3>4
  <2> QED BY <2>4, <2>5
<1>3. /\ Tickets = [j \in Jobs |-> Tickets[j]] /\ Tickets' = [j \in Jobs |-> Tickets'[j]]
      /\ Running = [j \in Jobs |-> Running[j]] /\ Running' = [j \in Jobs |-> Running'[j]]
  BY DEF Tickets, Running
<1> QED BY <1>2, <1>3

\* Every step of the runtime is a step of the pool or leaves the pool as it is.
LEMMA PoolStep ==
    ASSUME TypeOK, TypeOK', LeasedCopies, Held, AttemptsInv, [Next]_vars
    PROVE  [Pool!PoolNext]_(Pool!poolVars)
<1>t. Operators \subseteq Threads /\ Dispatchers \subseteq Threads
      /\ \A t \in Operators : t \notin Dispatchers
  BY CloudAssumption DEF Threads
<1>g. ASSUME NEW t \in Threads, NEW place, NEW k, NEW r, Goto(t, place, k, r)
      PROVE  /\ \A u \in Threads : u # t => pc'[u] = pc[u] /\ hand'[u] = hand[u]
             /\ pc'[t] = place /\ hand'[t] = k
  BY <1>g DEF Goto, TypeOK
<1>h. \A t \in Threads : pc[t] \notin {"idle", "pop"} => hand[t] \in Jobs /\ hand[t] \in Submitted
  BY DEF Held, Submitted
<1>p. /\ {"append", "recheck", "lookup", "rotate", "lease"} = CarryPlaces
      /\ {"assign", "enforce", "handle", "completed"} = RunPlaces
  BY DEF CarryPlaces, RunPlaces
\* The pool is left as it is.
<1>s. ASSUME Submitted' = Submitted, Tickets' = Tickets, Running' = Running,
             UNCHANGED <<leases, dead, touched>>
      PROVE  [Pool!PoolNext]_(Pool!poolVars)
  BY <1>s DEF Pool!poolVars
\* A step of t from a place where it has no ticket and no lease to such a place
<1>m. ASSUME NEW t \in Threads, MovesOnly(t), UNCHANGED <<queue, leases, dead, touched>>,
             Submitted' = Submitted, NEW k \in Jobs,
             pc[t] \in CarryPlaces \cup RunPlaces => hand[t] = k,
             pc'[t] \in CarryPlaces \cup RunPlaces => hand'[t] = k,
             pc'[t] \in CarryPlaces <=> pc[t] \in CarryPlaces,
             pc'[t] \in RunPlaces <=> pc[t] \in RunPlaces
      PROVE  [Pool!PoolNext]_(Pool!poolVars)
  <2>1. Ind(pc'[t] \in CarryPlaces) - Ind(pc[t] \in CarryPlaces) = 0
    BY <1>m DEF Ind
  <2>2. Ind(pc'[t] \in RunPlaces) - Ind(pc[t] \in RunPlaces) = 0
    BY <1>m DEF Ind
  <2>3. Tickets' = Tickets /\ Running' = Running BY <1>m, <2>1, <2>2, MoveCounts
  <2> QED BY <1>m, <1>s, <2>3
\* What leaves or takes up a ticket or a lease of k
<1>k. ASSUME NEW t \in Threads, MovesOnly(t), queue' = queue, NEW k \in Jobs,
             pc[t] \in CarryPlaces \cup RunPlaces => hand[t] = k,
             pc'[t] \in CarryPlaces \cup RunPlaces => hand'[t] = k
      PROVE  /\ pc[t] \notin CarryPlaces /\ pc'[t] \in CarryPlaces => Tickets' = Pool!Plus(Tickets, k, 1)
             /\ pc[t] \in CarryPlaces /\ pc'[t] \notin CarryPlaces
                  => Tickets' = Pool!Plus(Tickets, k, -1) /\ Tickets[k] > 0
             /\ pc[t] \notin CarryPlaces /\ pc'[t] \notin CarryPlaces => Tickets' = Tickets
             /\ pc[t] \notin RunPlaces /\ pc'[t] \in RunPlaces => Running' = Pool!Plus(Running, k, 1)
             /\ pc[t] \in RunPlaces /\ pc'[t] \notin RunPlaces
                  => Running' = Pool!Plus(Running, k, -1) /\ Running[k] > 0
             /\ pc[t] \notin RunPlaces /\ pc'[t] \notin RunPlaces => Running' = Running
  <2>1. LET n == Ind(pc'[t] \in CarryPlaces) - Ind(pc[t] \in CarryPlaces)
            m == Ind(pc'[t] \in RunPlaces) - Ind(pc[t] \in RunPlaces)
        IN  /\ Tickets' = Pool!Plus(Tickets, k, n) /\ Tickets[k] + n >= 0
            /\ Running' = Pool!Plus(Running, k, m) /\ Running[k] + m >= 0
            /\ n = 0 => Tickets' = Tickets
            /\ m = 0 => Running' = Running
    BY <1>k, MoveCounts
  <2>2. Tickets[k] \in Nat /\ Running[k] \in Nat BY CountsTyped
  <2> QED BY <2>1, <2>2 DEF Ind
<1>1. ASSUME NEW t \in Operators, NEW j \in Jobs, Submit(t, j)
      PROVE [Pool!PoolNext]_(Pool!poolVars)
  <2>1. PICK r : Goto(t, "append", j, r) BY <1>1 DEF Submit
  <2>2. pc[t] = "idle" /\ pc'[t] = "append" /\ hand'[t] = j /\ MovesOnly(t)
    BY <1>1, <1>g, <1>t, <2>1 DEF Submit, MovesOnly, RunPlaces
  <2>3. Tickets' = Pool!Plus(Tickets, j, 1) /\ Running' = Running
    BY <1>1, <1>k, <1>t, <2>2 DEF Submit, CarryPlaces, RunPlaces
  <2>4. j \notin Submitted /\ Submitted' = Submitted \cup {j} BY <1>1, SubmitSubmits
  <2>5. Pool!PoolSubmit(j) BY <1>1, <2>3, <2>4 DEF Submit, Pool!PoolSubmit
  <2> QED BY <2>5 DEF Pool!PoolNext
<1>2. ASSUME NEW t \in Operators, NEW j \in Jobs, NEW call \in {"cancel", "retry", "requeue"},
             Get(t, j, call)
      PROVE [Pool!PoolNext]_(Pool!poolVars)
  <2>1. pc[t] = "idle" /\ pc'[t] = call /\ MovesOnly(t)
    BY <1>2, <1>g, <1>t DEF Get, MovesOnly, RunPlaces
  <2>2. Submitted' = Submitted BY <1>2, <1>t, OnlySubmitSubmits
  <2> QED BY <1>2, <1>m, <1>t, <2>1, <2>2 DEF Get, CarryPlaces, RunPlaces
<1>3. ASSUME NEW t \in Operators, OperatorStep(t) PROVE [Pool!PoolNext]_(Pool!poolVars)
  <2>s. Submitted' = Submitted BY <1>3, <1>t, OnlySubmitSubmits
  <2>1. CASE Cancel(t)
    <3>1. pc[t] = "cancel" /\ pc'[t] = "idle" /\ MovesOnly(t) /\ hand[t] \in Jobs
      BY <1>g, <1>h, <1>t, <2>1 DEF Cancel, Return, MovesOnly, RunPlaces
    <3> QED BY <1>m, <1>t, <2>1, <2>s, <3>1 DEF Cancel, CarryPlaces, RunPlaces
  <2>2. CASE Retry(t) \/ RequeueDeadLetter(t)
    <3>1. /\ pc[t] \in {"retry", "requeue"} /\ pc'[t] \in {"recheck", "append"} /\ hand'[t] = hand[t]
          /\ MovesOnly(t) /\ hand[t] \in Jobs /\ hand[t] \in Submitted
      BY <1>g, <1>h, <1>t, <2>2 DEF Retry, RequeueDeadLetter, WriteQueued, MovesOnly, RunPlaces
    <3>2. touched' = touched \cup {hand[t]} /\ UNCHANGED <<queue, leases, dead>>
      BY <2>2 DEF Retry, RequeueDeadLetter, WriteQueued
    <3>3. Tickets' = Pool!Plus(Tickets, hand[t], 1) /\ Running' = Running
      BY <1>k, <1>t, <3>1, <3>2 DEF CarryPlaces, RunPlaces
    <3>4. Pool!PoolRevive(hand[t]) BY <2>s, <3>1, <3>2, <3>3 DEF Pool!PoolRevive
    <3> QED BY <3>1, <3>4 DEF Pool!PoolNext
  <2> QED BY <1>3, <2>1, <2>2 DEF OperatorStep
\* A carrier that drops its id
<1>d. ASSUME NEW t \in Threads, MovesOnly(t), UNCHANGED <<queue, leases, dead, touched>>,
             Submitted' = Submitted, hand[t] \in Jobs, pc[t] \in CarryPlaces,
             pc'[t] \in {"idle", "pop"}
      PROVE  [Pool!PoolNext]_(Pool!poolVars)
  <2>1. Tickets' = Pool!Plus(Tickets, hand[t], -1) /\ Tickets[hand[t]] > 0 /\ Running' = Running
    BY <1>d, <1>k DEF CarryPlaces, RunPlaces
  <2>2. Pool!PoolDrop(hand[t]) BY <1>d, <2>1 DEF Pool!PoolDrop
  <2> QED BY <1>d, <2>2 DEF Pool!PoolNext
<1>4. ASSUME NEW t \in Threads, PutStep(t) PROVE [Pool!PoolNext]_(Pool!poolVars)
  <2>s. Submitted' = Submitted BY <1>4, OnlySubmitSubmits
  <2>1. CASE PutCheck(t) /\ InQueue(hand[t])
    <3>1. /\ pc[t] = "recheck" /\ pc'[t] = "idle" /\ hand[t] \in Jobs /\ MovesOnly(t)
      BY <1>g, <1>h, <2>1 DEF PutCheck, Return, MovesOnly, RunPlaces
    <3> QED BY <1>d, <2>1, <2>s, <3>1 DEF PutCheck, CarryPlaces
  <2>2. CASE PutCheck(t) /\ ~InQueue(hand[t])
    <3>1. /\ pc[t] = "recheck" /\ pc'[t] = "append" /\ hand'[t] = hand[t] /\ hand[t] \in Jobs
          /\ MovesOnly(t)
      BY <1>g, <1>h, <2>2 DEF PutCheck, MovesOnly, RunPlaces
    <3> QED BY <1>m, <2>2, <2>s, <3>1 DEF PutCheck, CarryPlaces, RunPlaces
  <2>3. CASE QueueAppend(t)
    <3>1. /\ pc[t] = "append" /\ pc'[t] = "idle" /\ hand[t] \in Jobs /\ MovesOnly(t)
          /\ queue' = Append(queue, hand[t])
      BY <1>g, <1>h, <2>3 DEF QueueAppend, Return, MovesOnly, RunPlaces
    <3>2. Tickets' = Tickets /\ Running' = Running BY <3>1, PassedOn DEF CarryPlaces, RunPlaces
    <3> QED BY <1>s, <2>3, <2>s, <3>2 DEF QueueAppend
  <2> QED BY <1>4, <2>1, <2>2, <2>3 DEF PutStep
<1>5. ASSUME NEW t \in Dispatchers, DispatchStep(t) PROVE [Pool!PoolNext]_(Pool!poolVars)
  <2>s. Submitted' = Submitted BY <1>5, <1>t, OnlySubmitSubmits
  <2>t. t \in Threads BY <1>t
  <2>g. ASSUME NEW place, NEW k, NEW r, Goto(t, place, k, r)
        PROVE  MovesOnly(t) /\ pc'[t] = place /\ hand'[t] = k
    BY <1>g, <2>g, <2>t DEF MovesOnly
  <2>h. pc[t] \notin {"idle", "pop"} => hand[t] \in Jobs BY <1>h, <2>t
  \* A holder of a lease that stops working on the job
  <2>e. ASSUME Return(t), UNCHANGED <<queue, leases, touched>>, pc[t] \in RunPlaces
        PROVE  /\ hand[t] \in Jobs /\ Tickets' = Tickets
               /\ Running' = Pool!Plus(Running, hand[t], -1) /\ Running[hand[t]] > 0
    <3>1. MovesOnly(t) /\ pc'[t] = "idle" BY <2>e, <2>g DEF Return
    <3>2. hand[t] \in Jobs BY <2>e, <2>h DEF RunPlaces
    <3> QED BY <1>k, <2>e, <2>t, <3>1, <3>2 DEF CarryPlaces, RunPlaces
  \* A step between calls and the head of the loop of dequeue
  <2>n. ASSUME MovesOnly(t), pc[t] \in {"idle", "pop"}, pc'[t] \in {"idle", "pop"},
               UNCHANGED <<queue, leases, dead, touched>>
        PROVE  [Pool!PoolNext]_(Pool!poolVars)
    <3>1. CASE Jobs = {}
      <4>1. Tickets' = Tickets /\ Running' = Running BY <3>1 DEF Tickets, Running
      <4> QED BY <1>s, <2>n, <2>s, <4>1
    <3>2. CASE Jobs # {}
      <4>1. PICK k \in Jobs : TRUE BY <3>2
      <4> QED BY <1>m, <2>n, <2>s, <2>t, <4>1 DEF CarryPlaces, RunPlaces
    <3> QED BY <3>1, <3>2
  <2>1. CASE DequeueBegin(t)
    <3>1. pc[t] = "idle" /\ pc'[t] = "pop" /\ MovesOnly(t)
      BY <2>1, <2>t DEF DequeueBegin, TypeOK, MovesOnly
    <3> QED BY <2>1, <2>n, <3>1 DEF DequeueBegin
  <2>2. CASE DequeueEnd(t) BY <2>2, <2>g, <2>n DEF DequeueEnd, Return
  <2>3. CASE DequeuePop(t)
    <3>1. /\ MovesOnly(t) /\ pc[t] = "pop" /\ pc'[t] = "lookup" /\ queue # << >>
          /\ hand'[t] = Head(queue) /\ queue' = Tail(queue)
      BY <2>3, <2>g DEF DequeuePop
    <3>2. Tickets' = Tickets /\ Running' = Running
      BY <2>t, <3>1, PassedOn DEF CarryPlaces, RunPlaces
    <3> QED BY <1>s, <2>3, <2>s, <3>2 DEF DequeuePop
  <2>4. CASE DequeueLookup(t)
    <3>1. /\ MovesOnly(t) /\ pc[t] = "lookup" /\ hand[t] \in Jobs
          /\ UNCHANGED <<queue, leases, dead, touched>>
          /\ pc'[t] = "pop" \/ (pc'[t] \in {"rotate", "lease"} /\ hand'[t] = hand[t])
      BY <2>4, <2>g, <2>h DEF DequeueLookup
    <3>2. CASE pc'[t] = "pop" BY <1>d, <2>s, <2>t, <3>1, <3>2 DEF CarryPlaces
    <3>3. CASE pc'[t] \in {"rotate", "lease"} /\ hand'[t] = hand[t]
      BY <1>m, <2>s, <2>t, <3>1, <3>3 DEF CarryPlaces, RunPlaces
    <3> QED BY <3>1, <3>2, <3>3
  <2>5. CASE DequeueRotate(t)
    <3>1. /\ MovesOnly(t) /\ pc[t] = "rotate" /\ pc'[t] = "pop" /\ hand[t] \in Jobs
          /\ queue' = Append(queue, hand[t])
      BY <2>5, <2>g, <2>h DEF DequeueRotate
    <3>2. Tickets' = Tickets /\ Running' = Running
      BY <2>t, <3>1, PassedOn DEF CarryPlaces, RunPlaces
    <3> QED BY <1>s, <2>5, <2>s, <3>2 DEF DequeueRotate
  <2>6. CASE DequeueLease(t)
    <3>1. /\ MovesOnly(t) /\ pc[t] = "lease" /\ pc'[t] = "assign" /\ hand[t] \in Jobs
          /\ hand'[t] = hand[t] /\ UNCHANGED <<queue, dead, touched>>
      BY <2>6, <2>g, <2>h DEF DequeueLease
    <3>2. /\ Tickets' = Pool!Plus(Tickets, hand[t], -1) /\ Tickets[hand[t]] > 0
          /\ Running' = Pool!Plus(Running, hand[t], 1)
      BY <1>k, <2>t, <3>1 DEF CarryPlaces, RunPlaces
    <3>3. leases' = Pool!Plus(leases, hand[t], 1) BY <2>6 DEF DequeueLease, Pool!Plus
    <3>4. Pool!PoolLease(hand[t]) BY <2>s, <3>1, <3>2, <3>3 DEF Pool!PoolLease
    <3> QED BY <3>1, <3>4 DEF Pool!PoolNext
  <2>7. CASE Assign(t) \/ Start(t) \/ Complete(t)
    <3>1. /\ MovesOnly(t) /\ pc[t] \in {"assign", "enforce", "handle"}
          /\ pc'[t] \in {"enforce", "handle", "completed"}
          /\ hand[t] \in Jobs /\ hand'[t] = hand[t] /\ UNCHANGED <<queue, leases, dead, touched>>
      BY <2>7, <2>g, <2>h DEF Assign, Start, Complete
    <3> QED BY <1>m, <2>s, <2>t, <3>1 DEF CarryPlaces, RunPlaces
  <2>8. CASE Abandon(t) \/ CompletedEvent(t)
    <3>1. /\ hand[t] \in Jobs /\ Tickets' = Tickets
          /\ Running' = Pool!Plus(Running, hand[t], -1) /\ Running[hand[t]] > 0
      BY <2>8, <2>e DEF Abandon, CompletedEvent, RunPlaces
    <3>2. Pool!PoolEnd(hand[t]) BY <2>8, <2>s, <3>1 DEF Abandon, CompletedEvent, Pool!PoolEnd
    <3> QED BY <3>1, <3>2 DEF Pool!PoolNext
  <2>9. CASE DeadLetter(t)
    <3>1. /\ hand[t] \in Jobs /\ Tickets' = Tickets
          /\ Running' = Pool!Plus(Running, hand[t], -1) /\ Running[hand[t]] > 0
      BY <2>9, <2>e DEF DeadLetter, Raised, RunPlaces
    <3>2. leases[hand[t]] >= MaxAttempts[hand[t]]
      <4>1. copy[t].attempts <= leases[hand[t]]
        BY <2>t, <3>1 DEF AttemptsInv, AttemptsNeverOvercount
      <4>2. copy[t].attempts \in Nat BY <2>t DEF TypeOK, RuntimeJob
      <4>3. leases[hand[t]] \in Nat /\ MaxAttempts[hand[t]] \in Int
        BY <3>1, CloudAssumption DEF TypeOK
      <4>4. copy[t].attempts >= MaxAttempts[hand[t]] BY <2>9 DEF DeadLetter
      <4> QED BY <4>1, <4>2, <4>3, <4>4
    <3>3. Pool!PoolBury(hand[t]) BY <2>9, <2>s, <3>1, <3>2 DEF DeadLetter, Pool!PoolBury
    <3> QED BY <3>1, <3>3 DEF Pool!PoolNext
  <2>10. CASE FailAndRequeue(t)
    <3>1. /\ MovesOnly(t) /\ pc[t] \in {"handle", "completed"} /\ pc'[t] = "recheck"
          /\ hand[t] \in Jobs /\ hand'[t] = hand[t] /\ UNCHANGED <<queue, leases, dead, touched>>
      BY <2>10, <2>g, <2>h DEF FailAndRequeue, Raised, WriteQueued
    <3>2. /\ Tickets' = Pool!Plus(Tickets, hand[t], 1)
          /\ Running' = Pool!Plus(Running, hand[t], -1) /\ Running[hand[t]] > 0
      BY <1>k, <2>t, <3>1 DEF CarryPlaces, RunPlaces
    <3>3. Pool!PoolFail(hand[t]) BY <2>s, <3>1, <3>2 DEF Pool!PoolFail
    <3> QED BY <3>1, <3>3 DEF Pool!PoolNext
  <2> QED BY <1>5, <2>1, <2>2, <2>3, <2>4, <2>5, <2>6, <2>7, <2>8, <2>9, <2>10 DEF DispatchStep
<1>6. CASE UNCHANGED vars
  <2>1. Submitted' = Submitted BY <1>6 DEF vars, Submitted
  <2>2. Tickets' = Tickets BY <1>6 DEF vars, Tickets, Carriers, Carries, Occurs
  <2>3. Running' = Running BY <1>6 DEF vars, Running, Runners, Runs
  <2> QED BY <1>6, <1>s, <2>1, <2>2, <2>3 DEF vars
<1> QED BY <1>1, <1>2, <1>3, <1>4, <1>5, <1>6 DEF Next

\* The empty queue is the empty pool.
LEMMA PoolStart == Init => Pool!PoolInit
<1> SUFFICES ASSUME Init PROVE Pool!PoolInit
  OBVIOUS
<1>1. Submitted = {} BY DEF Init, Submitted, Absent
<1>2. ASSUME NEW j \in Jobs PROVE Tickets[j] = 0 /\ Running[j] = 0
  <2>1. Carriers(j) = {} BY DEF Init, Carriers, Carries
  <2>2. Runners(j) = {} BY DEF Init, Runners, Runs, Threads
  <2>3. {i \in 1 .. Len(queue) : queue[i] = j} = {} BY DEF Init
  <2>4. Occurs(queue, j) = 0 BY <2>3, FS_EmptySet DEF Occurs
  <2>5. Cardinality(Carriers(j)) = 0 /\ Cardinality(Runners(j)) = 0 BY <2>1, <2>2, FS_EmptySet
  <2> QED BY <2>4, <2>5 DEF Tickets, Running
<1>3. Tickets = [j \in Jobs |-> 0] /\ Running = [j \in Jobs |-> 0]
  BY <1>2 DEF Tickets, Running
<1> QED BY <1>1, <1>3 DEF Init, Pool!PoolInit

\* Whatever dispatchers and operators do to the records of _jobs, dequeue, put,
\* enqueue and dispatch_one keep the promise of JobPool: for every set of jobs
\* and every finite set of threads each step of the runtime is one step of the
\* pool or none.
THEOREM RuntimeImplementsPool == Spec => ImplementsJobPool
<1>1. TypeOK /\ TypeOK' /\ LeasedCopies /\ Held /\ AttemptsInv /\ [Next]_vars
        => [Pool!PoolNext]_(Pool!poolVars)
  BY PoolStep
<1> QED BY <1>1, PoolStart, TypeCorrect, CopiesLeased, HeldStays, AttemptsCovered, PTL
        DEF Spec, ImplementsJobPool, Pool!PoolSpec

-----------------------------------------------------------------------------
\* Two dispatchers at work on one job hold two of its tickets and leases.
LEMMA TwoWorkersTwoPlaces ==
    ASSUME TypeOK, NEW t \in Dispatchers, NEW u \in Dispatchers, t # u, Working(t), Working(u),
           hand[t] = hand[u]
    PROVE  hand[t] \in Jobs /\ Tickets[hand[t]] + Running[hand[t]] >= 2
<1> DEFINE j == hand[t]
           S == Carriers(j) \cup Runners(j)
<1>1. j \in Jobs BY DEF TypeOK, Working, Threads
<1>2. t \in S /\ u \in S BY DEF Working, Carriers, Carries, Runners, Runs, Threads
<1>3. Carriers(j) \cap Runners(j) = {} BY DEF Carriers, Carries, Runners, Runs
<1>4. /\ IsFiniteSet(Carriers(j)) /\ IsFiniteSet(Runners(j))
      /\ Cardinality(Carriers(j)) \in Nat /\ Cardinality(Runners(j)) \in Nat
  BY <1>1, CountsTyped, FS_CardinalityType
<1>5. Cardinality(S) = Cardinality(Carriers(j)) + Cardinality(Runners(j))
  BY <1>3, <1>4, FS_Union, FS_EmptySet
<1>6. IsFiniteSet(S) BY <1>4, FS_Union
<1>7. Cardinality({t, u}) = 2
  <2>1. IsFiniteSet({t}) /\ Cardinality({t}) = 1 BY FS_Singleton
  <2>2. {t, u} = {t} \cup {u} /\ u \notin {t} OBVIOUS
  <2> QED BY <2>1, <2>2, FS_AddElement
<1>8. Cardinality({t, u}) <= Cardinality(S)
  <2>1. {t, u} \in SUBSET S BY <1>2
  <2> HIDE DEF S
  <2> QED BY <1>6, <2>1, FS_Subset
<1>9. Occurs(queue, j) \in Nat
  <2>1. queue \in Seq(Jobs) BY DEF TypeOK
  <2> QED BY <2>1, OccursFinite
<1>10. Tickets[j] = Occurs(queue, j) + Cardinality(Carriers(j)) /\ Running[j] = Cardinality(Runners(j))
  BY <1>1 DEF Tickets, Running
<1> HIDE DEF S
<1> QED BY <1>1, <1>4, <1>5, <1>7, <1>8, <1>9, <1>10

\* Two dispatchers work on one job at a time only if an operator retried or
\* requeued that job: a consequence of the promise of JobPool, in which a job
\* that was only submitted waits once or runs once.
THEOREM LeasesExclusive == Spec => []LeaseExclusiveUnlessTouched
<1>1. Pool!PoolSpec => []Pool!InOnePlace BY Pool!OnePlaceUnlessRevived
<1>2. TypeOK /\ Pool!InOnePlace => LeaseExclusiveUnlessTouched
  <2> SUFFICES ASSUME TypeOK, Pool!InOnePlace, NEW t \in Dispatchers, NEW u \in Dispatchers,
                      t # u, Working(t), Working(u), hand[t] = hand[u], hand[t] \notin touched
               PROVE  FALSE
    BY DEF LeaseExclusiveUnlessTouched
  <2>1. hand[t] \in Jobs /\ Tickets[hand[t]] + Running[hand[t]] >= 2 BY TwoWorkersTwoPlaces
  <2>2. Tickets[hand[t]] \in Nat /\ Running[hand[t]] \in Nat BY <2>1, CountsTyped
  <2>3. Tickets[hand[t]] + Running[hand[t]] <= 1 BY <2>1, <2>2 DEF Pool!InOnePlace
  <2> QED BY <2>1, <2>2, <2>3
<1> QED BY <1>1, <1>2, TypeCorrect, RuntimeImplementsPool, PTL DEF ImplementsJobPool
=============================================================================
