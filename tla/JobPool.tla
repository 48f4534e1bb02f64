------------------------------- MODULE JobPool -------------------------------
(***************************************************************************)
(* What the job queue promises its clients, without its records, its deque *)
(* and its threads.  A submitted job has one ticket.  A ticket is used for *)
(* one lease, or is lost when the job is no longer wanted; the holder of a *)
(* lease ends it, or fails and gives the ticket back while attempts are    *)
(* left.  Only an operator makes further tickets.                          *)
(***************************************************************************)
EXTENDS Integers, TLAPS

CONSTANTS Jobs, MaxAttempts

VARIABLES
    submitted,  \* jobs that were submitted
    tickets,    \* leases each job may still be given
    running,    \* leases each job has now
    leases,     \* leases each job has had
    buried,     \* dead letters
    revived     \* jobs an operator has made a ticket for

poolVars == <<submitted, tickets, running, leases, buried, revived>>

PoolInit ==
    /\ submitted = {} /\ buried = {} /\ revived = {}
    /\ tickets = [j \in Jobs |-> 0]
    /\ running = [j \in Jobs |-> 0]
    /\ leases = [j \in Jobs |-> 0]

Plus(f, j, n) == [f EXCEPT ![j] = @ + n]

PoolSubmit(j) ==
    /\ j \notin submitted
    /\ submitted' = submitted \cup {j}
    /\ tickets' = Plus(tickets, j, 1)
    /\ UNCHANGED <<running, leases, buried, revived>>

PoolRevive(j) ==
    /\ j \in submitted
    /\ tickets' = Plus(tickets, j, 1)
    /\ revived' = revived \cup {j}
    /\ UNCHANGED <<submitted, running, leases, buried>>

PoolLease(j) ==
    /\ tickets[j] > 0
    /\ tickets' = Plus(tickets, j, -1)
    /\ running' = Plus(running, j, 1)
    /\ leases' = Plus(leases, j, 1)
    /\ UNCHANGED <<submitted, buried, revived>>

\* The job is cancelled, leased or finished, or has another ticket.
PoolDrop(j) ==
    /\ tickets[j] > 0
    /\ tickets' = Plus(tickets, j, -1)
    /\ UNCHANGED <<submitted, running, leases, buried, revived>>

PoolEnd(j) ==
    /\ running[j] > 0
    /\ running' = Plus(running, j, -1)
    /\ UNCHANGED <<submitted, tickets, leases, buried, revived>>

PoolFail(j) ==
    /\ running[j] > 0
    /\ running' = Plus(running, j, -1)
    /\ tickets' = Plus(tickets, j, 1)
    /\ UNCHANGED <<submitted, leases, buried, revived>>

PoolBury(j) ==
    /\ running[j] > 0
    /\ leases[j] >= MaxAttempts[j]
    /\ running' = Plus(running, j, -1)
    /\ buried' = buried \cup {j}
    /\ UNCHANGED <<submitted, tickets, leases, revived>>

PoolNext ==
    \E j \in Jobs :
       \/ PoolSubmit(j) \/ PoolRevive(j) \/ PoolLease(j) \/ PoolDrop(j)
       \/ PoolEnd(j) \/ PoolFail(j) \/ PoolBury(j)

PoolSpec == PoolInit /\ [][PoolNext]_poolVars

-----------------------------------------------------------------------------
PoolTypeOK ==
    /\ submitted \subseteq Jobs /\ buried \subseteq Jobs /\ revived \subseteq Jobs
    /\ tickets \in [Jobs -> Nat]
    /\ running \in [Jobs -> Nat]
    /\ leases \in [Jobs -> Nat]

\* A job no operator touched is in one place: it waits once or runs once.
InOnePlace ==
    \A j \in Jobs \ revived : tickets[j] + running[j] <= IF j \in submitted THEN 1 ELSE 0

\* A dead letter has had all its attempts.
BuriedExhausted == \A j \in buried : leases[j] >= MaxAttempts[j]

-----------------------------------------------------------------------------
(* The promise follows from the steps of the pool, for any jobs and limits. *)

\* Adding to one entry of a function of naturals
LEMMA PlusFacts ==
    ASSUME NEW f \in [Jobs -> Nat], NEW j \in Jobs, NEW n \in Int, f[j] + n \in Nat
    PROVE  /\ Plus(f, j, n) \in [Jobs -> Nat]
           /\ Plus(f, j, n)[j] = f[j] + n
           /\ \A k \in Jobs : k # j => Plus(f, j, n)[k] = f[k]
  BY DEF Plus

PoolInv == PoolTypeOK /\ InOnePlace

LEMMA PoolInitInv == PoolInit => PoolInv
  BY DEF PoolInit, PoolInv, PoolTypeOK, InOnePlace

\* One lemma for all actions: what a step does to the entries of one job
LEMMA PoolStepInv == PoolInv /\ [PoolNext]_poolVars => PoolInv'
<1> SUFFICES ASSUME PoolInv, [PoolNext]_poolVars PROVE PoolInv'
  OBVIOUS
<1>0. /\ tickets \in [Jobs -> Nat] /\ running \in [Jobs -> Nat] /\ leases \in [Jobs -> Nat]
      /\ submitted \subseteq Jobs /\ buried \subseteq Jobs /\ revived \subseteq Jobs
  BY DEF PoolInv, PoolTypeOK
<1>i. \A k \in Jobs \ revived : tickets[k] + running[k] <= IF k \in submitted THEN 1 ELSE 0
  BY DEF PoolInv, InOnePlace
<1>1. CASE UNCHANGED poolVars
  BY <1>1 DEF PoolInv, PoolTypeOK, InOnePlace, poolVars
<1>2. ASSUME NEW j \in Jobs, PoolSubmit(j) PROVE PoolInv'
  <2>1. tickets[j] + 1 \in Nat BY <1>0
  <2>2. /\ tickets' \in [Jobs -> Nat] /\ tickets'[j] = tickets[j] + 1
        /\ \A k \in Jobs : k # j => tickets'[k] = tickets[k]
    BY <1>0, <1>2, <2>1, PlusFacts DEF PoolSubmit
  <2>3. PoolTypeOK' BY <1>0, <1>2, <2>2 DEF PoolSubmit, PoolTypeOK
  <2>4. InOnePlace' BY <1>0, <1>i, <1>2, <2>2 DEF PoolSubmit, InOnePlace
  <2> QED BY <2>3, <2>4 DEF PoolInv
<1>3. ASSUME NEW j \in Jobs, PoolRevive(j) PROVE PoolInv'
  <2>1. tickets[j] + 1 \in Nat BY <1>0
  <2>2. /\ tickets' \in [Jobs -> Nat] /\ tickets'[j] = tickets[j] + 1
        /\ \A k \in Jobs : k # j => tickets'[k] = tickets[k]
    BY <1>0, <1>3, <2>1, PlusFacts DEF PoolRevive
  <2>3. PoolTypeOK' BY <1>0, <1>3, <2>2 DEF PoolRevive, PoolTypeOK
  <2>4. InOnePlace' BY <1>0, <1>i, <1>3, <2>2 DEF PoolRevive, InOnePlace
  <2> QED BY <2>3, <2>4 DEF PoolInv
<1>4. ASSUME NEW j \in Jobs, PoolLease(j) PROVE PoolInv'
  <2>1. tickets[j] + (-1) \in Nat /\ running[j] + 1 \in Nat /\ leases[j] + 1 \in Nat
    BY <1>0, <1>4 DEF PoolLease
  <2>2. /\ tickets' \in [Jobs -> Nat] /\ tickets'[j] = tickets[j] + (-1)
        /\ \A k \in Jobs : k # j => tickets'[k] = tickets[k]
    BY <1>0, <1>4, <2>1, PlusFacts DEF PoolLease
  <2>3. /\ running' \in [Jobs -> Nat] /\ running'[j] = running[j] + 1
        /\ \A k \in Jobs : k # j => running'[k] = running[k]
    BY <1>0, <1>4, <2>1, PlusFacts DEF PoolLease
  <2>4. leases' \in [Jobs -> Nat] BY <1>0, <1>4, <2>1, PlusFacts DEF PoolLease
  <2>5. PoolTypeOK' BY <1>0, <1>4, <2>2, <2>3, <2>4 DEF PoolLease, PoolTypeOK
  <2>6. InOnePlace' BY <1>0, <1>i, <1>4, <2>2, <2>3 DEF PoolLease, InOnePlace
  <2> QED BY <2>5, <2>6 DEF PoolInv
<1>5. ASSUME NEW j \in Jobs, PoolDrop(j) PROVE PoolInv'
  <2>1. tickets[j] + (-1) \in Nat BY <1>0, <1>5 DEF PoolDrop
  <2>2. /\ tickets' \in [Jobs -> Nat] /\ tickets'[j] = tickets[j] + (-1)
        /\ \A k \in Jobs : k # j => tickets'[k] = tickets[k]
    BY <1>0, <1>5, <2>1, PlusFacts DEF PoolDrop
  <2>3. PoolTypeOK' BY <1>0, <1>5, <2>2 DEF PoolDrop, PoolTypeOK
  <2>4. InOnePlace' BY <1>0, <1>i, <1>5, <2>2 DEF PoolDrop, InOnePlace
  <2> QED BY <2>3, <2>4 DEF PoolInv
<1>6. ASSUME NEW j \in Jobs, PoolEnd(j) PROVE PoolInv'
  <2>1. running[j] + (-1) \in Nat BY <1>0, <1>6 DEF PoolEnd
  <2>2. /\ running' \in [Jobs -> Nat] /\ running'[j] = running[j] + (-1)
        /\ \A k \in Jobs : k # j => running'[k] = running[k]
    BY <1>0, <1>6, <2>1, PlusFacts DEF PoolEnd
  <2>3. PoolTypeOK' BY <1>0, <1>6, <2>2 DEF PoolEnd, PoolTypeOK
  <2>4. InOnePlace' BY <1>0, <1>i, <1>6, <2>2 DEF PoolEnd, InOnePlace
  <2> QED BY <2>3, <2>4 DEF PoolInv
<1>7. ASSUME NEW j \in Jobs, PoolFail(j) PROVE PoolInv'
  <2>1. running[j] + (-1) \in Nat /\ tickets[j] + 1 \in Nat BY <1>0, <1>7 DEF PoolFail
  <2>2. /\ running' \in [Jobs -> Nat] /\ running'[j] = running[j] + (-1)
        /\ \A k \in Jobs : k # j => running'[k] = running[k]
    BY <1>0, <1>7, <2>1, PlusFacts DEF PoolFail
  <2>3. /\ tickets' \in [Jobs -> Nat] /\ tickets'[j] = tickets[j] + 1
        /\ \A k \in Jobs : k # j => tickets'[k] = tickets[k]
    BY <1>0, <1>7, <2>1, PlusFacts DEF PoolFail
  <2>4. PoolTypeOK' BY <1>0, <1>7, <2>2, <2>3 DEF PoolFail, PoolTypeOK
  <2>5. InOnePlace' BY <1>0, <1>i, <1>7, <2>2, <2>3 DEF PoolFail, InOnePlace
  <2> QED BY <2>4, <2>5 DEF PoolInv
<1>8. ASSUME NEW j \in Jobs, PoolBury(j) PROVE PoolInv'
  <2>1. running[j] + (-1) \in Nat BY <1>0, <1>8 DEF PoolBury
  <2>2. /\ running' \in [Jobs -> Nat] /\ running'[j] = running[j] + (-1)
        /\ \A k \in Jobs : k # j => running'[k] = running[k]
    BY <1>0, <1>8, <2>1, PlusFacts DEF PoolBury
  <2>3. PoolTypeOK' BY <1>0, <1>8, <2>2 DEF PoolBury, PoolTypeOK
  <2>4. InOnePlace' BY <1>0, <1>i, <1>8, <2>2 DEF PoolBury, InOnePlace
  <2> QED BY <2>3, <2>4 DEF PoolInv
<1> QED BY <1>1, <1>2, <1>3, <1>4, <1>5, <1>6, <1>7, <1>8 DEF PoolNext

\* A job that was only submitted waits once or runs once, however often its lease
\* ends in a failure: the promise behind dequeue and the retries of dispatch_one.
THEOREM OnePlaceUnlessRevived == PoolSpec => []InOnePlace
<1>1. PoolInv => InOnePlace BY DEF PoolInv
<1> QED BY <1>1, PoolInitInv, PoolStepInv, PTL DEF PoolSpec
==============================================================================
