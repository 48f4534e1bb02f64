--------------------------- MODULE DurableMemory ---------------------------
(***************************************************************************)
(* The memory of agents: DurableMemoryStore of src/agentfabric/memory and  *)
(* its routes.  The store keeps a dict of records, an index of their ids   *)
(* and the rows of runtime_memory, and changes them one after the other    *)
(* without a lock.  A list writes every record it found back to the rows.  *)
(***************************************************************************)
EXTENDS Requests, FiniteSets

CONSTANTS
    MemoryIds,   \* memory_id: uuid4, so an id is created once; numbers give their order
    Owners,      \* pairs of a tenant and an agent
    OwnerOf,
    LegalHold,   \* ids of records whose classification is legal_hold
    Expired      \* ids of records whose time to live is over

VARIABLES
    memories,    \* DurableMemoryStore.records
    index,       \* MemoryIndex.by_tenant_agent
    memoryRows,  \* the collection runtime_memory
    created,     \* ids that were given out
    memoryLog,   \* memory.recorded and memory.deleted events
    erased,      \* history: ids whose delete returned True
    memoryPast   \* history: ids whose requests overlapped, or whose row could not be written

memoryState == <<memories, index, memoryRows, created, memoryLog, erased, memoryPast>>

memoryVars == <<requestVars, memoryState>>

MemoryInit ==
    /\ memories = {} /\ memoryRows = {} /\ created = {}
    /\ index = [o \in Owners |-> {}]
    /\ memoryLog = {} /\ erased = {} /\ memoryPast = {}

\* Other threads that will write the row of m
Creating(t, m) == \E u \in Others(t) : call[u].op = "memory create" /\ call[u].id = m
Listing(t, m) == \E u \in Others(t) : call[u].op = "memory list" /\ m \in call[u].copy

Lowest(ids) == CHOOSE m \in ids : \A n \in ids : m <= n

AddIndex(m) == index' = [index EXCEPT ![OwnerOf[m]] = @ \cup {m}]

-----------------------------------------------------------------------------
(* memory_create: put adds to the dict, to the index and to the rows. *)
MemoryCreate(t, m) ==
    /\ m \notin created
    /\ Begin(t, [Idle EXCEPT !.op = "memory create", !.at = "index", !.id = m])
    /\ created' = created \cup {m}
    /\ memories' = memories \cup {m}
    /\ UNCHANGED <<index, memoryRows, memoryLog, erased, memoryPast>>

MemoryAdd(t) ==
    /\ At(t, "index")
    /\ AddIndex(call[t].id)
    /\ Step(t, "store")
    /\ UNCHANGED <<memories, memoryRows, created, memoryLog, erased, memoryPast>>

\* The row is written, or the write raises and the record stays in memory only.
MemoryStore(t) ==
    /\ At(t, "store")
    /\ \/ /\ memoryRows' = memoryRows \cup {call[t].id}
          /\ Step(t, "recorded")
          /\ UNCHANGED memoryPast
       \/ /\ Done(t)
          /\ memoryPast' = memoryPast \cup {call[t].id}
          /\ UNCHANGED memoryRows
    /\ UNCHANGED <<memories, index, created, memoryLog, erased>>

MemoryEvent(t) ==
    /\ call[t].at \in {"recorded", "deleted"}
    /\ memoryLog' = memoryLog \cup {<<call[t].at, call[t].id>>}
    /\ Done(t)
    /\ UNCHANGED <<memories, index, memoryRows, created, erased, memoryPast>>

(* memory_list: ids from the index, records from the dict, rows written back. *)
MemoryList(t, o) ==
    /\ index[o] # {}
    /\ Begin(t, [Idle EXCEPT !.op = "memory list", !.at = "fetch", !.copy = index[o]])
    /\ UNCHANGED memoryState

\* self.records[memory_id] raises for an id that was deleted in between.  An id
\* never comes back, so looking all of them up at once decides the same.
MemoryFetch(t) ==
    /\ At(t, "fetch")
    /\ IF call[t].copy \subseteq memories THEN Step(t, "touch") ELSE Done(t)
    /\ UNCHANGED memoryState

\* record.touch() and the put of its row, in the order of the ids
MemoryTouch(t) ==
    /\ At(t, "touch")
    /\ LET m == Lowest(call[t].copy)
           rest == call[t].copy \ {m}
       IN  \/ /\ memoryRows' = memoryRows \cup {m}
              /\ IF rest = {} THEN Done(t) ELSE Goto(t, [call[t] EXCEPT !.copy = rest])
           \/ Done(t) /\ UNCHANGED memoryRows
    /\ UNCHANGED <<memories, index, created, memoryLog, erased, memoryPast>>

-----------------------------------------------------------------------------
\* Mutant of Deletable: legal_hold is not looked at.
DeletableHeld(m, o) == m \in memories /\ OwnerOf[m] = o

(* delete, called by memory_delete and by enforce_retention: the record must be
   there, of that owner and not under legal hold. *)
Deletable(m, o) == m \in memories /\ OwnerOf[m] = o /\ m \notin LegalHold

DeleteNow(t, r, m) ==
    /\ call' = [call EXCEPT ![t] = [r EXCEPT !.at = "unindex", !.id = m]]
    /\ memoryPast' = memoryPast \cup {n \in {m} : Creating(t, n)}
    /\ UNCHANGED <<memories, index, memoryRows, created, memoryLog, erased>>

MemoryDelete(t, m, o) ==
    /\ At(t, "idle") /\ left > 0 /\ left' = left - 1
    /\ Deletable(m, o)
    /\ DeleteNow(t, [Idle EXCEPT !.op = "memory delete"], m)

MemoryUnindex(t) ==
    /\ At(t, "unindex")
    /\ index' = [index EXCEPT ![OwnerOf[call[t].id]] = @ \ {call[t].id}]
    /\ Step(t, "forget")
    /\ UNCHANGED <<memories, memoryRows, created, memoryLog, erased, memoryPast>>

\* del self.records[memory_id] raises if another delete was first.
MemoryForget(t) ==
    /\ At(t, "forget")
    /\ IF call[t].id \in memories
       THEN memories' = memories \ {call[t].id} /\ Step(t, "erase")
       ELSE Done(t) /\ UNCHANGED memories
    /\ UNCHANGED <<index, memoryRows, created, memoryLog, erased, memoryPast>>

\* What follows a delete: the event of the route, or the next expired record.
AfterErase(t, existed) ==
    IF call[t].op = "memory retention"
    THEN IF call[t].copy = {} THEN Done(t) ELSE Step(t, "next")
    ELSE IF existed THEN Step(t, "deleted") ELSE Done(t)

\* persistence.delete says whether there was a row; it may also raise.
MemoryErase(t) ==
    /\ At(t, "erase")
    /\ LET m == call[t].id
       IN  \/ /\ memoryRows' = memoryRows \ {m}
              /\ erased' = IF m \in memoryRows THEN erased \cup {m} ELSE erased
              /\ memoryPast' = memoryPast \cup {n \in {m} : Listing(t, n)}
              /\ AfterErase(t, m \in memoryRows)
           \/ /\ Done(t)
              /\ memoryPast' = memoryPast \cup {m}
              /\ UNCHANGED <<memoryRows, erased>>
    /\ UNCHANGED <<memories, index, created, memoryLog>>

(* enforce_retention, which no route calls, walks over a copy of the records in
   the order of the dict, which their uuids do not tell. *)
EnforceRetention(t) ==
    /\ memories \cap (Expired \ LegalHold) # {}
    /\ Begin(t, [Idle EXCEPT !.op = "memory retention", !.at = "next",
                             !.copy = memories \cap (Expired \ LegalHold)])
    /\ UNCHANGED memoryState

RetentionNext(t) ==
    /\ At(t, "next")
    /\ UNCHANGED left
    /\ \E m \in call[t].copy :
          LET rest == [call[t] EXCEPT !.copy = @ \ {m}]
          IN  IF Deletable(m, OwnerOf[m])
              THEN DeleteNow(t, rest, m)
              ELSE /\ call' = [call EXCEPT ![t] = IF rest.copy = {} THEN Idle ELSE rest]
                   /\ UNCHANGED memoryState

-----------------------------------------------------------------------------
\* The process stops and starts again: the constructor reads the rows.
MemoryRestart ==
    /\ left > 0 /\ left' = left - 1
    /\ call' = [t \in Threads |-> Idle]
    /\ memories' = memoryRows
    /\ index' = [o \in Owners |-> {m \in memoryRows : OwnerOf[m] = o}]
    /\ UNCHANGED <<memoryRows, created, memoryLog, erased, memoryPast>>

MemoryNext ==
    \/ MemoryRestart
    \/ \E t \in Threads :
          \/ \E m \in MemoryIds : \/ MemoryCreate(t, m)
                                  \/ \E o \in Owners : MemoryDelete(t, m, o)
          \/ \E o \in Owners : MemoryList(t, o)
          \/ EnforceRetention(t) \/ RetentionNext(t)
          \/ MemoryAdd(t) \/ MemoryStore(t) \/ MemoryEvent(t) \/ MemoryFetch(t) \/ MemoryTouch(t)
          \/ MemoryUnindex(t) \/ MemoryForget(t) \/ MemoryErase(t)

MemorySpec == RequestsInit /\ MemoryInit /\ [][MemoryNext]_memoryVars

-----------------------------------------------------------------------------
\* The three places of a memory agree, and what was deleted stays deleted: when
\* no request runs, the dict, the index and the rows hold the same ids; an id
\* whose delete returned True is in none of them, also after a restart.  The
\* exceptions are ids whose create or list was still to write the row when it
\* was deleted, and ids whose row could not be written or removed.  A record
\* under legal hold never leaves the rows once its creation was recorded.
MemoryRecordsAgree ==
    /\ (\A t \in Threads : At(t, "idle")) =>
          \A m \in MemoryIds \ memoryPast :
              /\ m \in memories <=> m \in memoryRows
              /\ m \in memories <=> m \in index[OwnerOf[m]]
    /\ \A m \in erased \ memoryPast : m \notin memoryRows /\ m \notin memories
    /\ \A m \in LegalHold : <<"recorded", m>> \in memoryLog => m \in memoryRows
=============================================================================
