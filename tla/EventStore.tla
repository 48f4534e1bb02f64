----------------------------- MODULE EventStore -----------------------------
(***************************************************************************)
(* The hash-chained event store of src/agentfabric/events/event_store.py,  *)
(* shared by every service of the API server.  append reads the length and *)
(* the last hash, builds the event, appends it in memory and then stores   *)
(* it; nothing locks these steps.  A restart loads the stored events.      *)
(*                                                                         *)
(* The hash of an event covers its uuid and the hash before it, so hashes  *)
(* are told apart exactly as uuids are: prev names the predecessor.        *)
(***************************************************************************)
EXTENDS Integers, Sequences, FiniteSets

CONSTANTS
    Writers,     \* threads that append events
    NoEvent,     \* the previous_hash "" of the first event
    MaxEvents    \* bound: events created in a run

ASSUME EventAssumption == NoEvent \notin Nat /\ MaxEvents \in Nat

VARIABLES
    events,     \* EventStore._events
    rows,       \* collection "events", in the order of the puts
    pc, seq, prev, held,   \* where a writer is in append, and its local variables
    nextId,     \* uuid4: the next fresh id
    disturbed   \* history: appends overlapped, or a put failed

vars == <<events, rows, pc, seq, prev, held, nextId, disturbed>>

Event == [id : Nat, sequence : Nat, previous_hash : Nat \cup {NoEvent}]

NoRecord == [id |-> 0, sequence |-> 0, previous_hash |-> NoEvent]

Elements(s) == {s[i] : i \in 1..Len(s)}

LastHash(s) == IF s = << >> THEN NoEvent ELSE s[Len(s)].id

Init ==
    /\ events = << >>
    /\ rows = << >>
    /\ pc = [w \in Writers |-> "idle"]
    /\ seq = [w \in Writers |-> 0]
    /\ prev = [w \in Writers |-> NoEvent]
    /\ held = [w \in Writers |-> NoRecord]
    /\ nextId = 1
    /\ disturbed = FALSE

\* sequence = len(self._events) + 1
ReadSequence(w) ==
    /\ pc[w] = "idle"
    /\ nextId <= MaxEvents
    /\ seq' = [seq EXCEPT ![w] = Len(events) + 1]
    /\ pc' = [pc EXCEPT ![w] = "previous"]
    /\ disturbed' = (disturbed \/ \E u \in Writers : pc[u] # "idle")
    /\ UNCHANGED <<events, rows, prev, held, nextId>>

\* Mutant of ReadPreviousHash: every event starts a chain.
ForgetPreviousHash(w) ==
    /\ pc[w] = "previous"
    /\ prev' = [prev EXCEPT ![w] = NoEvent]
    /\ pc' = [pc EXCEPT ![w] = "append"]
    /\ UNCHANGED <<events, rows, seq, held, nextId, disturbed>>

\* previous_hash = self._events[-1].event_hash if self._events else ""
ReadPreviousHash(w) ==
    /\ pc[w] = "previous"
    /\ prev' = [prev EXCEPT ![w] = LastHash(events)]
    /\ pc' = [pc EXCEPT ![w] = "append"]
    /\ UNCHANGED <<events, rows, seq, held, nextId, disturbed>>

\* self._events.append(event)
AppendEvent(w) ==
    /\ pc[w] = "append"
    /\ LET event == [id |-> nextId, sequence |-> seq[w], previous_hash |-> prev[w]]
       IN  /\ events' = Append(events, event)
           /\ held' = [held EXCEPT ![w] = event]
    /\ nextId' = nextId + 1
    /\ pc' = [pc EXCEPT ![w] = "put"]
    /\ UNCHANGED <<rows, seq, prev, disturbed>>

\* self.persistence.put("events", event_id, event)
Persist(w) ==
    /\ pc[w] = "put"
    /\ rows' = Append(rows, held[w])
    /\ pc' = [pc EXCEPT ![w] = "idle"]
    /\ UNCHANGED <<events, seq, prev, held, nextId, disturbed>>

\* The put raises: the caller sees an error and the event stays in memory.
PersistFails(w) ==
    /\ pc[w] = "put"
    /\ pc' = [pc EXCEPT ![w] = "idle"]
    /\ disturbed' = TRUE
    /\ UNCHANGED <<events, rows, seq, prev, held, nextId>>

\* sorted(persistence.list("events"), key=sequence): rows stored in the order of
\* their sequence come back in that order; equal sequences come in any order.
Loads(r) ==
    LET before(a, b) == a.sequence < b.sequence
    IN  IF \A i, j \in 1..Len(r) : i < j => before(r[i], r[j])
        THEN {r}
        ELSE {s \in [1..Len(r) -> Elements(r)] :
                 /\ Elements(s) = Elements(r)
                 /\ \A i, j \in 1..Len(r) : i < j => ~before(s[j], s[i])}

\* Mutant of Restart: the stored events are not loaded.
RestartEmpty ==
    /\ events' = << >>
    /\ pc' = [w \in Writers |-> "idle"]
    /\ UNCHANGED <<rows, seq, prev, held, nextId, disturbed>>

\* The process stops anywhere; EventStore.__init__ loads the stored events.
Restart ==
    /\ events' \in Loads(rows)
    /\ pc' = [w \in Writers |-> "idle"]
    /\ UNCHANGED <<rows, seq, prev, held, nextId, disturbed>>

Next ==
    \/ \E w \in Writers : \/ ReadSequence(w) \/ ReadPreviousHash(w) \/ AppendEvent(w)
                          \/ Persist(w) \/ PersistFails(w)
    \/ Restart

Spec == Init /\ [][Next]_vars

-----------------------------------------------------------------------------
\* validate_integrity: sorted by sequence the events are numbered 1, 2, ... and
\* each names the hash before it; equal numbers fail the count.
validate_integrity(S) ==
    /\ \A e, f \in S : e.sequence = f.sequence => e = f
    /\ \A e \in S : \/ e.sequence = 1 /\ e.previous_hash = NoEvent
                    \/ \E f \in S : f.sequence = e.sequence - 1 /\ e.previous_hash = f.id

\* Sequences are naturals, hashes are those of earlier events or the empty one,
\* and each writer is at a line of append.
TypeOK ==
    /\ events \in Seq(Event)
    /\ rows \in Seq(Event)
    /\ pc \in [Writers -> {"idle", "previous", "append", "put"}]
    /\ seq \in [Writers -> Nat]
    /\ prev \in [Writers -> Nat \cup {NoEvent}]
    /\ held \in [Writers -> Event]
    /\ nextId \in Nat
    /\ disturbed \in BOOLEAN

\* As long as appends do not overlap and no put fails, the chain validates in
\* memory and on disk, wherever the process is stopped and restarted: a crash
\* between the append and the put loses the last event and nothing else.
ChainIntact ==
    ~disturbed => validate_integrity(Elements(events)) /\ validate_integrity(Elements(rows))

\* What is on disk has been seen in memory, through overlaps, failures and
\* restarts: replay in the running process misses no durable event.
DurableSeen == Elements(rows) \subseteq Elements(events)

\* Threat model and tests: the store is hash-chained and validates.
AlwaysValid == validate_integrity(Elements(events))
=============================================================================
