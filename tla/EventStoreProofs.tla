-------------------------- MODULE EventStoreProofs --------------------------
(***************************************************************************)
(* Proofs about EventStore, for any set of writers: type correctness, that *)
(* undisturbed appends keep the chain valid in memory and on disk through  *)
(* restarts, and that whatever is on disk has been seen in memory.         *)
(***************************************************************************)
EXTENDS EventStore, SequenceTheorems, TLAPS

\* Loading keeps exactly the stored events.
LEMMA LoadsElements ==
    ASSUME NEW r \in Seq(Event), NEW s \in Loads(r)
    PROVE  s \in Seq(Event) /\ Len(s) = Len(r) /\ Elements(s) = Elements(r)
<1>1. CASE s = r BY <1>1
<1>2. CASE s \in [1..Len(r) -> Elements(r)] /\ Elements(s) = Elements(r)
  <2>1. Elements(r) \subseteq Event BY DEF Elements
  <2>2. Len(r) \in Nat OBVIOUS
  <2>3. s \in [1..Len(r) -> Event] BY <1>2, <2>1
  <2> QED BY <1>2, <2>2, <2>3
<1> QED BY <1>1, <1>2 DEF Loads

LEMMA AppendElements ==
    ASSUME NEW r \in Seq(Event), NEW e \in Event
    PROVE  Elements(Append(r, e)) = Elements(r) \cup {e}
<1>1. Len(Append(r, e)) = Len(r) + 1 /\ Len(r) \in Nat OBVIOUS
<1>2. \A i \in 1..Len(r) : Append(r, e)[i] = r[i] OBVIOUS
<1>3. Append(r, e)[Len(r) + 1] = e OBVIOUS
<1>4. \A i \in 1..(Len(r) + 1) : i \in 1..Len(r) \/ i = Len(r) + 1 BY <1>1
<1> QED BY <1>1, <1>2, <1>3, <1>4 DEF Elements

\* Every variable keeps its type.
THEOREM EventTypeCorrect == Spec => []TypeOK
<1>1. Init => TypeOK
  <2>1. NoRecord \in Event /\ 0 \in Nat /\ 1 \in Nat BY DEF NoRecord, Event
  <2>2. << >> \in Seq(Event) OBVIOUS
  <2> QED BY <2>1, <2>2 DEF Init, TypeOK
<1>2. TypeOK /\ [Next]_vars => TypeOK'
  <2> SUFFICES ASSUME TypeOK, [Next]_vars PROVE TypeOK'
    OBVIOUS
  <2> USE DEF TypeOK
  <2>1. ASSUME NEW w \in Writers, ReadSequence(w) PROVE TypeOK'
    BY <2>1 DEF ReadSequence
  <2>2. ASSUME NEW w \in Writers, ReadPreviousHash(w) PROVE TypeOK'
    <3>1. CASE events = << >> BY <3>1, <2>2 DEF ReadPreviousHash, LastHash
    <3>2. CASE events # << >>
      <4>1. events[Len(events)] \in Event BY <3>2
      <4>2. LastHash(events) \in Nat BY <3>2, <4>1 DEF LastHash, Event
      <4> QED BY <2>2, <4>2 DEF ReadPreviousHash
    <3> QED BY <3>1, <3>2
  <2>3. ASSUME NEW w \in Writers, AppendEvent(w) PROVE TypeOK'
    <3>1. PICK e \in Event : events' = Append(events, e) /\ held' = [held EXCEPT ![w] = e]
      BY <2>3 DEF AppendEvent, Event
    <3> QED BY <2>3, <3>1 DEF AppendEvent
  <2>4. ASSUME NEW w \in Writers, Persist(w) PROVE TypeOK'
    BY <2>4 DEF Persist
  <2>5. ASSUME NEW w \in Writers, PersistFails(w) PROVE TypeOK'
    BY <2>5 DEF PersistFails
  <2>6. CASE Restart
    <3>1. events' \in Seq(Event) BY <2>6, LoadsElements DEF Restart
    <3> QED BY <2>6, <3>1 DEF Restart
  <2>7. CASE UNCHANGED vars BY <2>7 DEF vars
  <2> QED BY <2>1, <2>2, <2>3, <2>4, <2>5, <2>6, <2>7 DEF Next
<1> QED BY <1>1, <1>2, PTL DEF Spec

-----------------------------------------------------------------------------
\* An event in the hands of a writer that has to store it is in memory.
SeenInv == DurableSeen /\ \A w \in Writers : pc[w] = "put" => held[w] \in Elements(events)

\* Whatever is on disk has been seen in memory.
THEOREM DurableEventsSeen == Spec => []DurableSeen
<1>1. Init => SeenInv
  BY DEF Init, SeenInv, DurableSeen, Elements
<1>2. TypeOK /\ SeenInv /\ [Next]_vars => SeenInv'
  <2> SUFFICES ASSUME TypeOK, SeenInv, [Next]_vars PROVE SeenInv'
    OBVIOUS
  <2>1. ASSUME NEW w \in Writers, ReadSequence(w) PROVE SeenInv'
    BY <2>1 DEF ReadSequence, SeenInv, DurableSeen, TypeOK
  <2>2. ASSUME NEW w \in Writers, ReadPreviousHash(w) PROVE SeenInv'
    BY <2>2 DEF ReadPreviousHash, SeenInv, DurableSeen, TypeOK
  <2>3. ASSUME NEW w \in Writers, AppendEvent(w) PROVE SeenInv'
    <3>1. PICK e \in Event : events' = Append(events, e) /\ held' = [held EXCEPT ![w] = e]
      BY <2>3 DEF AppendEvent, Event, TypeOK
    <3>2. Elements(events') = Elements(events) \cup {e} BY <3>1, AppendElements DEF TypeOK
    <3> QED BY <2>3, <3>1, <3>2 DEF AppendEvent, SeenInv, DurableSeen, TypeOK
  <2>4. ASSUME NEW w \in Writers, Persist(w) PROVE SeenInv'
    <3>1. Elements(rows') = Elements(rows) \cup {held[w]} BY <2>4, AppendElements DEF Persist, TypeOK
    <3> QED BY <2>4, <3>1 DEF Persist, SeenInv, DurableSeen, TypeOK
  <2>5. ASSUME NEW w \in Writers, PersistFails(w) PROVE SeenInv'
    BY <2>5 DEF PersistFails, SeenInv, DurableSeen, TypeOK
  <2>6. CASE Restart
    <3>1. Elements(events') = Elements(rows) BY <2>6, LoadsElements DEF Restart, TypeOK
    <3> QED BY <2>6, <3>1 DEF Restart, SeenInv, DurableSeen
  <2>7. CASE UNCHANGED vars BY <2>7 DEF vars, SeenInv, DurableSeen
  <2> QED BY <2>1, <2>2, <2>3, <2>4, <2>5, <2>6, <2>7 DEF Next
<1> QED BY <1>1, <1>2, EventTypeCorrect, PTL DEF Spec, SeenInv

-----------------------------------------------------------------------------
\* s is a valid chain in list order.
Chained(s) ==
    \A i \in 1..Len(s) : /\ s[i].sequence = i
                         /\ s[i].previous_hash = IF i = 1 THEN NoEvent ELSE s[i - 1].id

\* While undisturbed one writer at a time is inside append, what it has read is
\* current, and the disk holds all events but the one that writer has to store.
ChainInv ==
    ~disturbed =>
        /\ Chained(events)
        /\ \A u, w \in Writers : pc[u] # "idle" /\ pc[w] # "idle" => u = w
        /\ \A w \in Writers :
              /\ pc[w] \in {"previous", "append"} => seq[w] = Len(events) + 1
              /\ pc[w] = "append" => prev[w] = LastHash(events)
              /\ pc[w] = "put" => events = Append(rows, held[w])
        /\ (\A w \in Writers : pc[w] # "put") => rows = events

\* A chained list passes validate_integrity.
LEMMA ChainedValid ==
    ASSUME NEW s \in Seq(Event), Chained(s)
    PROVE  validate_integrity(Elements(s))
<1>1. \A e \in Elements(s) : \E i \in 1..Len(s) : e = s[i] /\ e.sequence = i
  BY DEF Elements, Chained
<1>2. ASSUME NEW e \in Elements(s), NEW f \in Elements(s), e.sequence = f.sequence
      PROVE  e = f
  BY <1>1, <1>2
<1>3. ASSUME NEW e \in Elements(s)
      PROVE  \/ e.sequence = 1 /\ e.previous_hash = NoEvent
             \/ \E f \in Elements(s) : f.sequence = e.sequence - 1 /\ e.previous_hash = f.id
  <2>1. PICK i \in 1..Len(s) : e = s[i] BY DEF Elements
  <2>2. CASE i = 1 BY <2>1, <2>2 DEF Chained
  <2>3. CASE i # 1
    <3>1. i - 1 \in 1..Len(s) /\ s[i - 1] \in Elements(s) BY <2>3 DEF Elements
    <3>2. s[i - 1].sequence = e.sequence - 1 /\ e.previous_hash = s[i - 1].id
      BY <2>1, <2>3, <3>1 DEF Chained
    <3> QED BY <3>1, <3>2
  <2> QED BY <2>2, <2>3
<1> QED BY <1>2, <1>3 DEF validate_integrity

\* The next event in line extends a chain.
LEMMA ChainedAppend ==
    ASSUME NEW s \in Seq(Event), Chained(s), NEW e \in Event,
           e.sequence = Len(s) + 1, e.previous_hash = LastHash(s)
    PROVE  Chained(Append(s, e))
<1> DEFINE t == Append(s, e)
<1>1. Len(t) = Len(s) + 1 /\ Len(s) \in Nat /\ t[Len(s) + 1] = e OBVIOUS
<1>2. \A i \in 1..Len(s) : t[i] = s[i] OBVIOUS
<1>3. (s = << >>) <=> (Len(s) = 0) OBVIOUS
<1> HIDE DEF t
<1>4. ASSUME NEW i \in 1..Len(t)
      PROVE  t[i].sequence = i /\ t[i].previous_hash = IF i = 1 THEN NoEvent ELSE t[i - 1].id
  <2>1. CASE i \in 1..Len(s) BY <1>1, <1>2, <2>1 DEF Chained
  <2>2. CASE i = Len(s) + 1
    <3>1. Len(s) # 0 => t[i - 1] = s[Len(s)] BY <1>1, <1>2, <2>2
    <3> QED BY <1>1, <1>3, <2>2, <3>1 DEF LastHash
  <2> QED BY <1>1, <2>1, <2>2
<1>5. Chained(t) BY <1>4 DEF Chained
<1> QED BY <1>5 DEF t

\* What precedes the last event of a chain is a chain.
LEMMA ChainedPrefix ==
    ASSUME NEW s \in Seq(Event), NEW e \in Event, Chained(Append(s, e))
    PROVE  Chained(s)
<1>1. Len(Append(s, e)) = Len(s) + 1 /\ Len(s) \in Nat OBVIOUS
<1>2. \A i \in 1..Len(s) : Append(s, e)[i] = s[i] OBVIOUS
<1> QED BY <1>1, <1>2 DEF Chained

\* A chain is loaded in its own order.
LEMMA ChainedLoads ==
    ASSUME NEW s \in Seq(Event), Chained(s)
    PROVE  Loads(s) = {s}
  BY DEF Loads, Chained

\* The rows are a chain: all of the events, or all but the last.
LEMMA RowsChained ==
    ASSUME TypeOK, ChainInv, ~disturbed
    PROVE  Chained(rows)
<1>1. CASE \E w \in Writers : pc[w] = "put"
  <2>1. PICK w \in Writers : pc[w] = "put" BY <1>1
  <2>2. events = Append(rows, held[w]) /\ Chained(events) BY <2>1 DEF ChainInv
  <2>3. rows \in Seq(Event) /\ held[w] \in Event BY DEF TypeOK
  <2> QED BY <2>2, <2>3, ChainedPrefix
<1>2. CASE \A w \in Writers : pc[w] # "put" BY <1>2 DEF ChainInv
<1> QED BY <1>1, <1>2

\* Undisturbed appends keep the chain valid in memory and on disk.
THEOREM UndisturbedChain == Spec => []ChainIntact
<1>1. Init => ChainInv
  BY DEF Init, ChainInv, Chained
<1>2. TypeOK /\ ChainInv /\ [Next]_vars => ChainInv'
  <2> SUFFICES ASSUME TypeOK, ChainInv, [Next]_vars, ~disturbed' PROVE ChainInv'
    BY DEF ChainInv
  <2>r. ~disturbed
    BY DEF Next, vars, ReadSequence, ReadPreviousHash, AppendEvent, Persist, PersistFails, Restart, TypeOK
  <2>1. ASSUME NEW w \in Writers, ReadSequence(w) PROVE ChainInv'
    <3>1. \A u \in Writers : pc[u] = "idle" BY <2>1 DEF ReadSequence, TypeOK
    <3>2. rows = events BY <2>r, <3>1 DEF ChainInv
    <3> QED BY <2>1, <2>r, <3>1, <3>2 DEF ReadSequence, ChainInv, TypeOK
  <2>2. ASSUME NEW w \in Writers, ReadPreviousHash(w) PROVE ChainInv'
    <3>1. \A u \in Writers : u # w => pc[u] = "idle" BY <2>2, <2>r DEF ReadPreviousHash, ChainInv
    <3> QED BY <2>2, <2>r, <3>1 DEF ReadPreviousHash, ChainInv, TypeOK
  <2>3. ASSUME NEW w \in Writers, AppendEvent(w) PROVE ChainInv'
    <3>1. \A u \in Writers : u # w => pc[u] = "idle" BY <2>3, <2>r DEF AppendEvent, ChainInv
    <3> DEFINE e == [id |-> nextId, sequence |-> seq[w], previous_hash |-> prev[w]]
    <3>e. e \in Event /\ e.sequence = seq[w] /\ e.previous_hash = prev[w] BY DEF Event, TypeOK
    <3>2. events' = Append(events, e) /\ held' = [held EXCEPT ![w] = e] BY <2>3 DEF AppendEvent
    <3> HIDE DEF e
    <3>3. Chained(events') BY <2>3, <2>r, <3>2, <3>e, ChainedAppend DEF AppendEvent, ChainInv, TypeOK
    <3>4. rows = events BY <2>3, <2>r, <3>1 DEF AppendEvent, ChainInv
    <3>5. pc' = [pc EXCEPT ![w] = "put"] /\ rows' = rows BY <2>3 DEF AppendEvent
    <3>6. held'[w] = e BY <3>2 DEF TypeOK
    <3> QED BY <3>1, <3>2, <3>3, <3>4, <3>5, <3>6 DEF ChainInv, TypeOK
  <2>4. ASSUME NEW w \in Writers, Persist(w) PROVE ChainInv'
    <3>1. \A u \in Writers : u # w => pc[u] = "idle" BY <2>4, <2>r DEF Persist, ChainInv
    <3>2. rows' = events BY <2>4, <2>r DEF Persist, ChainInv
    <3> QED BY <2>4, <2>r, <3>1, <3>2 DEF Persist, ChainInv, TypeOK
  <2>5. ASSUME NEW w \in Writers, PersistFails(w) PROVE ChainInv'
    BY <2>5 DEF PersistFails, ChainInv
  <2>6. CASE Restart
    <3>1. Chained(rows) BY <2>r, RowsChained
    <3>2. events' = rows BY <2>6, <3>1, ChainedLoads DEF Restart, TypeOK
    <3> QED BY <2>6, <3>1, <3>2 DEF Restart, ChainInv
  <2>7. CASE UNCHANGED vars BY <2>7 DEF vars, ChainInv, Chained, LastHash
  <2> QED BY <2>1, <2>2, <2>3, <2>4, <2>5, <2>6, <2>7 DEF Next
<1>3. TypeOK /\ ChainInv => ChainIntact
  <2> SUFFICES ASSUME TypeOK, ChainInv, ~disturbed
               PROVE  /\ validate_integrity(Elements(events))
                      /\ validate_integrity(Elements(rows))
    BY DEF ChainIntact
  <2>1. Chained(rows) BY RowsChained
  <2> QED BY <2>1, ChainedValid DEF ChainInv, TypeOK
<1> QED BY <1>1, <1>2, <1>3, EventTypeCorrect, PTL DEF Spec
=============================================================================
