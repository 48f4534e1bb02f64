------------------------------ MODULE MCStorage ------------------------------
(* What the server keeps on disk: the event store, the document store with   *)
(* its migrations, the memory of agents and the records of the software      *)
(* foundry, one of them in a behaviour.                                      *)
EXTENDS EventStore, StateStore, DurableMemory, SoftwareFoundry, TLC

VARIABLE part

\* A first migration of two collections and a second one of one
MCRegisters == (1 :> {"agents", "events"}) @@ (2 :> {"teams"})

MCOwnerOf == (1 :> "a") @@ (2 :> "a") @@ (3 :> "b")

MCOwner == ("iA" :> "A") @@ ("iB" :> "B")

MCNeeds == ("m1" :> {}) @@ ("m2" :> {Generated("m1")})

\* Just enough, and one metric short
MCEvidence ==
    {[x \in Metrics |-> IF x = "test_coverage" THEN 70 ELSE 82],
     [x \in Metrics \ {"test_coverage"} |-> 90]}

\* Requests that may begin in each part; events and store have their own bounds
MCBudget == [events |-> 0, store |-> 0, memory |-> 5, foundry |-> 4]

MCInit ==
    /\ part \in DOMAIN MCBudget
    /\ Init /\ StoreInit /\ MemoryInit /\ FoundryInit
    /\ part # "store" => storeKind = "memory"
    /\ call = [t \in Threads |-> Idle]
    /\ left = MCBudget[part]

EventsPart ==
    /\ part = "events"
    /\ Next
    /\ UNCHANGED <<part, requestVars, storeVars, memoryState, foundryState>>

StorePart ==
    /\ part = "store"
    /\ StoreNext
    /\ UNCHANGED <<part, requestVars, vars, memoryState, foundryState>>

MemoryPart ==
    /\ part = "memory"
    /\ MemoryNext
    /\ UNCHANGED <<part, vars, storeVars, foundryState>>

FoundryPart ==
    /\ part = "foundry"
    /\ FoundryNext
    /\ UNCHANGED <<part, vars, storeVars, memoryState>>

MCNext == EventsPart \/ StorePart \/ MemoryPart \/ FoundryPart

MCSpec == MCInit /\ [][MCNext]_<<part, requestVars, vars, storeVars, memoryState, foundryState>>
=============================================================================
