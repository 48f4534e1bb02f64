----------------------------- MODULE StateStore -----------------------------
(***************************************************************************)
(* The document store under the services (src/agentfabric/persistence) and *)
(* its schema migrations (src/agentfabric/migrations).  A server process   *)
(* that starts applies the pending migrations, each in a unit of work, and *)
(* serves only afterwards.  Several processes may start on one SQLite file *)
(* at once; each may fail or stop at any point.                            *)
(***************************************************************************)
EXTENDS Integers

CONSTANTS
    Servers,      \* server processes
    Versions,     \* versions of the migrations, numbers
    Collections,  \* names a migration registers
    Registers,    \* version -> the set of Collections its apply puts
    Rows,         \* documents the services put and delete
    MaxStarts,    \* bound: starts of servers
    MaxWrites     \* bound: puts and deletes of rows

\* The migrations can be sorted by version, and each registers collections.
ASSUME StoreAssumption ==
    /\ Versions \subseteq Int
    /\ \A S \in (SUBSET Versions) \ {{}} : \E v \in S : \A w \in S : v <= w
    /\ Registers \in [Versions -> SUBSET Collections]
    /\ \A v \in Versions : Registers[v] # {}

VARIABLES
    storeKind,    \* choose_state_store: "memory" or "sqlite"
    file,         \* committed documents of the SQLite file
    heap,         \* documents of a process's memory store
    txn,          \* uncommitted documents of a process's transaction
    writer,       \* the process that holds SQLite's write lock
    server,       \* what each process is doing
    starts,       \* starts used
    acked,        \* history: rows whose put returned, and no delete began since
    writes        \* puts and deletes of rows made

storeVars == <<storeKind, file, heap, txn, writer, server, starts, acked, writes>>

Down == [at |-> "down", todo |-> {}, version |-> 0, rest |-> {}, saved |-> {}]

Document(kind, name) == <<kind, name>>

StoreInit ==
    /\ storeKind \in {"memory", "sqlite"}
    /\ file = {} /\ writer = "none"
    /\ heap = [s \in Servers |-> {}]
    /\ txn = [s \in Servers |-> {}]
    /\ server = [s \in Servers |-> Down]
    /\ starts = 0 /\ acked = {} /\ writes = 0

\* What get, list and keys of process s see: its own transaction included.
Visible(s) == IF storeKind = "memory" THEN heap[s] ELSE file \cup txn[s]

Applied(s) == {v \in Versions : Document("version", v) \in Visible(s)}

ServerAt(s, place) == server[s].at = place

Proceed(s, r) == server' = [server EXCEPT ![s] = r]

First(versions) == CHOOSE v \in versions : \A w \in versions : v <= w

\* Mutant of PutInUnit: the put uses a connection of its own and commits at once.
PutAlone(s, d) ==
    /\ UNCHANGED <<txn, writer>>
    /\ IF storeKind = "memory"
       THEN heap' = [heap EXCEPT ![s] = @ \cup {d}] /\ UNCHANGED file
       ELSE writer = "none" /\ file' = file \cup {d} /\ UNCHANGED heap

\* put inside a unit of work: the memory store changes at once; SQLite's first
\* statement of the transaction takes the write lock, and waits for it.
PutInUnit(s, d) ==
    /\ UNCHANGED file
    /\ IF storeKind = "memory"
       THEN heap' = [heap EXCEPT ![s] = @ \cup {d}] /\ UNCHANGED <<txn, writer>>
       ELSE /\ writer \in {"none", s}
            /\ writer' = s
            /\ txn' = [txn EXCEPT ![s] = @ \cup {d}]
            /\ UNCHANGED heap

-----------------------------------------------------------------------------
(* MigrationRunner.apply in create_app *)
\* The store is built (a memory store is empty) and initialized, and the pending
\* migrations are read once, before the first unit of work.
StartServer(s) ==
    /\ ServerAt(s, "down") /\ starts < MaxStarts
    /\ starts' = starts + 1
    /\ heap' = [heap EXCEPT ![s] = {}]
    /\ Proceed(s, [Down EXCEPT !.at = "migrate",
                               !.todo = {v \in Versions :
                                            storeKind = "memory" \/ Document("version", v) \notin file}])
    /\ UNCHANGED <<storeKind, file, txn, writer, acked, writes>>

\* UnitOfWork.__enter__ copies the memory store or begins a transaction, which
\* takes no lock yet; with no migration left the process serves.
EnterUnit(s) ==
    /\ ServerAt(s, "migrate")
    /\ LET r == server[s]
           v == First(r.todo)
       IN  Proceed(s, IF r.todo = {} THEN [Down EXCEPT !.at = "up"]
                      ELSE [at |-> "apply", todo |-> r.todo \ {v}, version |-> v,
                            rest |-> Registers[v], saved |-> heap[s]])
    /\ UNCHANGED <<storeKind, file, heap, txn, writer, starts, acked, writes>>

ApplyMigration(s) ==
    /\ ServerAt(s, "apply")
    /\ \E c \in server[s].rest :
          /\ PutInUnit(s, Document("collection", c))
          /\ LET rest == server[s].rest \ {c}
             IN  Proceed(s, [server[s] EXCEPT !.rest = rest,
                                              !.at = IF rest = {} THEN "validate" ELSE "apply"])
    /\ UNCHANGED <<storeKind, starts, acked, writes>>

\* The documents a migration must have put are all visible, else it raises (FailUnit).
ValidateMigration(s) ==
    /\ ServerAt(s, "validate")
    /\ \A c \in Registers[server[s].version] : Document("collection", c) \in Visible(s)
    /\ Proceed(s, [server[s] EXCEPT !.at = "mark"])
    /\ UNCHANGED <<storeKind, file, heap, txn, writer, starts, acked, writes>>

MarkApplied(s) ==
    /\ ServerAt(s, "mark")
    /\ PutInUnit(s, Document("version", server[s].version))
    /\ Proceed(s, [server[s] EXCEPT !.at = "exit"])
    /\ UNCHANGED <<storeKind, starts, acked, writes>>

ReleaseLock(s) ==
    /\ txn' = [txn EXCEPT ![s] = {}]
    /\ writer' = IF writer = s THEN "none" ELSE writer

\* UnitOfWork.__exit__ without an exception commits.
ExitUnit(s) ==
    /\ ServerAt(s, "exit")
    /\ file' = file \cup txn[s]
    /\ ReleaseLock(s)
    /\ Proceed(s, [Down EXCEPT !.at = "migrate", !.todo = server[s].todo])
    /\ UNCHANGED <<storeKind, heap, starts, acked, writes>>

\* An exception in the unit (a full disk, SQLite's lock timeout, a failed
\* validation): the memory store gets its copy back, SQLite rolls back, and
\* create_app raises, so the process ends.
FailUnit(s) ==
    /\ server[s].at \in {"apply", "validate", "mark", "exit"}
    /\ heap' = [heap EXCEPT ![s] = server[s].saved]
    /\ ReleaseLock(s)
    /\ Proceed(s, Down)
    /\ UNCHANGED <<storeKind, file, starts, acked, writes>>

\* The process is killed: its memory is gone, and SQLite rolls its transaction back.
CrashServer(s) ==
    /\ ~ServerAt(s, "down")
    /\ heap' = [heap EXCEPT ![s] = {}]
    /\ acked' = IF storeKind = "memory" THEN {a \in acked : a[1] # s} ELSE acked
    /\ ReleaseLock(s)
    /\ Proceed(s, Down)
    /\ UNCHANGED <<storeKind, file, starts, writes>>

-----------------------------------------------------------------------------
(* put and delete of a service, outside of any unit of work *)
\* With SQLite a connection of its own waits for the lock, writes and commits.
Write(s, docs) ==
    /\ ServerAt(s, "up") /\ writes < MaxWrites
    /\ writes' = writes + 1
    /\ IF storeKind = "memory"
       THEN heap' = [heap EXCEPT ![s] = docs] /\ UNCHANGED file
       ELSE writer = "none" /\ file' = docs /\ UNCHANGED heap
    /\ UNCHANGED <<storeKind, txn, writer, server, starts>>

PutRow(s, r) ==
    /\ Write(s, Visible(s) \cup {Document("row", r)})
    /\ acked' = acked \cup {<<s, r>>}

DeleteRow(s, r) ==
    /\ Document("row", r) \in Visible(s)
    /\ Write(s, Visible(s) \ {Document("row", r)})
    /\ acked' = {a \in acked : a[2] # r \/ (storeKind = "memory" /\ a[1] # s)}

StoreNext ==
    \E s \in Servers :
       \/ StartServer(s) \/ EnterUnit(s) \/ ApplyMigration(s) \/ ValidateMigration(s)
       \/ MarkApplied(s) \/ ExitUnit(s) \/ FailUnit(s) \/ CrashServer(s)
       \/ \E r \in Rows : PutRow(s, r) \/ DeleteRow(s, r)

StoreSpec == StoreInit /\ [][StoreNext]_storeVars

-----------------------------------------------------------------------------
\* The documents of whole migrations: a version is there with all of its
\* collections and after all earlier versions, and no collection is there that
\* no version there registers.
Whole(docs) ==
    /\ \A v \in Versions :
          Document("version", v) \in docs =>
              /\ \A c \in Registers[v] : Document("collection", c) \in docs
              /\ \A w \in Versions : w < v => Document("version", w) \in docs
    /\ \A c \in Collections :
          Document("collection", c) \in docs =>
              \E v \in Versions : c \in Registers[v] /\ Document("version", v) \in docs

\* Migrations are atomic, in order and before service ("fail-closed"), however
\* many processes start on the file and wherever they fail or stop: the file
\* always holds whole migrations, and so does a memory store outside a unit of
\* work; a process that serves sees every version; and a row whose put returned
\* is there until it is deleted, so the roll back of a process that starts
\* never takes a row of another one with it.
MigrationsAtomic ==
    /\ Whole(file)
    /\ \A s \in Servers : server[s].at \in {"down", "migrate", "up"} => Whole(heap[s])
    /\ \A s \in Servers : ServerAt(s, "up") => Applied(s) = Versions
    /\ \A a \in acked : Document("row", a[2]) \in Visible(a[1])
=============================================================================
