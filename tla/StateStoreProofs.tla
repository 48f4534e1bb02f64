-------------------------- MODULE StateStoreProofs --------------------------
(***************************************************************************)
(* Proof that migrations are atomic, in order and before service, for any  *)
(* number of processes, migrations, collections and rows.                  *)
(***************************************************************************)
EXTENDS StateStore, TLAPS

Docs ==
    ({"collection"} \X Collections) \cup ({"version"} \X Versions) \cup ({"row"} \X Rows)

ServerState ==
    [at : {"down", "migrate", "apply", "validate", "mark", "exit", "up"},
     todo : SUBSET Versions, version : Versions \cup {0}, rest : SUBSET Collections,
     saved : SUBSET Docs]

StoreTypeOK ==
    /\ storeKind \in {"memory", "sqlite"}
    /\ file \in SUBSET Docs
    /\ heap \in [Servers -> SUBSET Docs]
    /\ txn \in [Servers -> SUBSET Docs]
    /\ server \in [Servers -> ServerState]
    /\ acked \in SUBSET (Servers \X Rows)

InUnit(r) == r.at \in {"apply", "validate", "mark", "exit"}

\* The documents of whole transactions a process builds on
Ground(s) == IF storeKind = "memory" THEN heap[s] ELSE file

\* What the unit of work of r has put
Puts(r) ==
    {Document("collection", c) : c \in Registers[r.version] \ r.rest}
    \cup {d \in {Document("version", r.version)} : r.at = "exit"}

HasVersions(docs, versions) == \A v \in versions : Document("version", v) \in docs

\* A unit of work of r on base holds the next version: every version below it is
\* in base, and its own puts are kept apart from base.
UnitInv(s, r) ==
    LET base == IF storeKind = "memory" THEN r.saved ELSE file
    IN  /\ r.version \in Versions
        /\ r.rest \subseteq Registers[r.version]
        /\ r.at # "apply" => r.rest = {}
        /\ \A w \in r.todo : r.version <= w
        /\ HasVersions(base, Versions \ (r.todo \cup {r.version}))
        /\ Whole(r.saved)
        /\ storeKind = "memory" => heap[s] = r.saved \cup Puts(r)
        /\ storeKind = "sqlite" => txn[s] = Puts(r) /\ r.saved = {}

ServerInv(s) ==
    LET r == server[s]
    IN  /\ storeKind = "memory" => txn[s] = {}
        /\ storeKind = "sqlite" => heap[s] = {}
        /\ ~InUnit(r) => txn[s] = {} /\ Whole(heap[s])
        /\ r.at = "migrate" => HasVersions(Ground(s), Versions \ r.todo)
        /\ r.at = "up" => HasVersions(Ground(s), Versions)
        /\ InUnit(r) => UnitInv(s, r)

AckInv ==
    \A a \in acked :
        /\ Document("row", a[2]) \in Ground(a[1])
        /\ storeKind = "memory" => server[a[1]].at = "up"

StoreInv ==
    /\ StoreTypeOK
    /\ Whole(file)
    /\ \A s \in Servers : ServerInv(s)
    /\ AckInv

-----------------------------------------------------------------------------
\* Documents of different kinds differ.
LEMMA Kinds ==
    /\ \A c, v : Document("collection", c) # Document("version", v)
    /\ \A c, r : Document("collection", c) # Document("row", r)
    /\ \A v, r : Document("version", v) # Document("row", r)
    /\ \A k, x, y : Document(k, x) = Document(k, y) => x = y
  BY DEF Document

LEMMA EmptyIsWhole == Whole({})
  BY DEF Whole

\* A row is no part of a migration.
LEMMA RowsKeepWhole ==
  ASSUME NEW docs, NEW docs2, Whole(docs),
         \A v \in Versions : Document("version", v) \in docs2 <=> Document("version", v) \in docs,
         \A c \in Collections : Document("collection", c) \in docs2 <=> Document("collection", c) \in docs
  PROVE  Whole(docs2)
  BY StoreAssumption DEF Whole

\* The puts of a whole unit on top of a store that has the versions below
\* give a store of whole migrations.
LEMMA UnitMakesWhole ==
  ASSUME NEW docs, Whole(docs), NEW r, r.version \in Versions, r.rest = {}, r.at = "exit",
         \A w \in Versions : w < r.version => Document("version", w) \in docs
  PROVE  Whole(docs \cup Puts(r))
<1> DEFINE v == r.version
           more == docs \cup Puts(r)
<1>1. \A w \in Versions : Document("version", w) \in more <=>
          Document("version", w) \in docs \/ w = v
  BY Kinds DEF Puts
<1>2. \A c \in Collections : Document("collection", c) \in more <=>
          Document("collection", c) \in docs \/ c \in Registers[v]
  BY Kinds DEF Puts
<1>3. Registers[v] \in SUBSET Collections /\ \A w \in Versions : Registers[w] \in SUBSET Collections
  BY StoreAssumption
<1> HIDE DEF more
<1>4. \A w \in Versions : Document("version", w) \in more =>
          \A c \in Registers[w] : Document("collection", c) \in more
  BY <1>1, <1>2, <1>3 DEF Whole
<1>5. \A w \in Versions : Document("version", w) \in more =>
          \A x \in Versions : x < w => Document("version", x) \in more
  BY <1>1 DEF Whole
<1>6. \A c \in Collections : Document("collection", c) \in more =>
          \E w \in Versions : c \in Registers[w] /\ Document("version", w) \in more
  BY <1>1, <1>2 DEF Whole
<1>7. Whole(more) BY <1>4, <1>5, <1>6 DEF Whole
<1> QED BY <1>7 DEF more

-----------------------------------------------------------------------------
\* A process that does not move keeps its part, as versions stay in the file.
LEMMA Unmoved ==
  ASSUME NEW u \in Servers, ServerInv(u), storeKind' = storeKind,
         server'[u] = server[u], heap'[u] = heap[u], txn'[u] = txn[u],
         \A v \in Versions : Document("version", v) \in file => Document("version", v) \in file'
  PROVE  ServerInv(u)'
<1>1. Whole(heap[u])' <=> Whole(heap[u]) BY DEF Whole
<1>2. \A S : S \subseteq Versions /\ HasVersions(Ground(u), S) => HasVersions(Ground(u), S)'
  BY DEF HasVersions, Ground
<1>3. InUnit(server[u]) /\ UnitInv(u, server[u]) => UnitInv(u, server[u])'
  BY DEF UnitInv, HasVersions, Puts, Whole
<1> QED BY <1>1, <1>2, <1>3 DEF ServerInv, InUnit, HasVersions, Ground

\* A step of a process that does not serve keeps the rows that were acknowledged.
LEMMA AckStays ==
  ASSUME StoreInv, NEW s \in Servers, server[s].at # "up",
         acked' = acked, storeKind' = storeKind, file \subseteq file',
         \A u \in Servers \ {s} : server'[u] = server[u] /\ heap'[u] = heap[u]
  PROVE  AckInv'
<1> SUFFICES ASSUME NEW a \in acked
             PROVE  /\ Document("row", a[2]) \in Ground(a[1])'
                    /\ storeKind = "memory" => server'[a[1]].at = "up"
  BY DEF AckInv
<1>1. a[1] \in Servers BY DEF StoreInv, StoreTypeOK
<1>2. /\ Document("row", a[2]) \in Ground(a[1])
      /\ storeKind = "memory" => server[a[1]].at = "up"
  BY DEF StoreInv, AckInv
<1>3. storeKind = "memory" => a[1] # s BY <1>2
<1> QED BY <1>1, <1>2, <1>3 DEF Ground

\* What a step of one process has to show.
LEMMA OneMoves ==
  ASSUME StoreInv, NEW s \in Servers, StoreTypeOK', storeKind' = storeKind,
         \A u \in Servers \ {s} :
             server'[u] = server[u] /\ heap'[u] = heap[u] /\ txn'[u] = txn[u],
         \A v \in Versions : Document("version", v) \in file => Document("version", v) \in file',
         Whole(file'), ServerInv(s)', AckInv'
  PROVE  StoreInv'
<1>1. \A u \in Servers \ {s} : ServerInv(u)' BY Unmoved DEF StoreInv
<1>2. Whole(file)' BY DEF Whole
<1> QED BY <1>1, <1>2 DEF StoreInv

LEMMA StartKeeps == ASSUME StoreInv, NEW s \in Servers, StartServer(s) PROVE StoreInv'
<1> DEFINE r == [Down EXCEPT !.at = "migrate",
                             !.todo = {v \in Versions :
                                         storeKind = "memory" \/ Document("version", v) \notin file}]
<1>0. /\ r.at = "migrate" /\ r.saved = {} /\ r \in ServerState
      /\ r.todo = {v \in Versions : storeKind = "memory" \/ Document("version", v) \notin file}
  BY DEF Down, ServerState
<1>1. /\ server' = [server EXCEPT ![s] = r] /\ heap' = [heap EXCEPT ![s] = {}]
      /\ txn' = txn /\ file' = file /\ storeKind' = storeKind /\ acked' = acked
      /\ server[s].at = "down"
  BY DEF StartServer, Proceed, ServerAt
<1> HIDE DEF r
<1>2. StoreTypeOK' BY <1>0, <1>1 DEF StoreInv, StoreTypeOK
<1>3. server'[s] = r /\ heap'[s] = {} /\ txn'[s] = txn[s] BY <1>1 DEF StoreInv, StoreTypeOK
<1>4. \A u \in Servers \ {s} : server'[u] = server[u] /\ heap'[u] = heap[u] /\ txn'[u] = txn[u]
  BY <1>1 DEF StoreInv, StoreTypeOK
<1>5. txn[s] = {} BY <1>1 DEF StoreInv, ServerInv, InUnit
<1>6. Whole(heap[s])' BY <1>3, EmptyIsWhole DEF Whole
<1>7. HasVersions(Ground(s)', Versions \ r.todo)
  BY <1>0, <1>1 DEF HasVersions, Ground, StoreInv, StoreTypeOK
<1>8. ServerInv(s)'
  BY <1>0, <1>3, <1>5, <1>6, <1>7 DEF ServerInv, InUnit, HasVersions, Ground
<1>9. AckInv' BY <1>1, <1>4, AckStays
<1>10. Whole(file') BY <1>1 DEF StoreInv
<1> QED BY <1>1, <1>2, <1>4, <1>8, <1>9, <1>10, OneMoves

\* The least version of a set that is not empty
LEMMA FirstIsLeast ==
  ASSUME NEW S \in SUBSET Versions, S # {}
  PROVE  First(S) \in S /\ \A w \in S : First(S) <= w
  BY StoreAssumption DEF First

LEMMA EnterKeeps == ASSUME StoreInv, NEW s \in Servers, EnterUnit(s) PROVE StoreInv'
<1> DEFINE q == server[s]
           v == First(q.todo)
           r == IF q.todo = {} THEN [Down EXCEPT !.at = "up"]
                ELSE [at |-> "apply", todo |-> q.todo \ {v}, version |-> v,
                      rest |-> Registers[v], saved |-> heap[s]]
<1>1. /\ server' = [server EXCEPT ![s] = r]
      /\ heap' = heap /\ txn' = txn /\ file' = file /\ storeKind' = storeKind /\ acked' = acked
      /\ q.at = "migrate"
  BY DEF EnterUnit, Proceed, ServerAt
<1>2. q \in ServerState /\ q.todo \in SUBSET Versions BY DEF StoreInv, StoreTypeOK, ServerState
<1>3. /\ HasVersions(Ground(s), Versions \ q.todo) /\ txn[s] = {} /\ Whole(heap[s])
      /\ storeKind = "sqlite" => heap[s] = {}
      /\ storeKind \in {"memory", "sqlite"}
  BY <1>1 DEF StoreInv, StoreTypeOK, ServerInv, InUnit
<1>4. \A u \in Servers \ {s} : server'[u] = server[u] /\ heap'[u] = heap[u] /\ txn'[u] = txn[u]
  BY <1>1 DEF StoreInv, StoreTypeOK
<1>5. AckInv' BY <1>1, <1>4, AckStays
<1>6. Whole(file') BY <1>1 DEF StoreInv
<1>7. CASE q.todo = {}
  <2>1. r.at = "up" /\ r \in ServerState BY <1>7 DEF Down, ServerState
  <2> HIDE DEF r
  <2>2. StoreTypeOK' BY <1>1, <2>1 DEF StoreInv, StoreTypeOK
  <2>3. server'[s] = r BY <1>1 DEF StoreInv, StoreTypeOK
  <2>4. HasVersions(Ground(s)', Versions) BY <1>1, <1>3, <1>7 DEF Ground
  <2>5. ServerInv(s)'
    BY <1>1, <1>3, <2>1, <2>3, <2>4 DEF ServerInv, InUnit, HasVersions, Ground, Whole
  <2> QED BY <1>1, <1>4, <1>5, <1>6, <2>2, <2>5, OneMoves
<1>8. CASE q.todo # {}
  <2>1. v \in q.todo /\ \A w \in q.todo : v <= w BY <1>2, <1>8, FirstIsLeast
  <2>2. Registers[v] \in SUBSET Collections BY <1>2, <2>1, StoreAssumption
  <2>3. /\ r.at = "apply" /\ r.todo = q.todo \ {v} /\ r.version = v
        /\ r.rest = Registers[v] /\ r.saved = heap[s]
    BY <1>8
  <2>4. r \in ServerState
    BY <1>2, <1>8, <2>1, <2>2 DEF ServerState, StoreInv, StoreTypeOK
  <2> HIDE DEF r, v
  <2>5. StoreTypeOK' BY <1>1, <2>4 DEF StoreInv, StoreTypeOK
  <2>6. server'[s] = r BY <1>1 DEF StoreInv, StoreTypeOK
  <2>7. Puts(r) = {} BY <2>3 DEF Puts
  <2>8. r.version \in Versions /\ Versions \ (r.todo \cup {r.version}) = Versions \ q.todo
    BY <1>2, <2>1, <2>3
  <2>9. UnitInv(s, server[s])'
    <3>1. HasVersions(IF storeKind' = "memory" THEN r.saved ELSE file',
                      Versions \ (r.todo \cup {r.version}))
      BY <1>1, <1>3, <2>3, <2>8 DEF Ground
    <3>2. Whole(r.saved) BY <1>3, <2>3
    <3>3. /\ storeKind' = "memory" => heap'[s] = r.saved \cup Puts(r)
          /\ storeKind' = "sqlite" => txn'[s] = Puts(r) /\ r.saved = {}
      BY <1>1, <1>3, <2>3, <2>7
    <3>4. \A w \in r.todo : r.version <= w BY <2>1, <2>3
    <3>5. server'[s].version \in Versions /\ server'[s].rest \subseteq Registers[server'[s].version]
          /\ server'[s].at = "apply"
      BY <2>3, <2>6, <2>8
    <3> QED BY <2>3, <2>6, <2>8, <3>1, <3>2, <3>3, <3>4, <3>5 DEF UnitInv, HasVersions, Whole, Puts
  <2>10. ServerInv(s)'
    BY <1>1, <1>3, <2>3, <2>6, <2>9 DEF ServerInv, InUnit
  <2> QED BY <1>1, <1>4, <1>5, <1>6, <2>5, <2>10, OneMoves
<1> QED BY <1>7, <1>8

\* A put of the unit of work: whatever it adds is apart from what the unit builds on.
LEMMA PutKeeps ==
  ASSUME StoreInv, NEW s \in Servers, NEW r \in ServerState, NEW d \in Docs,
         InUnit(server[s]), InUnit(r), PutInUnit(s, d),
         server' = [server EXCEPT ![s] = r], storeKind' = storeKind, acked' = acked,
         r.todo = server[s].todo, r.version = server[s].version, r.saved = server[s].saved,
         r.rest \subseteq server[s].rest, r.at # "apply" => r.rest = {},
         Puts(r) = Puts(server[s]) \cup {d}
  PROVE  StoreInv'
<1> DEFINE q == server[s]
<1>1. file' = file /\ storeKind \in {"memory", "sqlite"} BY DEF PutInUnit, StoreInv, StoreTypeOK
<1>2. /\ storeKind = "memory" => heap' = [heap EXCEPT ![s] = @ \cup {d}] /\ txn' = txn
      /\ storeKind = "sqlite" => txn' = [txn EXCEPT ![s] = @ \cup {d}] /\ heap' = heap
  BY DEF PutInUnit
<1>3. /\ heap \in [Servers -> SUBSET Docs] /\ txn \in [Servers -> SUBSET Docs]
      /\ server \in [Servers -> ServerState]
  BY DEF StoreInv, StoreTypeOK
<1>4. heap' \in [Servers -> SUBSET Docs] /\ txn' \in [Servers -> SUBSET Docs]
  BY <1>1, <1>2, <1>3
<1>5. StoreTypeOK' BY <1>1, <1>3, <1>4 DEF StoreInv, StoreTypeOK
<1>6. \A u \in Servers \ {s} : server'[u] = server[u] /\ heap'[u] = heap[u] /\ txn'[u] = txn[u]
  BY <1>1, <1>2, <1>3
<1>7. server'[s] = r BY <1>3
<1>8. /\ storeKind = "memory" => heap'[s] = heap[s] \cup {d} /\ txn'[s] = txn[s]
      /\ storeKind = "sqlite" => txn'[s] = txn[s] \cup {d} /\ heap'[s] = heap[s]
  BY <1>1, <1>2, <1>3
<1>9. /\ UnitInv(s, q)
      /\ storeKind = "memory" => txn[s] = {}
      /\ storeKind = "sqlite" => heap[s] = {}
  BY DEF StoreInv, ServerInv
<1>10. UnitInv(s, r)'
  <2>1. /\ r.version \in Versions
        /\ r.rest \subseteq Registers[r.version]
        /\ \A w \in r.todo : r.version <= w
        /\ Whole(r.saved)
    BY <1>9 DEF UnitInv
  <2>2. HasVersions(IF storeKind' = "memory" THEN r.saved ELSE file',
                    Versions \ (r.todo \cup {r.version}))
    BY <1>1, <1>9 DEF UnitInv
  <2>3. storeKind' = "memory" => heap'[s] = r.saved \cup Puts(r)
    BY <1>8, <1>9 DEF UnitInv
  <2>4. storeKind' = "sqlite" => txn'[s] = Puts(r) /\ r.saved = {}
    BY <1>8, <1>9 DEF UnitInv
  <2> QED BY <2>1, <2>2, <2>3, <2>4 DEF UnitInv
<1>11. ServerInv(s)'
  BY <1>1, <1>7, <1>8, <1>9, <1>10 DEF ServerInv, InUnit
<1>12. server[s].at # "up" BY DEF InUnit
<1>13. AckInv' BY <1>1, <1>6, <1>12, AckStays
<1>14. Whole(file') BY <1>1 DEF StoreInv
<1> QED BY <1>1, <1>5, <1>6, <1>11, <1>13, <1>14, OneMoves

LEMMA ApplyKeeps == ASSUME StoreInv, NEW s \in Servers, ApplyMigration(s) PROVE StoreInv'
<1> DEFINE q == server[s]
<1>1. q.at = "apply" /\ q \in ServerState BY DEF ApplyMigration, ServerAt, StoreInv, StoreTypeOK
<1>2. UnitInv(s, q) BY <1>1 DEF StoreInv, ServerInv, InUnit
<1>3. PICK c \in q.rest :
        /\ PutInUnit(s, Document("collection", c))
        /\ server' = [server EXCEPT ![s] =
                        [q EXCEPT !.rest = q.rest \ {c},
                                  !.at = IF q.rest \ {c} = {} THEN "validate" ELSE "apply"]]
  BY DEF ApplyMigration, Proceed
<1> DEFINE r == [q EXCEPT !.rest = q.rest \ {c},
                          !.at = IF q.rest \ {c} = {} THEN "validate" ELSE "apply"]
<1>4. /\ r \in ServerState /\ r.todo = q.todo /\ r.version = q.version /\ r.saved = q.saved
      /\ r.rest = q.rest \ {c} /\ r.at \in {"validate", "apply"}
      /\ r.at = "validate" => r.rest = {}
  BY <1>1 DEF ServerState
<1>5. c \in Registers[q.version] /\ c \in Collections
  BY <1>1, <1>2, <1>3 DEF UnitInv, ServerState
<1>6. server' = [server EXCEPT ![s] = r] BY <1>3
<1> HIDE DEF r
<1>7. Puts(r) = Puts(q) \cup {Document("collection", c)}
  BY <1>1, <1>3, <1>4, <1>5 DEF Puts
<1>8. Document("collection", c) \in Docs BY <1>5 DEF Document, Docs
<1>9. InUnit(q) /\ InUnit(r) BY <1>1, <1>4 DEF InUnit
<1>10. storeKind' = storeKind /\ acked' = acked BY DEF ApplyMigration
<1>11. r.rest \subseteq q.rest /\ (r.at # "apply" => r.rest = {}) BY <1>4
<1> HIDE DEF q
<1> QED BY <1>3, <1>4, <1>6, <1>7, <1>8, <1>9, <1>10, <1>11, PutKeeps DEF q

LEMMA MarkKeeps == ASSUME StoreInv, NEW s \in Servers, MarkApplied(s) PROVE StoreInv'
<1> DEFINE q == server[s]
           r == [q EXCEPT !.at = "exit"]
           d == Document("version", q.version)
<1>1. q.at = "mark" /\ q \in ServerState BY DEF MarkApplied, ServerAt, StoreInv, StoreTypeOK
<1>2. UnitInv(s, q) BY <1>1 DEF StoreInv, ServerInv, InUnit
<1>3. /\ r \in ServerState /\ r.todo = q.todo /\ r.version = q.version /\ r.saved = q.saved
      /\ r.rest = q.rest /\ r.at = "exit"
  BY <1>1 DEF ServerState
<1>4. PutInUnit(s, d) /\ server' = [server EXCEPT ![s] = r]
      /\ storeKind' = storeKind /\ acked' = acked
  BY DEF MarkApplied, Proceed
<1>5. q.version \in Versions /\ q.rest = {} BY <1>1, <1>2 DEF UnitInv
<1> HIDE DEF r
<1>6. Puts(r) = Puts(q) \cup {d} BY <1>1, <1>3 DEF Puts
<1>7. d \in Docs BY <1>5 DEF Document, Docs
<1>8. InUnit(q) /\ InUnit(r) BY <1>1, <1>3 DEF InUnit
<1>9. r.rest \subseteq q.rest /\ (r.at # "apply" => r.rest = {}) BY <1>3, <1>5
<1> HIDE DEF d
<1> QED BY <1>3, <1>4, <1>6, <1>7, <1>8, <1>9, PutKeeps

LEMMA ValidateKeeps == ASSUME StoreInv, NEW s \in Servers, ValidateMigration(s) PROVE StoreInv'
<1> DEFINE q == server[s]
           r == [q EXCEPT !.at = "mark"]
<1>1. q.at = "validate" /\ q \in ServerState
  BY DEF ValidateMigration, ServerAt, StoreInv, StoreTypeOK
<1>2. UnitInv(s, q) BY <1>1 DEF StoreInv, ServerInv, InUnit
<1>3. /\ r \in ServerState /\ r.todo = q.todo /\ r.version = q.version /\ r.saved = q.saved
      /\ r.rest = q.rest /\ r.at = "mark"
  BY <1>1 DEF ServerState
<1>4. /\ server' = [server EXCEPT ![s] = r]
      /\ heap' = heap /\ txn' = txn /\ file' = file /\ storeKind' = storeKind /\ acked' = acked
  BY DEF ValidateMigration, Proceed
<1> HIDE DEF r
<1>5. StoreTypeOK' BY <1>3, <1>4 DEF StoreInv, StoreTypeOK
<1>6. server'[s] = r BY <1>4 DEF StoreInv, StoreTypeOK
<1>7. \A u \in Servers \ {s} : server'[u] = server[u] /\ heap'[u] = heap[u] /\ txn'[u] = txn[u]
  BY <1>4 DEF StoreInv, StoreTypeOK
<1>8. Puts(r) = Puts(q) BY <1>1, <1>3 DEF Puts
<1>9. UnitInv(s, server[s])'
  BY <1>1, <1>2, <1>3, <1>4, <1>6, <1>8 DEF UnitInv, HasVersions, Whole, Puts
<1>10. ServerInv(s)'
  BY <1>1, <1>3, <1>4, <1>6, <1>9 DEF ServerInv, InUnit, StoreInv
<1>11. AckInv' BY <1>1, <1>4, <1>7, AckStays
<1>12. Whole(file') BY <1>4 DEF StoreInv
<1> QED BY <1>4, <1>5, <1>7, <1>10, <1>11, <1>12, OneMoves

\* The commit: the file, or the memory store, goes from whole to whole.
LEMMA ExitKeeps == ASSUME StoreInv, NEW s \in Servers, ExitUnit(s) PROVE StoreInv'
<1> DEFINE q == server[s]
           r == [Down EXCEPT !.at = "migrate", !.todo = q.todo]
<1>1. q.at = "exit" /\ q \in ServerState BY DEF ExitUnit, ServerAt, StoreInv, StoreTypeOK
<1>2. /\ UnitInv(s, q) /\ storeKind \in {"memory", "sqlite"}
      /\ storeKind = "memory" => txn[s] = {}
      /\ storeKind = "sqlite" => heap[s] = {}
  BY <1>1 DEF StoreInv, StoreTypeOK, ServerInv, InUnit
<1>3. r \in ServerState /\ r.todo = q.todo /\ r.at = "migrate"
  BY <1>1 DEF ServerState, Down
<1>4. /\ server' = [server EXCEPT ![s] = r] /\ heap' = heap
      /\ txn' = [txn EXCEPT ![s] = {}] /\ file' = file \cup txn[s]
      /\ storeKind' = storeKind /\ acked' = acked
  BY DEF ExitUnit, Proceed, ReleaseLock
<1> HIDE DEF r
<1>5. StoreTypeOK' BY <1>3, <1>4 DEF StoreInv, StoreTypeOK
<1>6. server'[s] = r /\ txn'[s] = {} BY <1>4 DEF StoreInv, StoreTypeOK
<1>7. \A u \in Servers \ {s} : server'[u] = server[u] /\ heap'[u] = heap[u] /\ txn'[u] = txn[u]
  BY <1>4 DEF StoreInv, StoreTypeOK
<1>8. q.version \in Versions /\ q.rest = {} /\ Whole(q.saved) /\ Whole(file)
  BY <1>1, <1>2 DEF UnitInv, StoreInv
<1>9. q.todo \subseteq Versions /\ \A w \in Versions : w < q.version => w \notin q.todo \cup {q.version}
  <2>1. q.todo \subseteq Versions BY <1>1 DEF ServerState
  <2>2. \A w \in q.todo : q.version <= w BY <1>2 DEF UnitInv
  <2>3. q.version \in Int /\ Versions \subseteq Int BY <1>8, StoreAssumption
  <2> HIDE DEF q
  <2> QED BY <2>1, <2>2, <2>3
<1>10. Document("version", q.version) \in Puts(q) BY <1>1 DEF Puts
<1>11. CASE storeKind = "memory"
  <2>1. heap[s] = q.saved \cup Puts(q) /\ file' = file BY <1>2, <1>4, <1>11 DEF UnitInv
  <2>2. HasVersions(q.saved, Versions \ (q.todo \cup {q.version})) BY <1>2, <1>11 DEF UnitInv
  <2>3. Whole(q.saved \cup Puts(q))
    <3>1. \A w \in Versions : w < q.version => Document("version", w) \in q.saved
      BY <1>9, <2>2 DEF HasVersions
    <3> HIDE DEF q
    <3> QED BY <1>1, <1>8, <3>1, UnitMakesWhole
  <2>4. HasVersions(heap[s], Versions \ q.todo)
    BY <1>10, <2>1, <2>2 DEF HasVersions
  <2>5. ServerInv(s)'
    BY <1>3, <1>4, <1>6, <1>11, <2>1, <2>3, <2>4 DEF ServerInv, InUnit, HasVersions, Ground, Whole
  <2>6. AckInv' BY <1>1, <1>4, <1>7, AckStays
  <2> QED BY <1>4, <1>5, <1>7, <1>8, <2>1, <2>5, <2>6, OneMoves
<1>12. CASE storeKind = "sqlite"
  <2>1. file' = file \cup Puts(q) BY <1>2, <1>4, <1>12 DEF UnitInv
  <2>2. HasVersions(file, Versions \ (q.todo \cup {q.version})) BY <1>2, <1>12 DEF UnitInv
  <2>3. Whole(file \cup Puts(q))
    <3>1. \A w \in Versions : w < q.version => Document("version", w) \in file
      BY <1>9, <2>2 DEF HasVersions
    <3> HIDE DEF q
    <3> QED BY <1>1, <1>8, <3>1, UnitMakesWhole
  <2>4. HasVersions(file', Versions \ q.todo)
    BY <1>10, <2>1, <2>2 DEF HasVersions
  <2>5. heap'[s] = {} /\ Whole(heap'[s]) BY <1>2, <1>4, <1>12, EmptyIsWhole
  <2>6. ServerInv(s)'
    BY <1>3, <1>4, <1>6, <1>12, <2>4, <2>5 DEF ServerInv, InUnit, HasVersions, Ground, Whole
  <2>7. AckInv' BY <1>1, <1>4, <1>7, AckStays
  <2>8. Whole(file') BY <2>1, <2>3
  <2> QED BY <1>4, <1>5, <1>7, <2>1, <2>6, <2>7, <2>8, OneMoves
<1> QED BY <1>2, <1>11, <1>12

\* A unit that fails leaves what it found.
LEMMA FailKeeps == ASSUME StoreInv, NEW s \in Servers, FailUnit(s) PROVE StoreInv'
<1> DEFINE q == server[s]
<1>1. InUnit(q) /\ q \in ServerState BY DEF FailUnit, InUnit, StoreInv, StoreTypeOK
<1>2. /\ UnitInv(s, q)
      /\ storeKind = "sqlite" => heap[s] = {}
      /\ storeKind = "memory" => txn[s] = {}
  BY <1>1 DEF StoreInv, ServerInv
<1>3. Down \in ServerState /\ Down.at = "down" BY DEF ServerState, Down
<1>4. /\ server' = [server EXCEPT ![s] = Down] /\ heap' = [heap EXCEPT ![s] = q.saved]
      /\ txn' = [txn EXCEPT ![s] = {}] /\ file' = file
      /\ storeKind' = storeKind /\ acked' = acked
  BY DEF FailUnit, Proceed, ReleaseLock
<1>5. StoreTypeOK' BY <1>1, <1>3, <1>4 DEF StoreInv, StoreTypeOK, ServerState
<1>6. server'[s] = Down /\ txn'[s] = {} /\ heap'[s] = q.saved BY <1>4 DEF StoreInv, StoreTypeOK
<1>7. \A u \in Servers \ {s} : server'[u] = server[u] /\ heap'[u] = heap[u] /\ txn'[u] = txn[u]
  BY <1>4 DEF StoreInv, StoreTypeOK
<1>8. Whole(q.saved) BY <1>2 DEF UnitInv
<1>9. storeKind = "sqlite" => q.saved = {} BY <1>2 DEF UnitInv
<1>10. ServerInv(s)'
  BY <1>3, <1>4, <1>6, <1>8, <1>9 DEF ServerInv, InUnit, Whole
<1>11. AckInv' BY <1>1, <1>4, <1>7, AckStays DEF InUnit
<1>12. Whole(file') BY <1>4 DEF StoreInv
<1> QED BY <1>4, <1>5, <1>7, <1>10, <1>11, <1>12, OneMoves

LEMMA CrashKeeps == ASSUME StoreInv, NEW s \in Servers, CrashServer(s) PROVE StoreInv'
<1>1. Down \in ServerState /\ Down.at = "down" BY DEF ServerState, Down
<1>2. /\ server' = [server EXCEPT ![s] = Down] /\ heap' = [heap EXCEPT ![s] = {}]
      /\ txn' = [txn EXCEPT ![s] = {}] /\ file' = file /\ storeKind' = storeKind
      /\ acked' = IF storeKind = "memory" THEN {a \in acked : a[1] # s} ELSE acked
  BY DEF CrashServer, Proceed, ReleaseLock
<1>3. StoreTypeOK' BY <1>1, <1>2 DEF StoreInv, StoreTypeOK
<1>4. server'[s] = Down /\ txn'[s] = {} /\ heap'[s] = {} BY <1>2 DEF StoreInv, StoreTypeOK
<1>5. \A u \in Servers \ {s} : server'[u] = server[u] /\ heap'[u] = heap[u] /\ txn'[u] = txn[u]
  BY <1>2 DEF StoreInv, StoreTypeOK
<1>6. ServerInv(s)' BY <1>1, <1>2, <1>4, EmptyIsWhole DEF ServerInv, InUnit, Whole
<1>7. AckInv'
  <2> SUFFICES ASSUME NEW a \in acked'
               PROVE  /\ Document("row", a[2]) \in Ground(a[1])'
                      /\ storeKind = "memory" => server'[a[1]].at = "up"
    BY <1>2 DEF AckInv
  <2>1. a \in acked /\ (storeKind = "memory" => a[1] # s) BY <1>2
  <2>2. a[1] \in Servers BY <2>1 DEF StoreInv, StoreTypeOK
  <2>3. /\ Document("row", a[2]) \in Ground(a[1])
        /\ storeKind = "memory" => server[a[1]].at = "up"
    BY <2>1 DEF StoreInv, AckInv
  <2> QED BY <1>2, <1>5, <2>1, <2>2, <2>3 DEF Ground
<1>8. Whole(file') BY <1>2 DEF StoreInv
<1> QED BY <1>2, <1>3, <1>5, <1>6, <1>7, <1>8, OneMoves

\* A put or a delete of a row changes no document of a migration.
LEMMA WriteKeeps ==
  ASSUME StoreInv, NEW s \in Servers, NEW docs \in SUBSET Docs, Write(s, docs),
         \A v \in Versions :
             Document("version", v) \in docs <=> Document("version", v) \in Ground(s),
         \A c \in Collections :
             Document("collection", c) \in docs <=> Document("collection", c) \in Ground(s),
         acked' \in SUBSET (Servers \X Rows), AckInv'
  PROVE  StoreInv'
<1>1. /\ server[s].at = "up" /\ server' = server /\ txn' = txn /\ storeKind' = storeKind
      /\ storeKind \in {"memory", "sqlite"}
      /\ storeKind = "memory" => heap' = [heap EXCEPT ![s] = docs] /\ file' = file
      /\ storeKind = "sqlite" => file' = docs /\ heap' = heap
  BY DEF Write, ServerAt, StoreInv, StoreTypeOK
<1>2. heap \in [Servers -> SUBSET Docs] /\ file \in SUBSET Docs BY DEF StoreInv, StoreTypeOK
<1>3. heap' \in [Servers -> SUBSET Docs] /\ file' \in SUBSET Docs BY <1>1, <1>2
<1>4. StoreTypeOK' BY <1>1, <1>3 DEF StoreInv, StoreTypeOK
<1>5. \A u \in Servers \ {s} : server'[u] = server[u] /\ heap'[u] = heap[u] /\ txn'[u] = txn[u]
  BY <1>1, <1>2
<1>6. /\ txn[s] = {} /\ Whole(heap[s]) /\ HasVersions(Ground(s), Versions) /\ Whole(file)
      /\ (storeKind = "sqlite" => heap[s] = {})
  BY <1>1 DEF StoreInv, ServerInv, InUnit
<1>7. Whole(docs)
  <2>1. Whole(Ground(s)) BY <1>6 DEF Ground
  <2> QED BY <2>1, RowsKeepWhole
<1>8. Ground(s)' = docs BY <1>1, <1>2 DEF Ground
<1>9. Whole(file') /\ Whole(heap'[s]) BY <1>1, <1>2, <1>6, <1>7
<1>10. ServerInv(s)'
  BY <1>1, <1>2, <1>6, <1>8, <1>9 DEF ServerInv, InUnit, HasVersions, Whole, Ground
<1>11. \A v \in Versions : Document("version", v) \in file => Document("version", v) \in file'
  BY <1>1 DEF Ground
<1> QED BY <1>1, <1>4, <1>5, <1>9, <1>10, <1>11, OneMoves

\* What a process that serves sees is what it builds on.
LEMMA ServingSees ==
  ASSUME StoreInv, NEW s \in Servers, server[s].at = "up"
  PROVE  Visible(s) = Ground(s)
  BY DEF StoreInv, ServerInv, InUnit, Visible, Ground

\* The rows after a write of the process s, which serves.
LEMMA AckAfterWrite ==
  ASSUME StoreInv, NEW s \in Servers, NEW docs, Write(s, docs),
         \A a \in acked' :
             /\ a[1] \in Servers
             /\ storeKind = "sqlite" \/ a[1] = s => Document("row", a[2]) \in docs
             /\ storeKind = "memory" /\ a[1] # s => a \in acked
  PROVE  AckInv'
<1>1. /\ server[s].at = "up" /\ server' = server /\ storeKind' = storeKind
      /\ storeKind \in {"memory", "sqlite"}
      /\ storeKind = "memory" => heap' = [heap EXCEPT ![s] = docs]
      /\ storeKind = "sqlite" => file' = docs
      /\ heap \in [Servers -> SUBSET Docs]
  BY DEF Write, ServerAt, StoreInv, StoreTypeOK
<1> SUFFICES ASSUME NEW a \in acked'
             PROVE  /\ Document("row", a[2]) \in Ground(a[1])'
                    /\ storeKind = "memory" => server[a[1]].at = "up"
  BY <1>1 DEF AckInv
<1>2. CASE storeKind = "sqlite" BY <1>1, <1>2 DEF Ground
<1>3. CASE storeKind = "memory" /\ a[1] = s BY <1>1, <1>3 DEF Ground
<1>4. CASE storeKind = "memory" /\ a[1] # s BY <1>1, <1>4 DEF Ground, StoreInv, AckInv
<1> QED BY <1>1, <1>2, <1>3, <1>4

LEMMA PutRowKeeps == ASSUME StoreInv, NEW s \in Servers, NEW x \in Rows, PutRow(s, x) PROVE StoreInv'
<1> DEFINE d == Document("row", x)
           docs == Visible(s) \cup {d}
<1>1. Write(s, docs) /\ acked' = acked \cup {<<s, x>>} /\ server[s].at = "up"
  BY DEF PutRow, Write, ServerAt
<1>2. Visible(s) = Ground(s) BY <1>1, ServingSees
<1>3. docs \in SUBSET Docs BY <1>2 DEF Docs, Document, StoreInv, StoreTypeOK, Ground
<1>4. acked' \in SUBSET (Servers \X Rows) BY <1>1 DEF StoreInv, StoreTypeOK
<1>5. \A a \in acked' :
        /\ a[1] \in Servers
        /\ storeKind = "sqlite" \/ a[1] = s => Document("row", a[2]) \in docs
        /\ storeKind = "memory" /\ a[1] # s => a \in acked
  <2> SUFFICES ASSUME NEW a \in acked' PROVE
        /\ a[1] \in Servers
        /\ storeKind = "sqlite" \/ a[1] = s => Document("row", a[2]) \in docs
        /\ storeKind = "memory" /\ a[1] # s => a \in acked
    OBVIOUS
  <2>1. CASE a = <<s, x>> BY <2>1
  <2>2. CASE a \in acked
    BY <1>2, <2>2 DEF StoreInv, StoreTypeOK, AckInv, Ground
  <2> QED BY <1>1, <2>1, <2>2
<1>6. /\ \A v : Document("version", v) \in docs <=> Document("version", v) \in Ground(s)
      /\ \A c : Document("collection", c) \in docs <=> Document("collection", c) \in Ground(s)
  BY <1>2, Kinds
<1> HIDE DEF docs
<1>7. AckInv' BY <1>1, <1>5, AckAfterWrite
<1> QED BY <1>1, <1>3, <1>4, <1>6, <1>7, WriteKeeps

LEMMA DeleteRowKeeps ==
  ASSUME StoreInv, NEW s \in Servers, NEW x \in Rows, DeleteRow(s, x) PROVE StoreInv'
<1> DEFINE d == Document("row", x)
           docs == Visible(s) \ {d}
<1>1. /\ Write(s, docs) /\ server[s].at = "up"
      /\ acked' = {a \in acked : a[2] # x \/ (storeKind = "memory" /\ a[1] # s)}
  BY DEF DeleteRow, Write, ServerAt
<1>2. Visible(s) = Ground(s) BY <1>1, ServingSees
<1>3. docs \in SUBSET Docs BY <1>2 DEF StoreInv, StoreTypeOK, Ground
<1>4. acked' \in SUBSET (Servers \X Rows) BY <1>1 DEF StoreInv, StoreTypeOK
<1>5. \A a \in acked' :
        /\ a[1] \in Servers
        /\ storeKind = "sqlite" \/ a[1] = s => Document("row", a[2]) \in docs
        /\ storeKind = "memory" /\ a[1] # s => a \in acked
  <2> SUFFICES ASSUME NEW a \in acked' PROVE
        /\ a[1] \in Servers
        /\ storeKind = "sqlite" \/ a[1] = s => Document("row", a[2]) \in docs
        /\ storeKind = "memory" /\ a[1] # s => a \in acked
    OBVIOUS
  <2>1. a \in acked /\ (a[2] # x \/ (storeKind = "memory" /\ a[1] # s)) BY <1>1
  <2>2. a[1] \in Servers /\ Document("row", a[2]) \in Ground(a[1])
    BY <2>1 DEF StoreInv, StoreTypeOK, AckInv
  <2>3. a[2] # x => Document("row", a[2]) # d BY Kinds
  <2> QED BY <1>2, <2>1, <2>2, <2>3 DEF Ground
<1>6. /\ \A v : Document("version", v) \in docs <=> Document("version", v) \in Ground(s)
      /\ \A c : Document("collection", c) \in docs <=> Document("collection", c) \in Ground(s)
  BY <1>2, Kinds
<1> HIDE DEF docs
<1>7. AckInv' BY <1>1, <1>5, AckAfterWrite
<1> QED BY <1>1, <1>3, <1>4, <1>6, <1>7, WriteKeeps

LEMMA StoreStart == StoreInit => StoreInv
<1> SUFFICES ASSUME StoreInit PROVE StoreInv OBVIOUS
<1>1. Down \in ServerState /\ Down.at = "down" BY DEF ServerState, Down
<1>2. StoreTypeOK BY <1>1 DEF StoreInit, StoreTypeOK
<1>3. \A s \in Servers : ServerInv(s)
  BY <1>1, EmptyIsWhole DEF StoreInit, ServerInv, InUnit
<1> QED BY <1>2, <1>3, EmptyIsWhole DEF StoreInit, StoreInv, AckInv

LEMMA StoreStep == StoreInv /\ [StoreNext]_storeVars => StoreInv'
<1> SUFFICES ASSUME StoreInv, [StoreNext]_storeVars PROVE StoreInv' OBVIOUS
<1>1. CASE StoreNext
  <2> PICK s \in Servers :
        \/ StartServer(s) \/ EnterUnit(s) \/ ApplyMigration(s) \/ ValidateMigration(s)
        \/ MarkApplied(s) \/ ExitUnit(s) \/ FailUnit(s) \/ CrashServer(s)
        \/ \E x \in Rows : PutRow(s, x) \/ DeleteRow(s, x)
    BY <1>1 DEF StoreNext
  <2> QED BY StartKeeps, EnterKeeps, ApplyKeeps, ValidateKeeps, MarkKeeps, ExitKeeps, FailKeeps,
             CrashKeeps, PutRowKeeps, DeleteRowKeeps
<1>2. CASE UNCHANGED storeVars
  BY <1>2 DEF storeVars, StoreInv, StoreTypeOK, Whole, ServerInv, UnitInv, InUnit, Puts,
              HasVersions, Ground, AckInv
<1> QED BY <1>1, <1>2

\* Migrations are atomic, in order and before service, and acknowledged rows
\* stay, for any number of processes that start, fail and stop at any point of
\* MigrationRunner.apply, any list of migrations and any rows.
THEOREM MigrationsAreAtomic == StoreSpec => []MigrationsAtomic
<1>1. StoreInv => MigrationsAtomic
  <2> SUFFICES ASSUME StoreInv PROVE MigrationsAtomic OBVIOUS
  <2>1. \A s \in Servers : server[s].at \in {"down", "migrate", "up"} => Whole(heap[s])
    BY DEF StoreInv, ServerInv, InUnit
  <2>2. \A s \in Servers : ServerAt(s, "up") => Applied(s) = Versions
    BY ServingSees DEF StoreInv, ServerInv, HasVersions, Applied, ServerAt
  <2>3. \A a \in acked : Document("row", a[2]) \in Visible(a[1])
    BY DEF StoreInv, AckInv, Visible, Ground
  <2> QED BY <2>1, <2>2, <2>3 DEF MigrationsAtomic, StoreInv
<1> QED BY <1>1, StoreStart, StoreStep, PTL DEF StoreSpec
=============================================================================
