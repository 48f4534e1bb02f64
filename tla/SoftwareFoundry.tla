--------------------------- MODULE SoftwareFoundry ---------------------------
(***************************************************************************)
(* The software foundry (src/agentfabric/software_factory): an idea is made *)
(* a repository through the quality gate, a lifecycle record, one signed   *)
(* artifact per stage and a package, each put and logged in turn.  The     *)
(* lifecycle of repositories and their impact graph are here too.          *)
(* A repository id is a hash of the manifest, without the tenant.          *)
(***************************************************************************)
EXTENDS Requests, Sequences, FiniteSets, Functions

CONSTANTS
    Owner,        \* idea -> its tenant (part of the idea's hash)
    Manifests,    \* manifests of generated repositories
    Needs,        \* manifest -> the ids of the repositories it depends on
    Evidence,     \* quality metrics a request may bring, in hundredths
    Stages,       \* number of stages of the pipeline (12 in STAGES)
    Tenants,
    Releases      \* versions an update may name

VARIABLES
    ideas, scores, repositories, artifacts, packages,   \* the factory_* collections
    foundryLog,    \* factory.* events: type and id
    asDone,        \* history: each record as its saves one after the other would leave it
    lost,          \* history: ids a save wrote while another request held a copy of them
    mixed          \* history: ids with overlapping or interrupted generations

foundryState == <<ideas, scores, repositories, artifacts, packages,
                  foundryLog, asDone, lost, mixed>>

foundryVars == <<requestVars, foundryState>>

None == [tenant |-> "none"]

\* manifest.repository_id and the hash of parent, action and name
Generated(m) == <<"create", m>>
Derived(id, action) == <<action, id[2]>>

RepositoryIds == {"create", "clone", "fork"} \X Manifests

FoundryInit ==
    /\ ideas = {} /\ foundryLog = {} /\ lost = {} /\ mixed = {}
    /\ scores = [i \in RepositoryIds |-> None]
    /\ repositories = [i \in RepositoryIds |-> None]
    /\ asDone = [i \in RepositoryIds |-> None]
    /\ artifacts = [i \in RepositoryIds |-> [s \in 1..Stages |-> None]]
    /\ packages = [i \in RepositoryIds |-> None]

-----------------------------------------------------------------------------
(* RepositoryQualityGate *)
Metrics == {"architecture_quality", "code_quality", "test_coverage",
            "documentation_completeness", "dependency_health",
            "observability_readiness", "security_posture"}

\* score refuses missing metrics and values outside 0..1.
Scored(metrics) ==
    /\ Metrics \subseteq DOMAIN metrics
    /\ \A x \in Metrics : metrics[x] \in 0..100

\* enforce wants a mean of 0.8 and a minimum of 0.7.
Passed(metrics) ==
    /\ Scored(metrics)
    /\ SumFunctionOnSet(metrics, Metrics) >= 80 * Cardinality(Metrics)
    /\ \A x \in Metrics : metrics[x] >= 70

(* create_idea *)
CreateIdea(t, i) ==
    /\ Begin(t, [Idle EXCEPT !.op = "idea", !.at = "idea event", !.id = i])
    /\ ideas' = ideas \cup {i}
    /\ UNCHANGED <<scores, repositories, artifacts, packages,
                   foundryLog, asDone, lost, mixed>>

IdeaEvent(t) ==
    /\ At(t, "idea event")
    /\ foundryLog' = foundryLog \cup {<<"idea.created", call[t].id>>}
    /\ Done(t)
    /\ UNCHANGED <<ideas, scores, repositories, artifacts, packages,
                   asDone, lost, mixed>>

-----------------------------------------------------------------------------
(* generate_repository: the score is put, then the record, the artifacts of the
   stages and the package, each followed by its event. *)
Generating(t, id) == \E u \in Others(t) : call[u].op = "generate" /\ call[u].id = id

\* A request that holds a copy of the record and will put it back changed
Holding(t, id) == \E u \in Others(t) : call[u].op = "change" /\ At(u, "save") /\ call[u].id = id

\* A gate that fails leaves only its event.
GenerateRepository(t, i, m, metrics) ==
    /\ i \in ideas
    /\ LET id == Generated(m)
       IN  IF Passed(metrics)
           THEN /\ Begin(t, [op |-> "generate", at |-> "put", id |-> id, copy |-> 0,
                             arg |-> [tenant |-> Owner[i], metrics |-> metrics, manifest |-> m]])
                /\ mixed' = mixed \cup {j \in {id} : Generating(t, j)}
                /\ UNCHANGED foundryLog
           ELSE /\ At(t, "idle") /\ left > 0 /\ left' = left - 1
                /\ foundryLog' = foundryLog \cup {<<"quality.failed", id>>}
                /\ UNCHANGED <<call, mixed>>
    /\ UNCHANGED <<ideas, scores, repositories, artifacts, packages, asDone, lost>>

\* RepositoryLifecycleService.create
NewRecord(arg) ==
    [tenant |-> arg.tenant, status |-> "active", releases |-> <<"1.0.0">>,
     needs |-> Needs[arg.manifest], parent |-> <<>>, action |-> "create"]

Save(t, id, record, done) ==
    /\ repositories' = [repositories EXCEPT ![id] = record]
    /\ asDone' = [asDone EXCEPT ![id] = done]
    /\ lost' = lost \cup {j \in {id} : Holding(t, j)}

GeneratePut(t) ==
    /\ At(t, "put")
    /\ LET id == call[t].id
           arg == call[t].arg
           n == call[t].copy
       IN  \/ /\ n = 0
              /\ scores' = [scores EXCEPT ![id] = [tenant |-> arg.tenant, metrics |-> arg.metrics]]
              /\ UNCHANGED <<repositories, artifacts, packages, asDone, lost>>
           \/ /\ n = 1
              /\ Save(t, id, NewRecord(arg), NewRecord(arg))
              /\ UNCHANGED <<scores, artifacts, packages>>
           \/ /\ n \in 2..(Stages + 1)
              /\ artifacts' = [artifacts EXCEPT ![id][n - 1] = [tenant |-> arg.tenant]]
              /\ UNCHANGED <<scores, repositories, packages, asDone, lost>>
           \/ /\ n = Stages + 2
              /\ packages' = [packages EXCEPT ![id] = [tenant |-> arg.tenant]]
              /\ UNCHANGED <<scores, repositories, artifacts, asDone, lost>>
    /\ Step(t, "put event")
    /\ UNCHANGED <<ideas, foundryLog, mixed>>

GenerateEvent(t) ==
    /\ At(t, "put event")
    /\ LET n == call[t].copy
           what == CASE n = 0 -> "quality.passed"
                     [] n = 1 -> "repository.created"
                     [] n = Stages + 2 -> "repository.packaged"
                     [] OTHER -> "artifact.generated"
       IN  /\ foundryLog' = foundryLog \cup {<<what, call[t].id>>}
           /\ IF n = Stages + 2 THEN Done(t) ELSE Goto(t, [call[t] EXCEPT !.at = "put", !.copy = n + 1])
    /\ UNCHANGED <<ideas, scores, repositories, artifacts, packages,
                   asDone, lost, mixed>>

\* A put or an append of the generation raises.
GenerateFail(t) ==
    /\ call[t].op = "generate"
    /\ Done(t)
    /\ mixed' = mixed \cup {call[t].id}
    /\ UNCHANGED <<ideas, scores, repositories, artifacts, packages,
                   foundryLog, asDone, lost>>

-----------------------------------------------------------------------------
(* RepositoryLifecycleService: a record is read, copied with changes and saved.
   Its changes are operations of the service that no route offers yet. *)
\* update, deprecate, archive and restore
Changed(record, change) ==
    IF change.kind = "update"
    THEN [record EXCEPT !.releases = Append(@, change.version), !.needs = change.needs]
    ELSE [record EXCEPT !.status = change.status]

Changes ==
    [kind : {"update"}, version : Releases, needs : {{}} \cup {{Generated(m)} : m \in Manifests}]
    \cup [kind : {"status"}, status : {"active", "deprecated", "archived"}]

ReadRecord(t, op, tn, id, arg) ==
    /\ repositories[id].tenant = tn
    /\ Begin(t, [op |-> op, at |-> "save", id |-> id, copy |-> repositories[id], arg |-> arg])
    /\ UNCHANGED foundryState

SaveChange(t) ==
    /\ At(t, "save") /\ call[t].op = "change"
    /\ LET id == call[t].id
       IN  Save(t, id, Changed(call[t].copy, call[t].arg), Changed(asDone[id], call[t].arg))
    /\ Step(t, "save event")
    /\ UNCHANGED <<ideas, scores, artifacts, packages, foundryLog, mixed>>

\* _derive: clone and fork
SaveDerived(t) ==
    /\ At(t, "save") /\ call[t].op = "derive"
    /\ LET id == call[t].id
           record == [call[t].copy EXCEPT !.parent = id, !.action = call[t].arg]
       IN  Save(t, Derived(id, call[t].arg), record, record)
    /\ Step(t, "save event")
    /\ UNCHANGED <<ideas, scores, artifacts, packages, foundryLog, mixed>>

SaveEvent(t) ==
    /\ At(t, "save event")
    /\ foundryLog' = foundryLog \cup
          {IF call[t].op = "derive" THEN <<"repository.derived", Derived(call[t].id, call[t].arg)>>
           ELSE <<"repository.changed", call[t].id>>}
    /\ Done(t)
    /\ UNCHANGED <<ideas, scores, repositories, artifacts, packages,
                   asDone, lost, mixed>>

-----------------------------------------------------------------------------
\* The process stops and starts again.
FoundryRestart ==
    /\ left > 0 /\ left' = left - 1
    /\ call' = [t \in Threads |-> Idle]
    /\ mixed' = mixed \cup {id \in RepositoryIds :
                               \E t \in Threads : call[t].op = "generate" /\ call[t].id = id}
    /\ UNCHANGED <<ideas, scores, repositories, artifacts, packages,
                   foundryLog, asDone, lost>>

FoundryNext ==
    \/ FoundryRestart
    \/ \E t \in Threads :
          \/ \E i \in DOMAIN Owner :
                \/ CreateIdea(t, i)
                \/ \E m \in Manifests, e \in Evidence : GenerateRepository(t, i, m, e)
          \/ IdeaEvent(t) \/ GeneratePut(t) \/ GenerateEvent(t) \/ GenerateFail(t)
          \/ \E tn \in Tenants, id \in RepositoryIds :
                \/ \E c \in Changes : ReadRecord(t, "change", tn, id, c)
                \/ /\ id[1] = "create"   \* bound: a derived repository is not derived from
                   /\ \E a \in {"clone", "fork"} : ReadRecord(t, "derive", tn, id, a)
          \/ SaveChange(t) \/ SaveDerived(t) \/ SaveEvent(t)

FoundrySpec == RequestsInit /\ FoundryInit /\ [][FoundryNext]_foundryVars

-----------------------------------------------------------------------------
(* RepositoryGraph.impact over the records of a tenant *)
View(tn) == {id \in RepositoryIds : repositories[id].tenant = tn}

Dependents(tn, ids) == {j \in View(tn) : repositories[j].needs \cap ids # {}}

RECURSIVE Spread(_, _, _)
Spread(tn, queue, seen) ==
    IF queue = {} THEN seen
    ELSE LET found == Dependents(tn, queue) \ seen
         IN  Spread(tn, found, seen \cup found)

\* Mutant of Impact: only the direct dependents are reported.
ImpactDirect(tn, id) == Dependents(tn, {id})

Impact(tn, id) == Spread(tn, Dependents(tn, {id}), Dependents(tn, {id}))

\* Reference: what a chain of dependencies connects with id
Affected(tn, id) ==
    {j \in View(tn) :
        \A closed \in SUBSET View(tn) :
            (Dependents(tn, {id} \cup closed) \subseteq closed) => j \in closed}

-----------------------------------------------------------------------------
\* A package is the end of a generation that passed: its repository has a score
\* that passes the gate, a record, every artifact and their events.  All of them
\* are of one tenant once no generation runs, unless two generations of the
\* manifest overlapped or one was interrupted.  No lifecycle change is lost: the
\* record is what its changes one after the other give, unless two requests held
\* a copy of it at once.  The impact of a repository is what depends on it
\* through a chain, also when updates made the dependencies circular.
FoundryRecordsAgree ==
    /\ \A id \in RepositoryIds :
          /\ scores[id] # None => Passed(scores[id].metrics)
          /\ packages[id].tenant # "none" =>
                /\ {<<e, id>> : e \in {"quality.passed", "repository.created", "artifact.generated"}}
                      \subseteq foundryLog
                /\ (id \notin mixed \cup lost /\ \A t \in Threads : call[t].op # "generate") =>
                      /\ repositories[id].tenant = packages[id].tenant
                      /\ scores[id].tenant = packages[id].tenant
                      /\ \A s \in 1..Stages : artifacts[id][s].tenant = packages[id].tenant
          /\ id \notin lost => repositories[id] = asDone[id]
    /\ \A tn \in Tenants : \A id \in View(tn) : Impact(tn, id) = Affected(tn, id)
=============================================================================
