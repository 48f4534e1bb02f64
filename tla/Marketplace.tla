---------------------------- MODULE Marketplace ----------------------------
(***************************************************************************)
(* The package marketplace (src/agentfabric/marketplace and its routes):   *)
(* packages are signed, scanned and published; a tenant installs,          *)
(* upgrades, rolls back and uninstalls them and reviews those it is        *)
(* entitled to.  Every row is read and written on its own, without a lock, *)
(* and an installation is changed by storing a copy that was read before.  *)
(***************************************************************************)
EXTENDS Requests, Sequences, FiniteSets, FiniteSetsExt

CONSTANTS
    Manifests,   \* the packages that may be published
    Customers,   \* tenants that install
    Rollbacks    \* versions a tenant may ask to go back to

PackageMetadata == [private : BOOLEAN, retired : BOOLEAN, high_risk_approved : BOOLEAN]

PackageManifest ==
    [package_id : STRING, version : 1 .. 9, publisher : STRING, declared : BOOLEAN,
     high_risk : BOOLEAN, unsafe : BOOLEAN, dependencies : SUBSET {p.manifest.package_id : p \in Manifests}]

ASSUME ManifestsAssumption ==
    \A p \in Manifests : p.manifest \in PackageManifest /\ p.metadata \in PackageMetadata

VARIABLES
    registry,      \* marketplace_packages: the published packages
    trusted,       \* TrustedPublisherRegistry
    entitlements,  \* marketplace_entitlements
    installs,      \* marketplace_installs, oldest first
    installsMetered,       \* metering records of installs
    revenue,       \* revenue records of installs
    reviewed,      \* marketplace_reviews
    disturbed      \* history: what the scan of an installed package may not know

marketState == <<registry, trusted, entitlements, installs, installsMetered, revenue, reviewed, disturbed>>

marketVars == <<requestVars, marketState>>

MarketInit ==
    /\ registry = {}
    /\ trusted = {}
    /\ entitlements = {}
    /\ installs = <<>>
    /\ installsMetered = 0
    /\ revenue = 0
    /\ reviewed = {}
    /\ disturbed = {}

Deal(op, place, tenant, arg) == [op |-> op, at |-> place, id |-> tenant, copy |-> "none", arg |-> arg]

InDeal(t, op, place) == call[t].op = op /\ At(t, place)

MarketOps == {"publish", "install_package", "uninstall", "upgrade", "rollback"}

-----------------------------------------------------------------------------
\* What a package declares

manifest_validate(p) == p.manifest.declared

requires_approval(p) == p.manifest.high_risk

\* PolicyScanner: neither revoked nor deprecated
policy_ok(p) == ~ p.metadata.retired

Key(p) == <<p.manifest.package_id, p.manifest.version>>

Newest(packages) == CHOOSE p \in packages : \A q \in packages : q.manifest.version <= p.manifest.version

available_by_id == {Newest({q \in registry : q.manifest.package_id = p.manifest.package_id}) : p \in registry}

Provides(d) == \E q \in available_by_id : q.manifest.package_id = d

\* DependencyScanner: every dependency is there.
dependency_ok(p) == \A d \in p.manifest.dependencies : Provides(d)

Resolved(p) == {q \in available_by_id : q.manifest.package_id \in p.manifest.dependencies}

\* DependencyResolver: the package and its direct dependencies have no cycle, and
\* none of these asks for an unsafe permission.
resolve(p) ==
    /\ \A d \in p.manifest.dependencies : Provides(d)
    /\ \A q \in Resolved(p) : p.manifest.package_id \notin q.manifest.dependencies /\ q.manifest.package_id \notin q.manifest.dependencies
    /\ \A q, r \in Resolved(p) : r.manifest.package_id \in q.manifest.dependencies => q.manifest.package_id \notin r.manifest.dependencies
    /\ \A q \in Resolved(p) : ~ q.manifest.unsafe

scan_ok(p) == dependency_ok(p) /\ policy_ok(p) /\ ~ requires_approval(p)

enforce(p) == scan_ok(p) \/ p.metadata.high_risk_approved

private_to_other(p, tenant) == p.metadata.private /\ p.manifest.publisher # tenant

_validate_install(tenant, p, approved) ==
    /\ ~ private_to_other(p, tenant)
    /\ requires_approval(p) => approved \/ p.metadata.high_risk_approved
    /\ dependency_ok(p) /\ policy_ok(p)
    /\ resolve(p)

-----------------------------------------------------------------------------
\* Publishing: the publisher's key is trusted, the manifest checked and scanned;
\* the version is then stored over any earlier one of the same number.

publish(t, p) ==
    /\ Begin(t, Deal("publish", "save", p.manifest.publisher, p))
    /\ trusted' = trusted \cup {p.manifest.publisher}
    /\ manifest_validate(p)
    /\ enforce(p)
    /\ UNCHANGED <<registry, entitlements, installs, installsMetered, revenue, reviewed, disturbed>>

save_version(t) ==
    /\ InDeal(t, "publish", "save")
    /\ LET p == call[t].arg
           earlier == {q \in registry : Key(q) = Key(p)}
       IN  /\ registry' = (registry \ earlier) \cup {p}
           /\ disturbed' = disturbed \cup IF earlier = {} THEN {} ELSE {Key(p)}
    /\ Done(t)
    /\ UNCHANGED <<trusted, entitlements, installs, installsMetered, revenue, reviewed>>

-----------------------------------------------------------------------------
\* Installing

\* MarketplaceRegistryService.get: a version, or the latest one
get(package, version) ==
    LET those == {q \in registry : q.manifest.package_id = package}
    IN  IF version = 0 THEN Newest(those) ELSE CHOOSE q \in those : q.manifest.version = version

Published(package, version) ==
    \E q \in registry : q.manifest.package_id = package /\ version \in {0, q.manifest.version}

install(t, tenant, package, version) ==
    /\ Published(package, version)
    /\ Begin(t, Deal("install_package", "validate", tenant, get(package, version)))
    /\ UNCHANGED marketState

install_validate(t, approved) ==
    /\ InDeal(t, "install_package", "validate")
    /\ IF _validate_install(call[t].id, call[t].arg, approved)
       THEN Step(t, "entitle") ELSE Done(t)
    /\ UNCHANGED marketState


put_entitlement(t) ==
    /\ InDeal(t, "install_package", "entitle")
    /\ entitlements' = entitlements \cup {<<call[t].id, call[t].arg.manifest.package_id>>}
    /\ Step(t, "put")
    /\ UNCHANGED <<registry, trusted, installs, installsMetered, revenue, reviewed, disturbed>>

put_install(t) ==
    /\ InDeal(t, "install_package", "put")
    /\ installs' = Append(installs, [tenant |-> call[t].id, package |-> call[t].arg.manifest.package_id,
                                     version |-> call[t].arg.manifest.version, active |-> TRUE])
    /\ Step(t, "meter")
    /\ UNCHANGED <<registry, trusted, entitlements, installsMetered, revenue, reviewed, disturbed>>

record_install(t) ==
    /\ InDeal(t, "install_package", "meter")
    /\ installsMetered' = installsMetered + 1
    /\ Step(t, "revenue")
    /\ UNCHANGED <<registry, trusted, entitlements, installs, revenue, reviewed, disturbed>>

record_revenue(t) ==
    /\ InDeal(t, "install_package", "revenue")
    /\ revenue' = revenue + 1
    /\ Done(t)
    /\ UNCHANGED <<registry, trusted, entitlements, installs, installsMetered, reviewed, disturbed>>

-----------------------------------------------------------------------------
\* Changing an installation

Mine(tenant, package) ==
    {i \in DOMAIN installs : installs[i].tenant = tenant /\ installs[i].package = package
                             /\ installs[i].active}

_active_install(tenant, package) == Min(Mine(tenant, package))

uninstall(t, tenant, package) ==
    /\ Mine(tenant, package) # {}
    /\ LET i == _active_install(tenant, package)
       IN  Begin(t, [Deal("uninstall", "put", tenant, i)
                     EXCEPT !.copy = [installs[i] EXCEPT !.active = FALSE]])
    /\ UNCHANGED marketState

\* The package is read and scanned, then the installation is looked up.
upgrade(t, tenant, package, version) ==
    /\ Published(package, version)
    /\ Begin(t, Deal("upgrade", "validate", tenant, get(package, version)))
    /\ UNCHANGED marketState

upgrade_validate(t) ==
    /\ InDeal(t, "upgrade", "validate")
    /\ IF _validate_install(call[t].id, call[t].arg, TRUE) THEN Step(t, "find") ELSE Done(t)
    /\ UNCHANGED marketState

\* A version that is revoked needs the administrator's word; nothing else is scanned.
rollback(t, tenant, package, version, override) ==
    /\ Published(package, version)
    /\ LET p == get(package, version)
       IN  /\ p.metadata.retired => override
           /\ Begin(t, Deal("rollback", "find", tenant, p))
    /\ UNCHANGED marketState

find_install(t) ==
    /\ call[t].op \in {"upgrade", "rollback"} /\ At(t, "find")
    /\ LET p == call[t].arg
       IN  IF Mine(call[t].id, p.manifest.package_id) = {} THEN Done(t)
           ELSE LET i == _active_install(call[t].id, p.manifest.package_id)
                IN  Goto(t, [call[t] EXCEPT !.at = "put", !.arg = i,
                                            !.copy = [installs[i] EXCEPT !.version = p.manifest.version]])
    /\ UNCHANGED marketState

put_changed(t) ==
    /\ call[t].op \in {"uninstall", "upgrade", "rollback"} /\ At(t, "put")
    /\ installs' = [installs EXCEPT ![call[t].arg] = call[t].copy]
    /\ disturbed' = disturbed \cup
         IF call[t].op = "rollback" THEN {<<call[t].copy.package, call[t].copy.version>>} ELSE {}
    /\ Done(t)
    /\ UNCHANGED <<registry, trusted, entitlements, installsMetered, revenue, reviewed>>

-----------------------------------------------------------------------------
verify_runtime_entitlement(tenant, package) == <<tenant, package>> \in entitlements

submit_package_review(t, tenant, package) ==
    /\ Begin(t, Idle)
    /\ verify_runtime_entitlement(tenant, package)
    /\ reviewed' = reviewed \cup {<<tenant, package>>}
    /\ UNCHANGED <<registry, trusted, entitlements, installs, installsMetered, revenue, disturbed>>

PackageIds == {p.manifest.package_id : p \in Manifests}
Asked == {0} \cup Rollbacks

package_routes(t) == \E p \in Manifests : publish(t, p)

install_routes(t) ==
    \E tenant \in Customers, package \in PackageIds :
        \/ \E v \in Asked : install(t, tenant, package, v)
        \/ uninstall(t, tenant, package)
        \/ \E v \in Asked : upgrade(t, tenant, package, v)
        \/ \E v \in Rollbacks, o \in BOOLEAN : rollback(t, tenant, package, v, o)

package_review_routes(t) ==
    \E tenant \in Customers, package \in PackageIds : submit_package_review(t, tenant, package)

\* The server stops: the rows stay.
MarketCrash(t) ==
    /\ call[t].op \in MarketOps
    /\ call' = [call EXCEPT ![t] = Idle]
    /\ UNCHANGED <<left, marketState>>

MarketNext == \E t \in Threads :
    \/ package_routes(t) \/ install_routes(t) \/ package_review_routes(t)
    \/ save_version(t) \/ put_entitlement(t) \/ put_install(t)
    \/ \E approved \in BOOLEAN : install_validate(t, approved)
    \/ record_install(t) \/ record_revenue(t)
    \/ upgrade_validate(t) \/ find_install(t) \/ put_changed(t)
    \/ MarketCrash(t)

MarketSpec == RequestsInit /\ MarketInit /\ [][MarketNext]_marketVars

-----------------------------------------------------------------------------
=============================================================================
