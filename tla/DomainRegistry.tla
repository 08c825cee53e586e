---------------------------- MODULE DomainRegistry ----------------------------
(***************************************************************************)
(* The domain registry of ForgeOps: FDS package versions, the             *)
(* installations resolved from them, and the DomainLocks that pin one      *)
(* installation to a Project (DomainRegistryService over                   *)
(* SqlDomainRegistryRepository).                                           *)
(*                                                                         *)
(* Every repository call is a database transaction of its own, so one      *)
(* request is several atomic steps: a Begin action holds the reads and     *)
(* the checks up to the first thing another request could change behind    *)
(* its back, the later actions are the next read or the committing         *)
(* transaction.  Requests run in parallel, one per handler thread, and     *)
(* meet only in the tables.                                                *)
(*                                                                         *)
(* A request refused before it holds anything (a failed check, a replayed  *)
(* or conflicting Idempotency-Key) leaves no trace and is no step of the   *)
(* model; one that ends later without effect is Abandon.                   *)
(***************************************************************************)
EXTENDS Naturals, Sequences

CONSTANTS
  PackageVersions,     \* (packageId, packageVersion) identities
  Contents,            \* manifest and content digests that can be uploaded
  Organizations,
  Platform,            \* owner of a package version without owner Organization
  Owner,               \* the owner of each package version
  Resolutions,         \* per root, the node sets a dependency lock of it can have
  Projects,
  OrganizationOf,      \* the Organization of each Project
  InstallationIds,     \* identities uuid4 can still draw (a bound)
  LockIds,             \* likewise for ProjectDomainLocks (a bound)
  Handlers,            \* request threads (a bound)
  Keys,                \* (actor, Idempotency-Key) pairs in use (a bound)
  RegistryTargets,     \* governance requests that are sent, per kind
  InstallationTargets,
  IfMatchAhead,        \* how far an If-Match may run ahead of the stored version
  ArchivableScopes,    \* Projects and Organizations that may be archived (a bound)
  Idle,
  None

RegistryStates == {"REGISTERED_VALIDATED", "QUARANTINED", "WITHDRAWN"}
InstallationStates ==
  {"INSTALLED_DISABLED", "DISABLED", "REVOKED", "LOGICALLY_UNINSTALLED"}

PackageRows ==
  [content: Contents, state: RegistryStates, version: Nat \ {0}]
InstallationRows ==
  [organization: Organizations, root: PackageVersions,
   refs: SUBSET PackageVersions, state: InstallationStates, version: Nat \ {0}]
LockRows ==
  [project: Projects, installation: InstallationIds,
   previous: LockIds \cup {None}, status: {"CURRENT", "SUPERSEDED"}]

(* A row without what its clients do not see. *)
PackageFacts == [content: Contents, state: RegistryStates]
InstallationFacts ==
  [organization: Organizations, root: PackageVersions,
   refs: SUBSET PackageVersions, state: InstallationStates]

(* What the canonical request digest is taken over. *)
Requests ==
       [kind: {"register"}, subject: PackageVersions, argument: Contents]
  \cup [kind: {"governPackage"}, subject: PackageVersions, argument: RegistryTargets]
  \cup [kind: {"install"}, subject: PackageVersions, argument: Organizations]
  \cup [kind: {"governInstallation"}, subject: InstallationIds,
        argument: InstallationTargets]
  \cup [kind: {"switch"}, subject: Projects, argument: InstallationIds]

Resources == PackageVersions \cup InstallationIds \cup LockIds
Bindings == [request: Requests, key: Keys, resource: Resources]

(* What a handler holds: the request, its key and, where the step needs it,   *)
(* the If-Match version, the resolved node set and the resource read.         *)
Work ==
  {work \in
     [step: {"lookup", "readCurrent", "checkLocks", "bind", "commit"},
      request: Requests, key: Keys, expected: Nat,
      refs: SUBSET PackageVersions, resource: Resources \cup {None}] :
   work.step = "bind" => work.resource \in Resources}

ASSUME ConstantsAssumption ==
  /\ RegistryTargets \subseteq {"QUARANTINED", "WITHDRAWN"}
  /\ InstallationTargets \subseteq {"DISABLED", "REVOKED", "LOGICALLY_UNINSTALLED"}
  /\ Owner \in [PackageVersions -> Organizations \cup {Platform}]
  /\ OrganizationOf \in [Projects -> Organizations]
  /\ Resolutions \in [PackageVersions -> SUBSET SUBSET PackageVersions]
  /\ \A root \in PackageVersions : \A refs \in Resolutions[root] : root \in refs
  /\ IfMatchAhead \in Nat
  /\ ArchivableScopes \subseteq Projects \cup Organizations
  /\ None \notin LockIds \cup PackageRows \cup InstallationRows \cup LockRows
                  \cup PackageFacts \cup InstallationFacts
  /\ Idle \notin Work

VARIABLES
  packages,            \* fds_package_versions
  installations,       \* fds_installations
  locks,               \* project_domain_locks
  idempotency,         \* fds_idempotency_records
  packageAudit,        \* per version record, the states its audit events report
  installationAudit,   \* likewise for an installation
  lockAudit,           \* per Project, the locks its audit events say were created
  inactive,            \* Projects and Organizations that are no longer ACTIVE
  handler              \* what each request thread holds between transactions

vars == <<packages, installations, locks, idempotency,
          packageAudit, installationAudit, lockAudit, inactive, handler>>

Init ==
  /\ packages = [pv \in PackageVersions |-> None]
  /\ installations = [i \in InstallationIds |-> None]
  /\ locks = [l \in LockIds |-> None]
  /\ idempotency = {}
  /\ packageAudit = [pv \in PackageVersions |-> <<>>]
  /\ installationAudit = [i \in InstallationIds |-> <<>>]
  /\ lockAudit = [p \in Projects |-> <<>>]
  /\ inactive = {}
  /\ handler = [h \in Handlers |-> Idle]

-------------------------------------------------------------------------------
(* The governance state machines, and what a request may build on.            *)
(*                                                                            *)
(* A definition named Faulty... is a wrong variant of the one that follows    *)
(* it: the code with a plausible bug, which some property has to notice.      *)

RegistryTransitions ==
  {<<"REGISTERED_VALIDATED", "QUARANTINED">>, <<"REGISTERED_VALIDATED", "WITHDRAWN">>,
   <<"QUARANTINED", "WITHDRAWN">>}
RegistryTransitionAllowed(current, target) == <<current, target>> \in RegistryTransitions

InstallationTransitions ==
  {<<"INSTALLED_DISABLED", "DISABLED">>, <<"INSTALLED_DISABLED", "REVOKED">>,
   <<"DISABLED", "REVOKED">>, <<"DISABLED", "LOGICALLY_UNINSTALLED">>,
   <<"REVOKED", "LOGICALLY_UNINSTALLED">>}
InstallationTransitionAllowed(current, target) ==
  <<current, target>> \in InstallationTransitions

FaultyVisibleForOrganization(pv, organization) == TRUE  \* no tenant check
VisibleForOrganization(pv, organization) == Owner[pv] \in {Platform, organization}

FaultyRegistered(pv) ==  \* QUARANTINED only counts as a risk
  packages[pv] # None /\ packages[pv].state # "WITHDRAWN"
Registered(pv) ==
  packages[pv] # None /\ packages[pv].state = "REGISTERED_VALIDATED"

Healthy(refs) == \A pv \in refs : Registered(pv)

CurrentLocks(p) ==
  {l \in LockIds : locks[l] # None /\ locks[l].project = p
                                   /\ locks[l].status = "CURRENT"}

-------------------------------------------------------------------------------
(* Idempotency records: unique per (actor, action key, Idempotency-Key).  The *)
(* action key names the governance target, so each target has its own keys.   *)

ActionKey(request) ==
  IF request.kind \in {"governPackage", "governInstallation"}
  THEN <<request.kind, request.argument>>
  ELSE <<request.kind>>

Bound(request, key) ==
  \E b \in idempotency : b.key = key /\ ActionKey(b.request) = ActionKey(request)

FaultyAddIdempotency(request, key, resource) ==  \* committed without its key
  UNCHANGED idempotency
AddIdempotency(request, key, resource) ==
  idempotency' = idempotency
    \cup {[request |-> request, key |-> key, resource |-> resource]}

-------------------------------------------------------------------------------
(* A handler takes a request, moves to its next step, or is done with it. *)

Hold(h, step, request, key, expected, refs, resource) ==
  handler' = [handler EXCEPT ![h] =
    [step |-> step, request |-> request, key |-> key, expected |-> expected,
     refs |-> refs, resource |-> resource]]

At(h, step, kind) ==
  /\ handler[h] # Idle
  /\ handler[h].step = step
  /\ handler[h].request.kind = kind

Finish(h) == handler' = [handler EXCEPT ![h] = Idle]

(* The committing transactions look the key up again before they write, and   *)
(* the unique constraint on the record catches the key bound in between.      *)
FaultyFresh(h) == TRUE  \* no second look-up, no unique constraint
Fresh(h) == ~Bound(handler[h].request, handler[h].key)

(* bind_idempotent_resource: the request changes nothing, the key is spent.   *)
Bind(h) ==
  /\ handler[h] # Idle
  /\ handler[h].step = "bind"
  /\ Fresh(h)
  /\ AddIdempotency(handler[h].request, handler[h].key, handler[h].resource)
  /\ Finish(h)
  /\ UNCHANGED <<packages, installations, locks, packageAudit, installationAudit,
                 lockAudit, inactive>>

(* The request ends without effect: a replay, a conflict or a constraint      *)
(* violation at the commit, which rolls back, or the death of the thread.     *)
Abandon(h) ==
  /\ handler[h] # Idle
  /\ Finish(h)
  /\ UNCHANGED <<packages, installations, locks, idempotency, packageAudit,
                 installationAudit, lockAudit, inactive>>

-------------------------------------------------------------------------------
(* register_package_version *)

BeginRegister(h, pv, content, key) ==
  LET request == [kind |-> "register", subject |-> pv, argument |-> content] IN
  /\ handler[h] = Idle
  /\ Owner[pv] \notin inactive
  /\ ~Bound(request, key)
  /\ \/ /\ packages[pv] = None
        /\ Hold(h, "commit", request, key, 0, {}, None)
     \/ /\ packages[pv] # None
        /\ packages[pv].content = content
        /\ Hold(h, "bind", request, key, 0, {}, pv)
  /\ UNCHANGED <<packages, installations, locks, idempotency, packageAudit,
                 installationAudit, lockAudit, inactive>>

AddPackageVersion(h) ==
  LET request == handler[h].request
      pv == request.subject IN
  /\ At(h, "commit", "register")
  /\ Fresh(h)
  /\ packages[pv] = None
  /\ packages' = [packages EXCEPT ![pv] =
       [content |-> request.argument, state |-> "REGISTERED_VALIDATED", version |-> 1]]
  /\ packageAudit' = [packageAudit EXCEPT ![pv] = Append(@, "REGISTERED_VALIDATED")]
  /\ AddIdempotency(request, handler[h].key, pv)
  /\ Finish(h)
  /\ UNCHANGED <<installations, locks, installationAudit, lockAudit, inactive>>

-------------------------------------------------------------------------------
(* The row is locked for the update and its version compared with If-Match.   *)
FaultyUnmoved(row, expected) == row # None  \* last writer wins
Unmoved(row, expected) == row # None /\ row.version = expected

(* transition_package_version: legality is decided on the record read here,   *)
(* the If-Match version is compared when the row is locked for the update.    *)

BeginGovernPackage(h, pv, target, key, expected) ==
  LET request == [kind |-> "governPackage", subject |-> pv, argument |-> target] IN
  /\ handler[h] = Idle
  /\ Owner[pv] \notin inactive
  /\ packages[pv] # None
  /\ expected \in 1..(packages[pv].version + IfMatchAhead)
  /\ ~Bound(request, key)
  /\ \/ /\ packages[pv].state = target
        /\ Hold(h, "bind", request, key, expected, {}, pv)
     \/ /\ RegistryTransitionAllowed(packages[pv].state, target)
        /\ Hold(h, "commit", request, key, expected, {}, pv)
  /\ UNCHANGED <<packages, installations, locks, idempotency, packageAudit,
                 installationAudit, lockAudit, inactive>>

SavePackageVersion(h) ==
  LET request == handler[h].request
      pv == request.subject IN
  /\ At(h, "commit", "governPackage")
  /\ Fresh(h)
  /\ Unmoved(packages[pv], handler[h].expected)
  /\ packages' = [packages EXCEPT ![pv] =
       [content |-> @.content, state |-> request.argument,
        version |-> handler[h].expected + 1]]
  /\ packageAudit' = [packageAudit EXCEPT ![pv] = Append(@, request.argument)]
  /\ AddIdempotency(request, handler[h].key, pv)
  /\ Finish(h)
  /\ UNCHANGED <<installations, locks, installationAudit, lockAudit, inactive>>

-------------------------------------------------------------------------------
(* create_installation: the preview resolves over the Registry as it is read, *)
(* then the installation with the same lock is looked up, then one is added.  *)

BeginInstall(h, root, organization, key, refs) ==
  LET request == [kind |-> "install", subject |-> root, argument |-> organization] IN
  /\ handler[h] = Idle
  /\ organization \notin inactive
  /\ ~Bound(request, key)
  /\ refs \in Resolutions[root]
  /\ \A pv \in refs : Registered(pv) /\ VisibleForOrganization(pv, organization)
  /\ Hold(h, "lookup", request, key, 0, refs, None)
  /\ UNCHANGED <<packages, installations, locks, idempotency, packageAudit,
                 installationAudit, lockAudit, inactive>>

FaultySameLock(i, request, refs) ==  \* only usable installations are compared
  /\ installations[i] # None
  /\ installations[i].organization = request.argument
  /\ installations[i].root = request.subject
  /\ installations[i].refs = refs
  /\ installations[i].state = "INSTALLED_DISABLED"
SameLock(i, request, refs) ==
  /\ installations[i] # None
  /\ installations[i].organization = request.argument
  /\ installations[i].root = request.subject
  /\ installations[i].refs = refs

LookUpInstallation(h) ==
  LET work == handler[h]
      existing == {i \in InstallationIds : SameLock(i, work.request, work.refs)} IN
  /\ At(h, "lookup", "install")
  /\ \/ /\ existing = {}
        /\ Hold(h, "commit", work.request, work.key, 0, work.refs, None)
     \/ \E i \in existing : Hold(h, "bind", work.request, work.key, 0, work.refs, i)
  /\ UNCHANGED <<packages, installations, locks, idempotency, packageAudit,
                 installationAudit, lockAudit, inactive>>

AddInstallation(h, i) ==
  LET work == handler[h] IN
  /\ At(h, "commit", "install")
  /\ Fresh(h)
  /\ installations[i] = None
  /\ ~\E other \in InstallationIds : SameLock(other, work.request, work.refs)
  /\ installations' = [installations EXCEPT ![i] =
       [organization |-> work.request.argument, root |-> work.request.subject,
        refs |-> work.refs, state |-> "INSTALLED_DISABLED", version |-> 1]]
  /\ installationAudit' = [installationAudit EXCEPT ![i] = Append(@, "INSTALLED_DISABLED")]
  /\ AddIdempotency(work.request, work.key, i)
  /\ Finish(h)
  /\ UNCHANGED <<packages, locks, packageAudit, lockAudit, inactive>>

-------------------------------------------------------------------------------
(* transition_installation: as for a package version, except that a logical   *)
(* uninstall first asks, in a transaction of its own, for a CURRENT lock.     *)

BeginGovernInstallation(h, i, target, key, expected) ==
  LET request == [kind |-> "governInstallation", subject |-> i, argument |-> target] IN
  /\ handler[h] = Idle
  /\ installations[i] # None
  /\ installations[i].organization \notin inactive
  /\ expected \in 1..(installations[i].version + IfMatchAhead)
  /\ ~Bound(request, key)
  /\ \/ /\ installations[i].state = target
        /\ Hold(h, "bind", request, key, expected, {}, i)
     \/ /\ InstallationTransitionAllowed(installations[i].state, target)
        /\ IF target = "LOGICALLY_UNINSTALLED"
           THEN Hold(h, "checkLocks", request, key, expected, {}, i)
           ELSE Hold(h, "commit", request, key, expected, {}, i)
  /\ UNCHANGED <<packages, installations, locks, idempotency, packageAudit,
                 installationAudit, lockAudit, inactive>>

FaultyCurrentLockExistsFor(i) == FALSE  \* uninstall without the guard
CurrentLockExistsFor(i) ==
  \E l \in LockIds : /\ locks[l] # None
                     /\ locks[l].installation = i
                     /\ locks[l].status = "CURRENT"

CheckNoCurrentLock(h) ==
  LET work == handler[h] IN
  /\ At(h, "checkLocks", "governInstallation")
  /\ ~CurrentLockExistsFor(work.request.subject)
  /\ Hold(h, "commit", work.request, work.key, work.expected, {}, work.resource)
  /\ UNCHANGED <<packages, installations, locks, idempotency, packageAudit,
                 installationAudit, lockAudit, inactive>>

SaveInstallation(h) ==
  LET request == handler[h].request
      i == request.subject IN
  /\ At(h, "commit", "governInstallation")
  /\ Fresh(h)
  /\ Unmoved(installations[i], handler[h].expected)
  /\ installations' = [installations EXCEPT ![i] =
       [organization |-> @.organization, root |-> @.root, refs |-> @.refs,
        state |-> request.argument, version |-> handler[h].expected + 1]]
  /\ installationAudit' = [installationAudit EXCEPT ![i] = Append(@, request.argument)]
  /\ AddIdempotency(request, handler[h].key, i)
  /\ Finish(h)
  /\ UNCHANGED <<packages, locks, packageAudit, lockAudit, inactive>>

-------------------------------------------------------------------------------
(* create_project_domain_lock.  The Project, the installation and the health  *)
(* of its refs are read one after the other; none of the three conditions     *)
(* becomes true again once it is false, so reading them at once loses no      *)
(* outcome.  The current lock is read later, and the switch compares it.      *)

BeginSwitch(h, p, i, key) ==
  LET request == [kind |-> "switch", subject |-> p, argument |-> i] IN
  /\ handler[h] = Idle
  /\ {p, OrganizationOf[p]} \cap inactive = {}
  /\ ~Bound(request, key)
  /\ installations[i] # None
  /\ installations[i].organization = OrganizationOf[p]
  /\ installations[i].state = "INSTALLED_DISABLED"
  /\ Healthy(installations[i].refs)
  /\ Hold(h, "readCurrent", request, key, 0, {}, None)
  /\ UNCHANGED <<packages, installations, locks, idempotency, packageAudit,
                 installationAudit, lockAudit, inactive>>

ReadCurrentLock(h) ==
  LET work == handler[h]
      current == CurrentLocks(work.request.subject) IN
  /\ At(h, "readCurrent", "switch")
  /\ \/ /\ current = {}
        /\ Hold(h, "commit", work.request, work.key, 0, {}, None)
     \/ \E l \in current :
          IF locks[l].installation = work.request.argument
          THEN Hold(h, "bind", work.request, work.key, 0, {}, l)
          ELSE Hold(h, "commit", work.request, work.key, 0, {}, l)
  /\ UNCHANGED <<packages, installations, locks, idempotency, packageAudit,
                 installationAudit, lockAudit, inactive>>

(* The row lock and the comparison cover a CURRENT row that exists; of two    *)
(* first locks the partial unique index on status = 'CURRENT' refuses one.    *)
FaultyStillCurrent(p, previous) ==  \* no partial unique index
  previous = None \/ previous \in CurrentLocks(p)
StillCurrent(p, previous) ==
  CurrentLocks(p) = IF previous = None THEN {} ELSE {previous}

Superseded(lock) ==
  [project |-> lock.project, installation |-> lock.installation,
   previous |-> lock.previous, status |-> "SUPERSEDED"]

SwitchProjectDomainLock(h, l) ==
  LET request == handler[h].request
      p == request.subject
      previous == handler[h].resource IN
  /\ At(h, "commit", "switch")
  /\ Fresh(h)
  /\ StillCurrent(p, previous)
  /\ locks[l] = None
  /\ locks' = [k \in LockIds |->
       IF k = l
       THEN [project |-> p, installation |-> request.argument,
             previous |-> previous, status |-> "CURRENT"]
       ELSE IF k = previous THEN Superseded(locks[k]) ELSE locks[k]]
  /\ lockAudit' = [lockAudit EXCEPT ![p] = Append(@, l)]
  /\ AddIdempotency(request, handler[h].key, l)
  /\ Finish(h)
  /\ UNCHANGED <<packages, installations, packageAudit, installationAudit, inactive>>

-------------------------------------------------------------------------------
(* The identity component archives a Project, or a Workspace or Organization  *)
(* above it; no operation makes an archived scope ACTIVE again.               *)

ArchiveScope(scope) ==
  /\ scope \notin inactive
  /\ inactive' = inactive \cup {scope}
  /\ UNCHANGED <<packages, installations, locks, idempotency, packageAudit,
                 installationAudit, lockAudit, handler>>

Receive(h) ==
  \E key \in Keys :
    \/ \E pv \in PackageVersions, content \in Contents : BeginRegister(h, pv, content, key)
    \/ \E pv \in PackageVersions, target \in RegistryTargets :
         packages[pv] # None /\ \E expected \in 1..(packages[pv].version + IfMatchAhead) :
           BeginGovernPackage(h, pv, target, key, expected)
    \/ \E root \in PackageVersions, organization \in Organizations :
         \E refs \in Resolutions[root] : BeginInstall(h, root, organization, key, refs)
    \/ \E i \in InstallationIds, target \in InstallationTargets :
         installations[i] # None /\ \E expected \in 1..(installations[i].version + IfMatchAhead) :
           BeginGovernInstallation(h, i, target, key, expected)
    \/ \E p \in Projects, i \in InstallationIds : BeginSwitch(h, p, i, key)

Continue(h) ==
  \/ Bind(h)
  \/ AddPackageVersion(h)
  \/ SavePackageVersion(h)
  \/ LookUpInstallation(h)
  \/ \E i \in InstallationIds : AddInstallation(h, i)
  \/ CheckNoCurrentLock(h)
  \/ SaveInstallation(h)
  \/ ReadCurrentLock(h)
  \/ \E l \in LockIds : SwitchProjectDomainLock(h, l)

Next ==
  \/ \E h \in Handlers : Receive(h) \/ Continue(h) \/ Abandon(h)
  \/ \E scope \in ArchivableScopes : ArchiveScope(scope)

Spec == Init /\ [][Next]_vars

-------------------------------------------------------------------------------
(* Properties. *)

TypeOK ==
  /\ packages \in [PackageVersions -> PackageRows \cup {None}]
  /\ installations \in [InstallationIds -> InstallationRows \cup {None}]
  /\ locks \in [LockIds -> LockRows \cup {None}]
  /\ idempotency \subseteq Bindings
  /\ packageAudit \in [PackageVersions -> Seq(RegistryStates)]
  /\ installationAudit \in [InstallationIds -> Seq(InstallationStates)]
  /\ lockAudit \in [Projects -> Seq(LockIds)]
  /\ inactive \subseteq Projects \cup Organizations
  /\ handler \in [Handlers -> Work \cup {Idle}]

(* Audit events that are the history of a row: one per version, the last one  *)
(* names the stored state, and each follows from the one before legally.      *)
IsHistory(audit, version, state, first, legal) ==
  /\ Len(audit) = version
  /\ audit[1] = first
  /\ audit[version] = state
  /\ \A n \in 1..(version - 1) : <<audit[n], audit[n + 1]>> \in legal

(* The committed audit events of a package version retell its life, although  *)
(* legality was decided on a record another request may have moved since.     *)
PackageAuditIsHistory ==
  \A pv \in PackageVersions :
    IF packages[pv] = None
    THEN packageAudit[pv] = <<>>
    ELSE IsHistory(packageAudit[pv], packages[pv].version, packages[pv].state,
                   "REGISTERED_VALIDATED", RegistryTransitions)

(* The same of an installation: REVOKED and LOGICALLY_UNINSTALLED are never   *)
(* taken back, whatever requests were in flight when they committed.          *)
InstallationAuditIsHistory ==
  \A i \in InstallationIds :
    IF installations[i] = None
    THEN installationAudit[i] = <<>>
    ELSE IsHistory(installationAudit[i], installations[i].version, installations[i].state,
                   "INSTALLED_DISABLED", InstallationTransitions)

(* Both together: every governed record is what its audit events tell.        *)
AuditsAreHistories == PackageAuditIsHistory /\ InstallationAuditIsHistory

(* A Project never has two CURRENT DomainLocks, however many switches race.   *)
OneCurrentLock ==
  \A p \in Projects : \A k, l \in CurrentLocks(p) : k = l

(* The audited creations of a Project are its locks, in one line: each lock   *)
(* names the one before it as previous, all but the last are SUPERSEDED and   *)
(* the last is CURRENT.  A switch that overtook another would fork the line.  *)
LockAuditIsTheChain ==
  /\ \A p \in Projects : \A n \in 1..Len(lockAudit[p]) :
       /\ locks[lockAudit[p][n]] # None
       /\ locks[lockAudit[p][n]].project = p
       /\ locks[lockAudit[p][n]].previous = IF n = 1 THEN None ELSE lockAudit[p][n - 1]
       /\ locks[lockAudit[p][n]].status =
            IF n = Len(lockAudit[p]) THEN "CURRENT" ELSE "SUPERSEDED"
  /\ \A l \in LockIds :
       locks[l] # None => \E n \in 1..Len(lockAudit[locks[l].project]) :
                            lockAudit[locks[l].project][n] = l

(* An Idempotency-Key answers for one request: it is bound once per action,   *)
(* and to a resource for which what that request asks has really come about,  *)
(* also when the key was spent on a state someone else had reached.           *)
CameAbout(request, resource) ==
  \/ /\ request.kind = "register"
     /\ resource = request.subject
     /\ packages[resource] # None
     /\ packages[resource].content = request.argument
  \/ /\ request.kind = "governPackage"
     /\ resource = request.subject
     /\ \E n \in 1..Len(packageAudit[resource]) : packageAudit[resource][n] = request.argument
  \/ /\ request.kind = "install"
     /\ resource \in InstallationIds
     /\ installations[resource] # None
     /\ installations[resource].root = request.subject
     /\ installations[resource].organization = request.argument
  \/ /\ request.kind = "governInstallation"
     /\ resource = request.subject
     /\ \E n \in 1..Len(installationAudit[resource]) :
          installationAudit[resource][n] = request.argument
  \/ /\ request.kind = "switch"
     /\ resource \in LockIds
     /\ locks[resource] # None
     /\ locks[resource].project = request.subject
     /\ locks[resource].installation = request.argument

KeysAnswerForOneRequest ==
  /\ \A b, c \in idempotency :
       b.key = c.key /\ ActionKey(b.request) = ActionKey(c.request) => b = c
  /\ \A b \in idempotency : CameAbout(b.request, b.resource)

(* No effect without its key: every row and every governed state was          *)
(* committed together with a record of the key that asked for it, so a retry  *)
(* under that key finds the record instead of acting again.                   *)
EffectsAreKeyed ==
  LET Keyed(request, resource) ==
        \E b \in idempotency : b.request = request /\ b.resource = resource IN
  /\ \A pv \in PackageVersions : packages[pv] # None =>
       /\ Keyed([kind |-> "register", subject |-> pv,
                 argument |-> packages[pv].content], pv)
       /\ \A n \in 2..Len(packageAudit[pv]) :
            Keyed([kind |-> "governPackage", subject |-> pv,
                   argument |-> packageAudit[pv][n]], pv)
  /\ \A i \in InstallationIds : installations[i] # None =>
       /\ Keyed([kind |-> "install", subject |-> installations[i].root,
                 argument |-> installations[i].organization], i)
       /\ \A n \in 2..Len(installationAudit[i]) :
            Keyed([kind |-> "governInstallation", subject |-> i,
                   argument |-> installationAudit[i][n]], i)
  /\ \A l \in LockIds : locks[l] # None =>
       Keyed([kind |-> "switch", subject |-> locks[l].project,
              argument |-> locks[l].installation], l)

(* Nothing of another Organization is ever pinned: an installation holds only *)
(* package versions its Organization may see, a lock only an installation of  *)
(* its Project's Organization, and one Organization never has two             *)
(* installations of the same lock.                                            *)
TenantsStayApart ==
  /\ \A i \in InstallationIds : installations[i] # None =>
       \A pv \in installations[i].refs :
         /\ packages[pv] # None
         /\ Owner[pv] \in {Platform, installations[i].organization}
  /\ \A l \in LockIds : locks[l] # None =>
       /\ installations[locks[l].installation] # None
       /\ installations[locks[l].installation].organization
            = OrganizationOf[locks[l].project]

NoDuplicateInstallation ==
  \A i, j \in InstallationIds :
    /\ installations[i] # None
    /\ installations[j] # None
    /\ installations[i].organization = installations[j].organization
    /\ installations[i].root = installations[j].root
    /\ installations[i].refs = installations[j].refs
    => i = j

(* What a lock pins never changes: content, node set, owner and ancestry are  *)
(* written once, and a superseded lock is never current again.                *)
FactsAreImmutable ==
  [][/\ \A pv \in PackageVersions : packages[pv] # None =>
          packages'[pv] # None /\ packages'[pv].content = packages[pv].content
     /\ \A i \in InstallationIds : installations[i] # None =>
          /\ installations'[i] # None
          /\ installations'[i].organization = installations[i].organization
          /\ installations'[i].root = installations[i].root
          /\ installations'[i].refs = installations[i].refs
     /\ \A l \in LockIds :
          locks[l] # None =>
          /\ locks'[l] # None
          /\ locks'[l].project = locks[l].project
          /\ locks'[l].installation = locks[l].installation
          /\ locks'[l].previous = locks[l].previous
          /\ locks[l].status = "SUPERSEDED" => locks'[l].status = "SUPERSEDED"]_vars

(* The documented guard of logical uninstall: no Project's current lock is    *)
(* left on an uninstalled installation.                                       *)
UninstallBlockedByCurrentLock ==
  \A l \in LockIds :
    locks[l] # None /\ locks[l].status = "CURRENT"
      => installations[locks[l].installation].state # "LOGICALLY_UNINSTALLED"

InUse(i) == \E l \in LockIds :
  locks[l] # None /\ locks[l].status = "CURRENT" /\ locks[l].installation = i

UninstallDecided(h, i) ==
  /\ At(h, "commit", "governInstallation")
  /\ handler[h].request.subject = i
  /\ handler[h].request.argument = "LOGICALLY_UNINSTALLED"

Protected(i) ==
  /\ installations[i] # None
  /\ installations[i].state # "LOGICALLY_UNINSTALLED"
  /\ \A h \in Handlers : ~UninstallDecided(h, i)

(* What of that guard survives every race: a CURRENT lock keeps an            *)
(* installation from being uninstalled, unless an uninstall is on its way     *)
(* that has found no such lock before.                                        *)
CurrentLocksProtect ==
  [][\A i \in InstallationIds : InUse(i) /\ Protected(i) => Protected(i)']_vars

(* With requests in flight the commits can come late, but not for ever.  Once *)
(* a package version is quarantined or withdrawn and no request in flight has *)
(* read it as healthy, no installation and no lock with it is added any more; *)
(* once an installation is disabled, revoked or uninstalled and no switch to  *)
(* it is in flight, it never gets another lock.                               *)
Uses(h, pv) ==
  /\ handler[h] # Idle
  /\ \/ handler[h].request.kind = "install" /\ pv \in handler[h].refs
     \/ /\ handler[h].request.kind = "switch"
        /\ pv \in installations[handler[h].request.argument].refs

SwitchesTo(h, i) ==
  handler[h] # Idle /\ handler[h].request.kind = "switch" /\ handler[h].request.argument = i

OutOfUse(pv) ==
  /\ packages[pv] # None
  /\ packages[pv].state # "REGISTERED_VALIDATED"
  /\ \A h \in Handlers : ~Uses(h, pv)

Retired(i) ==
  /\ installations[i] # None
  /\ installations[i].state # "INSTALLED_DISABLED"
  /\ \A h \in Handlers : ~SwitchesTo(h, i)

NewLocks == {l \in LockIds : locks[l] = None /\ locks'[l] # None}
NewInstallations == {i \in InstallationIds : installations[i] = None /\ installations'[i] # None}

UseSettles ==
  [][/\ \A pv \in PackageVersions : OutOfUse(pv) =>
          /\ OutOfUse(pv)'
          /\ \A i \in NewInstallations : pv \notin installations'[i].refs
          /\ \A l \in NewLocks : pv \notin installations[locks'[l].installation].refs
     /\ \A i \in InstallationIds : Retired(i) =>
          /\ Retired(i)'
          /\ \A l \in NewLocks : locks'[l].installation # i]_vars

(* What a handler checked before its commit still holds there, or the commit  *)
(* will fail: a governance transition is still legal unless the version moved *)
(* past its If-Match, the nodes of an installation stay known and visible, a  *)
(* switch is to another installation of the Project's Organization.           *)
BackedGovernPackage(work) ==
  LET row == packages[work.request.subject] IN
  work.request.kind = "governPackage" /\ work.step = "commit" =>
    /\ row # None
    /\ work.expected <= row.version
    /\ work.expected = row.version =>
         RegistryTransitionAllowed(row.state, work.request.argument)

BackedGovernInstallation(work) ==
  LET row == installations[work.request.subject] IN
  work.request.kind = "governInstallation" /\ work.step \in {"checkLocks", "commit"} =>
    /\ row # None
    /\ work.expected <= row.version
    /\ work.expected = row.version =>
         InstallationTransitionAllowed(row.state, work.request.argument)

BackedInstall(work) ==
  work.request.kind = "install" =>
    \A pv \in work.refs :
      packages[pv] # None /\ VisibleForOrganization(pv, work.request.argument)

BackedSwitch(work) ==
  LET row == installations[work.request.argument] IN
  work.request.kind = "switch" =>
    /\ row # None
    /\ row.organization = OrganizationOf[work.request.subject]
    /\ work.step = "commit" /\ work.resource # None =>
         /\ work.resource \in LockIds
         /\ locks[work.resource] # None
         /\ locks[work.resource].installation # work.request.argument

Backed(work) ==
  /\ BackedGovernPackage(work)
  /\ BackedGovernInstallation(work)
  /\ BackedInstall(work)
  /\ BackedSwitch(work)

ChecksOutliveTheirRead ==
  \A work \in {handler[h] : h \in Handlers} \ {Idle} : Backed(work)

-------------------------------------------------------------------------------
(* Refinement: threads, transactions and keys implement the atomic registry.  *)
(* Versions and lock rows are forgotten, a Project's chain of locks is its    *)
(* sequence of selections.                                                    *)

RegistryView == [pv \in PackageVersions |->
  IF packages[pv] = None THEN None
  ELSE [content |-> packages[pv].content, state |-> packages[pv].state]]

InstalledView == [i \in InstallationIds |->
  IF installations[i] = None THEN None
  ELSE [organization |-> installations[i].organization, root |-> installations[i].root,
        refs |-> installations[i].refs, state |-> installations[i].state]]

SelectionsView == [p \in Projects |->
  [n \in 1..Len(lockAudit[p]) |-> locks[lockAudit[p][n]].installation]]

Atomic == INSTANCE AtomicRegistry
  WITH registry <- RegistryView, installed <- InstalledView, selections <- SelectionsView

(* Every interleaving of the requests' transactions looks to the clients like *)
(* the requests that committed, one at a time.                                *)
ImplementsAtomicRegistry == Atomic!AtomicSpec
===============================================================================
