# ForgeOps verification

TLA+ models of the ForgeOps platform, the TLC configurations that check them on
small instances, and proofs of their most important properties.

All paths below are relative to the repository; the Python implementation is
`src/forgeops/`.

## 1. The system

ForgeOps is one FastAPI process (`api.py`) over services
(`platform_core/*/service.py`) over SQLAlchemy repositories
(`platform_adapters/postgres/*.py`), with PostgreSQL as the target database and
SQLite locally. Handlers are ordinary `def` functions, so FastAPI runs requests
in parallel on a thread pool. **Every repository method opens a session of its
own: each call of one is one transaction.** A request that reads, decides and
writes is therefore several atomic steps, and two requests interleave between
them. What holds the system together is what each *committing* transaction looks
at again: version columns, `FOR UPDATE` row locks, unique constraints and
idempotency records.

### Components

| component | state | operations | correct when |
|---|---|---|---|
| **Domain registry** `platform_core/domain_registry`, `platform_adapters/postgres/domain_registry_repository.py` | `fds_package_versions`, `fds_installations`, `project_domain_locks`, `fds_idempotency_records`, audit events | register, quarantine, withdraw a package version; preview and create an installation; disable, revoke, logically uninstall it; bind / switch a Project's DomainLock | governance is monotone, audit is complete, one current lock and an unforked history per Project, retries do nothing twice, tenants are apart, locks rest on healthy versions |
| **Identity and access** `platform_core/identity_access` | Organizations, Workspaces, Projects, memberships, Project bindings, versions, idempotency records | create / update / activate / archive, membership transitions, bind / disable a ScenarioPackage, `_authorize` | an Organization keeps an active owner, archived ancestors block writes, decisions follow the memberships |
| **Scenario registry** `platform_core/scenario_registry` | ScenarioPackage installations, EnvironmentReleases | install, mark tested, approve, grant, bind, release, enable, disable, revoke, uninstall | the lifecycle graph is respected, revocation is terminal, a run starts only on an ENABLED release in its environment |
| **Project package bindings** (in both of the above) | `binding_refs` of an installation and the binding row | `create_project_binding`, `disable_project_binding` | the two never disagree about which Project is bound |
| **Dependency resolver** `fds_sdk/resolver.py` | none (pure) | `resolve`, `verify_dependency_lock` | the chosen versions satisfy every range, conflict, layer and budget rule; a lock verifies exactly when it is what `resolve` would build |
| **FDS manifest validation** `fds_sdk/{validation,models,canonical,legacy}.py` | none (pure) | validation, digests | structural |
| **Knowledge hub** `platform_core/knowledge_hub` | assets, versions, stored objects | create an asset, register, publish and withdraw a version, search | lifecycle is monotone, a version has its object |
| **Semantic runtime** `platform_core/semantic_runtime` | semantic payloads, ContextManifests, grounding results, impact reports, idempotency records | governed transitions, `compile_context`, `validate_grounding`, `analyze_impact` | a context holds only published content of the tenant that its lock pins, one manifest per request, an answer is grounded on what it names |
| **Scenario SDK** `scenario_sdk` | none (pure) | manifest validation, transition table | structural |
| **Object storage** `platform_adapters/object_storage.py` | files | put / get | an address holds its content, whole and for ever |
| **HTTP shell, worker, config** | process | routing, start-up | pure I/O |
| **Web console** `apps/web` | browser state | calls the API | presentation |

### How they interact

* HTTP handlers build an `ActorContext` and call one service method.
* The domain registry asks *identity and access* for a permission and for the
  scope (Organization or Project, with its state) the request is about; it calls
  the *resolver* with the package versions it read, and stores the lock digest
  that comes back.
* A Project's DomainLock refers to an installation, an installation to package
  versions. Both are plain references: nothing locks what is referred to.
* The knowledge hub and the semantic runtime read a Project's current DomainLock
  and decide with it what is visible.
* `create_project_binding` writes the scenario registry first and its own table
  second, in two transactions.
* The knowledge hub puts the content of a version into the *object store* before it adds
  the row, and the semantic runtime reads it back from there.

### What is hard here

* **Check, then commit elsewhere.** Legality of a transition, the current lock,
  health of what is pinned, state of the scope: all are read in one transaction
  and used in a later one.
* **Optimistic concurrency.** `If-Match` is compared with the row when it is
  locked, not with the record that was judged.
* **Idempotency.** Keys are looked up at the start and again at the commit; a
  retry can race its original; a key can be spent on something someone else did.
* **Terminal states** (`WITHDRAWN`, `REVOKED`, `LOGICALLY_UNINSTALLED`) must stay
  terminal whatever was in flight.
* **Dying threads** leave a request after any of its transactions.
* **Reading piece by piece.** A context is put together from many reads of a moving
  registry and stored at the end.
* **Files.** A put is four system calls on a name that others share.
* **Backtracking** over version ranges with conflicts and budgets, judged at the end.

`PROJECT.json` lists each hazard at its line, with the properties that would
notice it, or why none does.

## 2. Plan

Modules in the order of what a mistake in them would cost. All of them are here.

1. `DomainRegistry`, the requests of the domain registry as transactions; checked.
2. `AtomicRegistry`, what those requests promise, and the refinement of it by 1; checked
   and proved.
3. `DomainRegistryProofs`, `DomainRegistryKeys`: the theorems of 1 and 2.
4. `ScenarioLifecycle` with `ScenarioProofs`: ScenarioPackages, their releases and
   lost updates.
5. `IdentityAccess` with `IdentityProofs`: Organizations, Workspaces, Projects and
   Memberships with version columns and keys.
6. `ProjectBinding` with `ProjectBindingProofs`, which composes bindings of Projects with 4 and is
   proved to implement it; the first module with fairness.
7. `Resolver`: `resolve` step by step against a definition of what a selection has to
   be, over every small registry.
8. `KnowledgeContext` with `KnowledgeProofs`: governed content, and the contexts, answers and
   reports that are derived from it over the DomainLocks of 2.
9. `ObjectStore` with `ObjectStoreProofs`: the file store under 8.

Left for later, in this order: the decisions of the services on requests to the domain and scenario
registries as actions with an actor (today a refused request is no step); `verify_dependency_lock` and the
issues of the resolver; the searches of the knowledge hub and the semantic runtime and what they conceal
from other Organizations; the rules of manifest validation as operators with a reference definition.

## 3. The modules and the code

### `DomainRegistry`

State: the four tables as functions from identities to rows or `None`
(`packages`, `installations`, `locks`; `idempotency` as a set of records), the audit
events per subject in commit order, the scopes that have been archived, and what
each request thread holds between two transactions (`handler`).

Rows keep what decisions read: content digest, governance state, version, owner,
root and node set, predecessor, lock status. Digests are compared, never computed:
an equal digest is an equal value. `Owner`, `OrganizationOf` and `Resolutions`
(what the resolver may answer for a root) are constants.

| actions | code |
|---|---|
| `BeginRegister`, `AddPackageVersion` | `register_package_version`; `add_package_version` |
| `BeginGovernPackage`, `SavePackageVersion` | `transition_package_version`; `save_package_version` |
| `BeginInstall`, `LookUpInstallation`, `AddInstallation` | `create_installation` with its preview; `get_installation_by_lock`; `add_installation` |
| `BeginGovernInstallation`, `CheckNoCurrentLock`, `SaveInstallation` | `transition_installation`; `current_lock_exists_for_installation`; `save_installation` |
| `BeginSwitch`, `ReadCurrentLock`, `SwitchProjectDomainLock` | `create_project_domain_lock`; `get_current_project_domain_lock`; `switch_project_domain_lock` |
| `Bind` | `bind_idempotent_resource`: nothing changes, the key is spent |
| `Abandon` | every way to end late without effect: replay or conflict at the commit, a constraint violation that rolls back, a dead thread |
| `ArchiveScope` | the identity service archives a Project or what is above it |

A `Begin` action joins the reads and checks of a request up to the first thing that
another request could change behind its back. This loses no outcome because what
they read only moves one way: a version that is not `REGISTERED_VALIDATED` never is
again, an archived scope never is `ACTIVE` again, a key never becomes free. (For
versions and installations that is what the two halves of `AuditsAreHistories` say. It is
proved for `IfMatchAhead = 0`, which all runs use; that they never are what they were first again,
for any.) A request that is refused there leaves no trace
and is no step. A committing action is one transaction: look the key up again, compare the
version or the current lock, write row, audit event and idempotency record together.

`FOR UPDATE` on the `CURRENT` lock row: under READ COMMITTED, a waiting switch
re-evaluates its condition on the row that another one superseded, finds none, and
answers with a conflict. `StillCurrent` refuses the same switches. With no current row
there is nothing to lock, and the partial unique index decides.

`IfMatchAhead` says how far the version in an `If-Match` header may be ahead of
the record. The route accepts every positive integer
(`src/forgeops/domain_registry_api.py:70-89`). A client that sends back a version it
was given has `IfMatchAhead = 0`.

The registry state `LOGICALLY_UNINSTALLED` of a package version and the lock status `REVOKED`
exist in the enumerations, but no code path reaches them, and neither does the model.

### `AtomicRegistry`

What a client may rely on: every request that succeeds takes effect in one step,
legally, on the state at that moment. It has no threads, keys, versions or lock rows. A
Project has a sequence of selected installations, which is the chain of its locks.
`DomainRegistry` instantiates it (`Atomic`) with three views of its own
state: rows without version, and `SelectionsView`, the installations of the locks
that the audit says were created, in order. Health of package versions and of the installation
at that moment is *not* part of the promise, because the code does not keep it: a package version may be
withdrawn between the check of a switch and its commit, as a switch may commit between the two
halves of an uninstall (`UninstallRace`). `UseSettles` and `CurrentLocksProtect` say what is kept of the two
guards however requests race: who commits too late was in flight already, and a `CURRENT` lock keeps off every uninstall that
has not asked before it was there.

### `ScenarioLifecycle`

State: one row per package version (lifecycle state, permissions asked for and granted, bindings,
uninstalled flag), an EnvironmentRelease per package and environment, the set
of audited operations, and the handlers. There are no versions and no row locks in this part of the
code. An operation works on a *copy* of the record it read:

| actions | code |
|---|---|
| `BeginInstall`, `AddInstallation` | `install`; `SqlInstallationRepository.add` |
| `Begin` | the start of `mark_tested`, `approve`, `grant_permissions`, `bind`, `release`, `enable`, `disable`, `revoke`, `uninstall` up to their first write |
| `ReadRelease`, `AddRelease`, `SaveRelease` | `get_release`; `add_release`; `save_release` |
| `LoadRow`, `UpdateRow` | `save`: `session.get` without a lock, then an `UPDATE` of the columns whose value changed |
| `AppendAudit` | `_append_audit`, a transaction of its own |
| `UninstallAgain`, replays | answered with the record, and audited |
| `Answer` | the response leaves; the operation is over |
| `Collide`, `Die` | a unique constraint; the death of a thread, before the steps in `DyingSteps` |

A grant is all or nothing: it has to match the manifest, which may ask for no permission at all, so that
nothing has to be granted (`Granted`). Manifest validation, the adapter policy and a digest conflict are refusals
without a trace. The references an operation "bind" adds are the constant `ProjectRefs`:
`project://` references come through the identity service and are part of `ProjectBinding`.

### `IdentityAccess`

State: `scopes`, one row per Organization, Workspace and Project (state and version);
`memberships`, one row per grant (state, version, who granted it); `keys`, the
idempotency records; `audit`, the set of events (a scope with the version it reached, a Membership with
its state); and the handlers.

| actions | code |
|---|---|
| `BeginCreate`, `AddScope` | `create_organization`, `create_workspace`, `create_project`; `add_organization_with_owner`, `add_workspace`, `add_project` |
| `BeginChange`, `SaveScope` | `update_*`, `archive_*`, `activate_project`; `save_*` through `_optimistic_update` |
| `BeginGrant`, `AddMembership` | `create_membership`; `add_membership` |
| `BeginWithdraw`, `CountOwners`, `SaveMembership` | `transition_membership`; `count_active_org_owners`; `save_membership` with its second count under row locks |
| `Replay` | the key was used before: the repository answers with that resource, which the service audits |
| `AppendAudit` | `_audit_success`, `_audit_event`: a transaction after the change |
| `Abandon` | a conflict of version, key, slug or owners; a thread that dies |

The authentication of a request and its reads are joined in the `Begin` step. The model is
therefore slightly fresher than the code: between the Memberships and the row there
may be a commit of somebody else. The properties allow what was read to be out of date by
the time of the commit, so they lose nothing by it; "in flight" in `ArchivedSubtreesSettle`
means from the read of the ancestors on, which is the `Begin` step. An `Idempotency-Key` that
the client leaves out is generated (`src/forgeops/identity_api.py:96-97`), which in the model
is a key of `Keys` that nobody has used.

`Grants` lists the Memberships that anybody may ask for; the unique constraints on
`memberships` make each of them one row. `RolePermissions` has the permissions of the
operations that are modelled. `ExpectedAhead` is for `expectedVersion` what `IfMatchAhead` is
above: the body field accepts every positive integer, and the service judges the
row it read, not the version it was told. The runs and the theorem about `NothingIsRevived` take it as 0.

The owners are counted with `FOR UPDATE` inside the transaction, so two
withdrawals in one Organization are served one after the other, or one of them is
rolled back as a deadlock victim; `MayLeave` in `SaveMembership` is that count. SQLite has no
row locks; the model is of the target database.

### `ProjectBinding`

Extends `ScenarioLifecycle`: the state is that of the packages and, in addition, `bindings`
(one row per Project and package: a unique constraint), `bindingOf` (what each
idempotency key names), the audit events, the archived Projects, and what a thread has still
to do for its request on bindings (`request`).

| actions | code |
|---|---|
| `BeginBinding` | `create_project_binding` up to its first write: Project writable, package bindable, no binding yet |
| `BindPackage` | `bind_project`: reads the package again and hands the copy to `save`, which is `LoadRow`, `UpdateRow` and `AppendAudit` of `ScenarioLifecycle` in the same thread |
| `AddBinding`, `ReplayBinding` | `add_project_binding`: with a new key, or with one that was used before, whose binding is the answer |
| `BeginDisable`, `SaveBinding` | `disable_project_binding`; `save_project_binding` with its version |
| `AuditBinding` | the audit event, a transaction of its own |
| `RefuseBinding`, `DieBinding` | a unique constraint or a version in the way; the death of a thread |
| `ArchiveProject` | a Project, or what is above it, is archived meanwhile |

All other requests on packages are those of `ScenarioLifecycle`, in the same threads. Nothing keeps two
threads from being at work on one package at once, and the lost updates of that module (run `RevokeRace`) then
take references away as well. `raced` remembers of which packages that has happened; no step reads it, and the
properties that relate bindings, rows and answers speak of the others. In the code the `Contention` at a package is
"any", which is what the theorems allow; the runs take "once", where nobody takes up work on a package that
has been raced for, since the properties say no more of it.

An ACTIVE binding is answered at once and a disabled one is refused: neither is a step.
A key has no request that it stands for in this table, so any binding the key names is the answer.
The keys are those of one actor: the table has them per actor and operation.

### `KnowledgeContext`

State: package versions, installations and selections as in `AtomicRegistry`, whose
operations are the environment here (`GovernPackageVersion`, `GovernInstallation`,
`SelectLock`); that the transactions of the domain registry amount to it is
`RegistryIsAtomic`. A lock is the place of a selection in the sequence of its Project.
Then `assets`, `contents` (semantic payloads and knowledge versions: both belong to a package version
of kind COMPONENT, and a unique constraint allows each package version one), `objects`, `manifests`,
`results`, `reports`, the idempotency records `keys`, `audit` and the handlers.

A row is its status, version and Organization. What a content *defines* cannot change, because
it is compared with the digest the package pins: the constant `Entries` lists terms,
concepts, relations, constraints, mappings and knowledge, each with the tokens it
answers to, its period and its purposes (`times`, `purposes`). `Length` stands for the
canonical serialization.

| actions | code |
|---|---|
| `BeginAsset`, `AddAsset` | `create_asset`; `add_knowledge_asset` |
| `BeginPayload`, `AddContent`, `Bind` | `register_payload`; `add_semantic_payload`, or `bind_idempotent_resource` if the payload exists |
| `BeginVersion`, `PutObject`, `AddContent` | `register_version`: the object first, then `add_knowledge_version` |
| `BeginTransition`, `SaveContent`, `Bind` | `transition_payload`, `transition_version`; `save_*`, or the key only, if the row is in that state |
| `BeginCompile` | `compile_context`: the current lock, its health, the state of the Project |
| `Read` | one item of the request: a term (of least priority, one or none), the concept of a term that was found, a semantic id, a mapping, a knowledge version with its object |
| `AddManifest`, `ReuseManifest` | `add_context_manifest` after the budget was applied; the manifest of the same actor, lock and request is the answer if there is one |
| `BeginGrounding`, `AddResult` | `validate_grounding`; `add_grounding_result` |
| `BeginImpact`, `Scan`, `AddReport` | `analyze_impact`, one look-up for each of the two packages; `add_impact_report` |
| `Replay` | a key that names this very request: the resource is the answer, and is audited again |
| `AppendAudit`, `Abandon` | the audit event in its own transaction; a conflict, a missing object, a dead thread |

A request that is refused before it holds anything is no step. The checks before the first
read of content in `compile_context` are joined (`BeginCompile`): lock, health and
Project; the properties allow all three to be out of date by the commit. `IfMatchAhead` is what it is in
`DomainRegistry`: a transition comes with any version up to so far past the row that was judged, and is compared at the commit. Of
knowledge there is no platform-owned asset, of semantic payloads there is.

### `ObjectStore`

`put` system call by system call: `exists`, `open` (which truncates), `write`, `chmod`,
`replace`. `target` and `temporary` are the directory entries, `data` and `readonly` the files, so
that one who has a file open writes to it whatever its name has become. A part of a content
counts as no content. `Privileged` processes may open a read-only file, others fail on it.
`KnowledgeContext` uses of this only that an object that was stored is there, which is
`StoredContentIsWhole`.

### `Resolver`

`agenda` holds the calls of `_search` that are still to be made, the next one first: a step
takes the first call and puts in its place the calls it leads to (`Skip`, `Reuse`,
`Choose`) or none (`Refuse`, `RefuseGraph`); `Accept` and `GiveUp` end the search. Versions are
numbers and constraints intervals of them, which is what is left of PEP 440 ranges once
the candidates are sorted. What else a reference may expect of a manifest (a Component kind, a capability, a
digest) is one set, `expects`, of capabilities and other traits. A budget has the fields of
`RequestedResourceBudget`: three that add up, the time, of which the longest counts, and `access`, which is the network
and the secrets. `ValidGraph` is `_validate_graph` with its seven rules, as the code
decides them, by walks over the edges. `_find_cycle` and `_transitive_visibility_issues` are pure; what they
answer is given by `Reached`, which follows the edges in as many rounds as there are edges.

`_topological_order` is a second depth-first search, over the call that was accepted (`found`). `trail` holds the open
calls of `visit`, the innermost last, and `ordered` the packages that have been left: `Visit` goes
on to the least child not yet seen, `Leave` appends the package to the order. The code then repeats this for
every package; that none is left after the root's visit is a claim of `DependenciesComeFirst`, not a step.
`BuildLock` is `_build_lock`. `Raise` is the end without an answer: a sum of budgets is validated as the budget
of one package is (`_aggregate_budget` builds a `RequestedResourceBudget`), a sum past the bound of its field is a
`ValidationError`, and nobody catches it. It may come in the middle of the search, on a selection that would have
been refused for its budget.

The reference is stated without the search: `Admissible` quantifies over sets
of packages where the code walks (a cycle is a set each of whose members depends on another;
what is reached is the smallest closed set), and over all selections from the
registry where the code backtracks. `Strict` marks the selections in which no optional dependency
is left out although another version of it is selected; see §4. That nothing is missed and nothing is better is claimed
for these selections, and of searches that end with an answer.

### MC modules and wrong variants

The MC modules only define values of constants and the
symmetry sets. A definition named `Faulty...` stands right before the one it is a
wrong variant of: the same code with a plausible bug (a dropped guard, last writer
wins, a forgotten key). No specification uses them. Every property is violated when
the variant listed for it under "mutants" in `PROJECT.json` takes the place of the
original, which shows that the property can see that part of the code.

## 4. The runs

| run | instance | what it shows | distinct states |
|---|---|---|---|
| `DomainLocks` | 2 threads, 2 Organizations, a private Component, 1 Project, 2 installations, 3 locks, 3 keys | racing first locks, switches to and fro and retries leave one CURRENT lock and one line of predecessors; a key answers for one request; nothing crosses the tenant boundary | 0.77 M (up to symmetry) |
| `Atomic` | 2 threads, every kind of request, 1 version, 2 installations, 2 locks, 2 keys, a Project that may be archived | the interleaved transactions implement `AtomicRegistry` (which has no duplicate installations); audit events are legal histories; no effect without its key; what is withdrawn or revoked goes out of use with the last request in flight; a CURRENT lock keeps its installation from being uninstalled, but for an uninstall that had asked before | 1.3 M (up to symmetry) |
| `PackageRequests` | 2 threads that may die anywhere but between a save and its audit event, 1 package, 1 environment, all operations | what survives lost updates: every released package has a release, every state its audit event; revocation and uninstall last once no older copy is left to be saved | 9.0 M (up to symmetry) |
| `Hierarchy` | 2 threads, an Organization with a Workspace and a Project, 2 principals, 4 grants, 1 key, versions to 2, no deaths | an Organization keeps an owner, grants go back to authority, keys name one resource, what is archived or revoked stays so, archived subtrees come to rest, changes are audited | 1.8 M (up to symmetry) |
| `Bindings` | 2 threads that may die anywhere, 1 package, 1 environment, 2 Projects (one may be archived), 2 keys | every binding has its key; as long as the threads were not at work on the package at once, bindings and references agree, rows are self-consistent, answers are true, and a revocation or an uninstall lasts | 3.5 M |
| `BindingProgress` | the same with a manifest that asks for nothing, and deaths before the audit event only | what has begun to write ends | 0.77 M |
| `Context` | 2 threads that may die anywhere, a glossary and a note, 2 installations (only one has the note), 2 locks, 5 used keys, one thing taken away | contexts and answers are traceable, one manifest per request, no effect without its key, objects come first, audit tells what happened, withdrawal is final, locks at risk get nothing | 0.93 M (up to symmetry) |
| `Resolution` | all 4096 registries that can be made of 12 manifests of 4 packages, with and without optional dependencies | locks are admissible, nothing admissible and `Strict` is missed or better, dependencies come first, the search ends | 0.04 M |
| `Objects` | 2 threads that may die anywhere, 2 contents, puts of one content at once | what was stored is whole as long as no two puts of it overlapped; addresses come to rest with the last writer | 0.18 M |

The nine passing runs fire every action of the models. The type invariants, "one CURRENT lock" (`OneCurrentLock`),
"what a lock pins is never rewritten" (`FactsAreImmutable`) and "no duplicate installations" (`NoDuplicateInstallation`) were checked in these instances while the
models were written; they are theorems now (§6) and no run repeats them.

Why the bounds are enough: a race of the code is between what one request read
and what another one committed, so two threads suffice for each of them; a third would
only repeat it. Two installations are needed to switch between, three locks for a chain
with a middle, two keys for a retry next to a fresh request. The tenant boundary needs
two Organizations, and a Component that only one of them may see. `Keys` also bounds
the number of requests that take effect: three of each action key in `DomainLocks`, and in
`Atomic`, where every governance target has its own keys, enough to walk every path of the
transition graph of package versions, and every path of that of installations but the ones through `DISABLED`,
which `Atomic` leaves out (`UninstallRace` has it as a target). Identities that run out only make a run end. In `Hierarchy` the four grants are the
operator of the platform, two owners of the Organization (so that they can withdraw each
other at once) and an owner of the Project (so that authority can come from below the
Organization). One key is enough for a second request to collide with the first, of
another kind or of the same; versions reach 2 because every race is about two writes to
one row.

`Bindings` and `BindingProgress` have two Projects so that a key can name another binding than the one it comes with, and so
that there are two references for one row. In `Bindings` the race that ends what is said of a package, and what its two threads were
about then, is in the instance up to their last step. `BindingProgress` is smaller because its property is checked on strongly
connected components. The audit variable is left out of the VIEW of both: no guard
reads it, and none of their properties does.

In `Context`, `KeysFor` gives every operation one key, and two to compilations and withdrawals of
payloads, the requests that race with themselves. `MaxKeys = 5` lets no new request begin once five
effects have happened, while those that have begun may still commit. A context with a term and a note takes
six (the asset, two registrations, two publications, the manifest): its compilation begins before the
last publication and reads after it. A term alone takes three, and leaves room for a second manifest, an answer, a report or a
withdrawal.
`MaxTroubles = 1` allows one package withdrawn, one installation disabled or one Project archived
in a behaviour (`Governed`, `Archivable`), `MaxLocks = 2` one switch. `Comparisons`,
`Candidates` and `ContextRequests` have one element each: what matters is when they are asked. `Audited` keeps only the events of
withdrawals, the ones the property tells apart. All these bounds are constants
of the module, and the theorems of §6 hold for any value of them.

The pool of `Resolution` has, for each rule of `_validate_graph`, a manifest that breaks it in some
registries and not in others (of the budget, each kind of field, and a sum past its bound), a reference that expects a trait, a cycle through an optional dependency, two manifests of one
version, and higher versions that fail late, so that the search has to go back across packages. Every subset of
the pool is a registry.

### What disagrees with the documents

Each of these runs checks one property and finds a counterexample:

| run | what happens |
|---|---|
| `UninstallRace` | an uninstall asks for a CURRENT lock, a switch commits, the uninstall commits: a current lock on a `LOGICALLY_UNINSTALLED` installation (`EPIC-02.6B:50` says it is blocked) |
| `RevokeRace` | an operation that read a package before its revocation saves its copy after it: `REVOKED` is gone (ADR 0003 says it is terminal) |
| `TornObject` | two threads put the same content at once: the first renames the shared temporary file to the address while the second has it open; its truncation reaches the stored object (the class promises "immutable content addressing") |

The models contain more disagreements, which have no run of their own:

* A package version is withdrawn, or a Project archived, between the checks of a lock switch and its commit; the cause is
  that of `UninstallRace`: the guard reads what the commit does not read again.
* An `If-Match` that names the next version (`IfMatchAhead = 1`): legality is decided on the record
  that was read, the version compared with the one another request has left, and a `WITHDRAWN` version
  is `QUARANTINED` again. The content of the knowledge hub and the semantic runtime has the same hole
(`semantic_knowledge_repository.py:136,297`): with `IfMatchAhead = 1`, TLC finds `WithdrawalIsFinal` and
`AuditTellsWhatHappened` violated in the instance of `Context`, and the other six properties of that run hold.
* A thread dies between the two transactions of a package revocation; a later `disable`
  overwrites the `REVOKED` release.
* A disabled package is released to its environment again, as the transition table allows; the
  request is answered with the old release and the package stays `DISABLED`.
* A Membership is granted on a Project under an archived Workspace: of the ancestors, `create_membership`
  looks only at the Organization (`EPIC-02.5:21`: "Archived ancestors block descendant writes.").
* A package is uninstalled between `bind_project` and `add_project_binding`, and the binding is added
  (`EPIC-02.5:46`: "Revoked or logically uninstalled packages cannot receive new bindings").
* An idempotency key of one binding is sent with another Project or package: the package is bound,
  and the other binding is the answer. A disabled binding leaves its reference on the package.
* An optional dependency that no candidate matches is skipped, but if another version of that
  package was selected before, for somebody else, the selection is refused; if it is selected
  afterwards, it is not. ADR 0006 says "a missing or range-incompatible optional candidate
  is recorded as skipped". `NothingIsMissed` and `NothingIsBetter` are stated for `Strict` selections, which
  are those where the order does not matter.
* Budgets that are valid one by one may add up past what a budget may be (16 000 CPU millis, for instance). The
  resolution then ends with an exception, although another version might have fitted (`Raise`).
* A put that dies after its `chmod` leaves a read-only temporary file, on which every later put of that
  content by an unprivileged process fails.

## 5. Progress and fairness

Most of this code promises no progress: a request thread may die between any two transactions and
nobody takes its work up again; there is no retry, queue, lease or background job (the
worker has no jobs yet). What a client can rely on after an error is a safety property:
`EffectsAreKeyed` with `KeysAnswerForOneRequest` says that a retry under
the same key finds what happened.

Two specifications state fairness. `BindingSpec` has weak fairness of `ContinueRequest(h)` for every
thread: the pool's threads are scheduled by the operating system, each step of a request is
a transaction that waits for nobody for longer than one other transaction, and a conflict is an
answer, not a wait. A thread that dies is not in the middle of anything any more. Nothing is assumed
of new requests, nor of the other threads. `WritesEnd` then says that no request
hangs after it has begun to write: in the step "add", either the key is new and the row is not there, or the
key names a binding, or the row is there; a case without a step would be a request without an answer.
`Resolver!Spec` has weak fairness of `Next`: it is one function call, which runs on. `Terminates` is a
property of the algorithm, since packages may depend on each other in circles and the agenda
grows.

Nobody waits for anybody in the models, as row locks are held for one transaction
only. `PackageRequests`, `Bindings` and `BindingProgress` check for deadlock, and so does `Objects`. The other runs
set `CHECK_DEADLOCK FALSE` because their identities, keys and versions run out, or the resolution is over,
after which the system has nothing to do.

## 6. The proofs

All theorems are for every value of the constants that satisfies the named
assumptions: any number of versions, installations, locks, Projects, threads and keys.

`DomainRegistryProofs`, from `ConstantsAssumption`:

* `TypeCorrect`: `Spec => []TypeOK`. `TypeOK` is inductive. The one subtle conjunct is
  that `Work` in step "bind" holds a resource: a spent key always names one.
* `PinnedFactsNeverChange`: `Spec => FactsAreImmutable`, by `StepsOnlyAdvance`: every step only
  adds rows or moves a version forward, and a lock from CURRENT to SUPERSEDED.
* `DomainLocksFormAChain`: `Spec => [](LockAuditIsTheChain /\ OneCurrentLock)`. "One
  CURRENT lock" is not inductive: a second one would appear if the
  lock a switch supersedes were not the last of the line. The chain is the
  strengthening: the audited locks of a Project are in one line whose last one, and no
  other, is CURRENT; a commit passes `StillCurrent` only if its predecessor is that last
  one. It does not matter what the handlers have read, so no
  assumption on `If-Match` is needed.

`DomainRegistryProofs`, also from `IfMatchAhead = 0`:

* `ChecksOutliveReads` and `AuditIsHistory`. What a handler checked at its first read has to
  be related to the row at its commit. `Backed*` does: the transition is legal on the
  row *as long as its version is the expected one*, and the version never falls, so either
  the check still holds or `Unmoved` refuses. `RegistryInv`, the conjunction with `TypeOK` and
  the two histories, is inductive. With `IfMatchAhead > 0` the first step fails: the row may have become the expected
  version after it was judged (see the disagreements of §4).
* `RegistryIsAtomic`: `Spec => ImplementsAtomicRegistry`. Each committing transaction
  is one step of `AtomicRegistry`; every other step leaves the three views alone. The
  chain gives that the selection in effect is the predecessor the switch compared.

`ScenarioProofs`:

* `LifecycleTypeCorrect` and `ReleasesAreThere`, with and without deaths. The strengthening
  (`LifecycleInv`) is about the copies: a handler that is about to save a copy in a
  released state is on a package that already has a release (`Sound`). Releases are never
  deleted, so a stale copy cannot bring back a released state without one.
* `AuditFollows`: `Spec => []StatesAreAudited`, if no thread dies between a save and its audit event
  (`"audit" \notin DyingSteps`); deaths elsewhere do no harm. Again the copies carry the
  induction: a copy in the state of an operation other than its own was read from a row that
  was in that state, so that operation is accounted for already (`CopiesAreAccounted`),
  and saving the copy late brings back only a state that was audited. With a death at that point the
  theorem is false, a limit that `docs/adrs/0008` records for this repository.
* `PackagesComeToRest`: `Spec => PackagesSettle`, with deaths anywhere. A copy still to be saved was made of the row as
  it is, or was there before (`UnsavedComeFrom`); no operation makes a copy of a revoked row that is not revoked, and
  none at all of an uninstalled one (`CopiesStayGood`); and a row written column by column with a copy
  that is revoked or uninstalled as well stays so (`WrittenStaysGood`). It bounds what `RevokeRace` shows: a
  revocation can be undone as long as a copy is left to be saved that is not revoked itself, and no longer.

`IdentityProofs`, from `HierarchyAssumption`, `GrantsAssumption` and `BoundsAssumption`:

* `IdentityTypeCorrect`, `OwnersRemain`, `KeysAreUnambiguous` and `AuthorityIsPassedOn` are four
  conjuncts of one inductive invariant, `IdentityInv`. None of the last three is inductive alone.
  The strengthening is `HandlersAreSound` and `MembershipsHaveScopes`. A handler about to commit a grant holds an
  actor who *has been granted* the management of the scope (`Source`); Membership rows are never
  deleted, so this survives a revocation in between. A Membership on a scope implies
  that the scope exists, so the owner who is added with a new Organization overwrites nobody. The owner
  invariant itself rests on `MayLeave`: the count before the transaction plays no part in the proof,
  just as it would not protect anything.
* `SealedSubtreesSettle`: a step that puts a handler before the commit on a scope, or changes
  the scope, either read all ancestors `ACTIVE` or was there before.
* `WithdrawalIsForGood`, also from `ExpectedAhead = 0`: as in the domain registry, what a
  handler judged is still in the row, or the version is past the expected one (`ReadsAreCurrent`).
* `ChangesAreRecorded`, also from `~MayDie`: a step that writes a row leaves its handler with the event of
  that very version or state (`WritesAreReported`), and a handler only loses it to the audit
  (`ReportsStay`).

`KnowledgeProofs`, from `ContentAssumption`, `RequestAssumption` and `BoundsAssumption`, with and without deaths: `TypeOK` and all eight properties
of the run `Context`, for any number of threads, keys, locks, entries and requests. `AuditIsTrue` and `WithdrawalStaysFinal` also
need `IfMatchAhead = 0`; the others hold whatever the `If-Match`. One
inductive invariant, `IInv`, carries the invariants, and its step the two action properties:

* What lasts is `Grows`: selections are only appended to, an installation never gets other refs, objects and
  manifests are never deleted, and a row's version never falls. So
  `Traceable`, once true of an entry and a manifest, stays true; and this is why it says
  "was published at some time" and not "is published".
* The *version tells of the past* (`ContentsSound`): a PUBLISHED row has been saved, and one that was saved
  twice has been PUBLISHED, if no `If-Match` runs ahead (a row withdrawn twice looks the same). Without it
  "published once" could not be read off a row that has been withdrawn since.
* The drafts carry the induction for manifests (`HandlersSound`): whatever a compilation has read so far is
  traceable for the lock it began with. The budget only takes entries away.
* A row about to be saved was judged on the row that is there, or on one that is there no more (`Judged`);
  in the second case `Unmoved` refuses. This needs `IfMatchAhead = 0`, and gives `WithdrawalStaysFinal`.
* A record of a key names a resource that exists (`KeysSound`), so a replay audits what
  happened (`AuditSound`), and a withdrawal that is audited lasts, if no `If-Match` runs ahead.
* `AtRiskLocksStayIdle`: a manifest on a lock comes from a handler that is compiling for it, such a handler
  begins only if the lock is healthy, and neither a withdrawn version nor a disabled
  installation comes back.

`DomainRegistryKeys`:

* `RetriesAreToldTheTruth`, `NothingIsDoneTwice`, `InstallationsAreUnique`, from `ConstantsAssumption` alone,
  whatever the `If-Match`. The history of a row is not available without an assumption on `If-Match`, but two
  weaker facts are, and carry the induction (`KeyInv`): a row is there exactly when it has audit events, the
  last of which names its state (`AuditsReachTheState`); and a handler about to spend its key without a change
  has found what it asked for, which stays so because events are only appended (`BindsCameAbout`).
* `OrganizationsStayApart`, also from `IfMatchAhead = 0`: what a handler checked at its first read
  (`BackedInstall`, `BackedSwitch`) concerns owners and Organizations, which no step changes, so
  it holds at the commit.
* `LocksProtectInstallations`: `Spec => CurrentLocksProtect`, for any number of threads and whatever the `If-Match`. An
  uninstall comes to its commit only by `CheckNoCurrentLock`, which refuses it while the lock is CURRENT; so none can come there
  before the lock is superseded (`ProtectionStep`). Without the exception for one that is there already, `UninstallRace` refutes it.
* `UseComesToAnEnd`: `Spec => UseSettles`, for any number of threads and whatever the `If-Match`. This is what
  remains of the guards on what a switch or an installation uses when requests race. Two facts carry it: what a handler holds newly
  was good when it was read, what else it holds it held before (`WorkComesFrom`), and a row never comes back to its
  first state (`FirstStatesAreLeft`). So a version out of use, with no request left that read it in time, gets no new
  installation and no new lock, and a retired installation gets no new lock. It bounds what `UninstallRace`
  shows: only a switch that began while the installation was `INSTALLED_DISABLED` can get past the uninstall.

`ProjectBindingProofs`, with threads that die anywhere:

* `BindingTypeCorrect` and `BindingsKeepTheirKeys`, for any number of threads inside either registry. The
  requests on bindings only do to packages what a thread of `ScenarioLifecycle` may do
  (`LifecycleInv`), and a thread only saves a binding that it has read (`RequestsAreSound`).
* `PackagesReferBack`, `RowsStayConsistent`, `AnswersStayTrue` and `TerminalStatesAreFinal`, for any number of threads:
  of a package that no two of them were at work on at once so far (`raced`). The copy of the one thread that is at work on such
  a package may then take the place of the row as it is now (`Faithful`, `Follows`), so
  rows only advance (`RowsAdvance`). A binding about to be added, or added already, is one whose reference the
  package holds until it is uninstalled (`BindingsAreBacked`, `RequestsAreBacked`); neither a
  death nor a race on the bindings takes it away. Of a package that was raced for, `RevokeRace` refutes the last; see
  `PackagesComeToRest` for what holds then.
* `BindingsImplementLifecycle`: `BindingSpec => Packages!Spec`, where `Packages` is `ScenarioLifecycle` with its proofs,
  without Projects of its own (`ProjectRefs <- {}`: a `bind` may then bind any reference) and with threads that may die
  at every step. `bind_project` begins where a `bind` begins, provided the thread is not at work on another operation
  (`BindsAreIdle`), and goes through the same steps; a request that dies between two of its own writes stutters or
  loses a thread of the lifecycle; everything else on bindings stutters. This is for any number of threads, dying or not,
  so what is proved of the lifecycle alone carries over, as `BoundPackagesComeToRest` does for
  `PackagesSettle`. (`AuditFollows` does not: a request that may die while `bind_project` is under way may die
  before its audit event.) TLC found the refinement to hold on the instance of the run `Bindings` before it was proved.

`ObjectStoreProofs`, with deaths anywhere and any number of threads at the same content: `TypeCorrect`,
`StoredStaysWhole` and `AddressesComeToRest`. Of a content whose puts have never overlapped
(`overlapped`), what is at its address is whole, a file goes by one name, and a put that has opened its temporary file
finds it there, whole from its `chmod` on, even if the file was left by a put that died (`StoreInv`). Where puts do
overlap, `TornObject` shows the address change; the third theorem bounds it: an address changes only
while a put is at work that has found it free.

`ResolverProofs`, from `ResolverAssumption`: any root, and any finite set of candidates. The two searches are
proved against a reference that knows neither.

* `TypeCorrect` and `LocksAreSound`: `Spec => []LocksAreAdmissible`. The invariant of the calls is `Sound`: every edge is
  a matched requirement of its parent, every requirement of a selected package is pending, an edge, or one that
  matches nothing or is not wanted. Nothing is pending in an accepted call (`FinishedIsWhole`), and the walks of
  `ValidGraph` are then compared with the quantifiers of `Admissible`: `Reached` is the smallest closed
  set (`ReachedIsClosed`, `ReachedIsLeast`), since a walk that grows in every round has more edges behind it than
  there are (`WalkRounds`), and no package reaches itself exactly if no part of the selection feeds itself
  (`AcyclicIsNoCycle`, which takes a package that reaches as little as any, and `NoCycleIsAcyclic`).
* `SearchIsComplete`: `Spec => []NothingIsMissed`, of `Strict` selections. As long as nothing is found, every admissible `Strict` selection is an
  extension of some call in the agenda (`NothingIsDropped`): the step that takes the call
  away puts another in its place that this selection still extends (`SkipReplaces`, `ReuseReplaces`, `ChooseReplaces`), or
  there is no such selection. That it is `Strict` is needed where a version of an optional package has been chosen already.
* `HighestComeFirst`: `Spec => []NothingIsBetter`, of `Strict` selections. The calls in the agenda are ranked (`AgendaIsRanked`): of two calls, the
  earlier one has some package in a higher version than the later one, because the options descend (`OptionsMatch`,
  `DescendingExists`). So nothing that extends a later call is better than what the first one comes to.
* `OrderIsTopological`: `Spec => []DependenciesComeFirst`. `OrderInv` says that the trail is a path from the root, that it
  shares nothing with what has been left, and that whoever was left has all its children left before it. A child on
  the trail would close a cycle, which the accepted graph does not have; when the trail is empty, what has been left
  is closed and holds the root, so it is the whole selection.

## 7. Only model-checked

Every invariant and every action property of the passing runs is also a theorem, some of them under the assumptions named
below. Two properties are not: `WritesEnd` and
`Terminates` are liveness under fairness, which rests on facts about ENABLED and on well-founded orders that are out of the
prover's reach. They stay with TLC, and so does absence of deadlock.

Some theorems hold under an assumption that the runs make too, and that the deployed system does not enforce:
`IfMatchAhead = 0` and `ExpectedAhead = 0` (clients send versions they were given), and no death between
a write and its audit event. §4 and §6 say what happens without each. No theorem assumes that requests are served one at a
time: where the code only keeps its promise to a request that met no other, the property says so of that package, content or
installation.

## 8. Not modelled

* `verify_dependency_lock` (a comparison of digests with what `resolve` builds again), the issues the resolver reports,
  and package visibility of candidates across Organizations before they reach it.
* Queries of the semantic runtime and searches of the knowledge hub: they read and answer. How severe a change
  is (`_semantic_changes`): wording of a report.
* *Authorization* of requests to the domain and scenario registries: a refused request leaves only
  an audit event of the denial. Decisions about the hierarchy are in `IdentityAccess`.
* *Reads* of the hierarchy and what they conceal; names, slugs and descriptions, which an update
  changes without a decision resting on them; principals that the migration seeds as
  `DISABLED`, who can be granted Memberships but never act.
* Refusals in general, and the audit events of denials and previews: they change nothing that
  a later request reads.
* *Manifest validation*, digests, canonical JSON: stateless functions of one document; the
  models take a valid manifest and compare digests as values.
* *HTTP shell, worker, configuration, web console*: routing and I/O.
