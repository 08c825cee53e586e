--------------------------- MODULE KnowledgeContext ---------------------------
(***************************************************************************)
(* Governed semantic payloads and knowledge versions, and what is derived  *)
(* from them for a Project: ContextManifests, grounding results and impact *)
(* reports (KnowledgeHubService and SemanticRuntimeService over            *)
(* SqlSemanticKnowledgeRepository and the object store).                   *)
(*                                                                         *)
(* Both kinds of content are bound to a package version of kind COMPONENT  *)
(* and are named by it: a unique constraint allows one content for each.   *)
(* The package versions, the installations and the DomainLocks are those   *)
(* of AtomicRegistry, which the domain registry implements.                *)
(*                                                                         *)
(* Each repository call is a transaction of its own.  A compilation reads  *)
(* what it asks for piece by piece, and only then adds its manifest.  A    *)
(* request that is refused before it holds anything is no step.            *)
(***************************************************************************)
EXTENDS Naturals, Sequences, FiniteSets

CONSTANTS
  PackageVersions,
  Components,      \* the package versions content can be bound to
  Knowledge,       \* the Components of kind KNOWLEDGE; the others are semantic
  Owner,           \* of each package version: an Organization or Platform
  Organizations, Platform,
  Projects, OrganizationOf,
  InstallationIds,
  Installed,       \* the installations: organization, root, refs, state
  Selected,        \* the installations selected for each Project at the start
  Entries,         \* everything the contents define, as a context refers to it
  Position,        \* of each entry in the canonical order of a manifest
  Length(_),       \* of a set of entries once serialized
  ContextRequests, \* what clients ask for (a bound)
  Comparisons,     \* the pairs of contents clients compare (a bound)
  Candidates,      \* what clients want grounded: ids, entries, wrong ends (a bound)
  Assets,          \* identities of KnowledgeAssets (a bound)
  Keys, ActorOf,   \* Idempotency-Keys in use (a bound), each of one actor
  KeysFor,         \* the keys of each operation (a bound)
  Handlers,        \* request threads (a bound)
  IfMatchAhead,    \* how far an If-Match may run ahead of the stored version
  Governed,        \* what may be withdrawn or disabled, and how (a bound)
  Archivable,      \* Organizations and Projects that may be archived (a bound)
  MaxTroubles,     \* how much is taken away in one behaviour (a bound)
  MaxLocks,        \* DomainLocks of a Project (a bound)
  MaxKeys,         \* after so many requests there are no new ones (a bound)
  Audited,         \* the operations whose audit events are kept (a bound)
  MayDie,          \* whether a thread may die between two transactions
  Idle, None

Contents == PackageVersions  \* a version's content is named by the version

VARIABLES
  registry, installed, selections,  \* of AtomicRegistry
  archived,        \* Organizations and Projects that are no longer ACTIVE
  assets,          \* knowledge_assets: the Organization of each
  contents,        \* semantic_payloads and knowledge_asset_versions
  objects,         \* the Components whose content the object store has
  manifests,       \* context_manifests
  results,         \* grounding_results
  reports,         \* semantic_impact_reports
  keys,            \* semantic_idempotency_records
  audit,           \* audit events of what succeeded
  handler          \* what each request thread holds between transactions

registryVars == <<registry, installed, selections>>
derivedVars == <<manifests, results, reports>>
governedVars == <<assets, contents, objects>>
vars == <<registryVars, archived, governedVars, derivedVars, keys, audit, handler>>

Registry == INSTANCE AtomicRegistry

-------------------------------------------------------------------------------
(* Rows.  A content starts VALIDATED; its definition is the package's.        *)

Statuses == {"VALIDATED", "PUBLISHED", "WITHDRAWN"}
Rows == [status: Statuses, version: Nat \ {0}, organization: Organizations \cup {Platform}]

LifecycleTransitions ==
  {<<"VALIDATED", "PUBLISHED">>, <<"VALIDATED", "WITHDRAWN">>,
   <<"PUBLISHED", "WITHDRAWN">>}

Transitions == {"publish", "withdraw"}
TargetOf == [verb \in Transitions |-> IF verb = "publish" THEN "PUBLISHED" ELSE "WITHDRAWN"]
Verbs == {"create", "register", "compile", "validate", "analyze"} \cup Transitions

KindOf(c) == IF c \in Knowledge THEN "knowledge-version" ELSE "semantic-payload"
Operations ==
  {<<"knowledge-asset", "create">>, <<"context", "compile">>,
   <<"grounding", "validate">>, <<"semantic-impact", "analyze">>}
    \cup {"knowledge-version", "semantic-payload"} \X ({"register"} \cup Transitions)

(* A DomainLock is a place in the line of a Project's selections. *)
Locks == [project: Projects, number: 1..MaxLocks]

(* What a context asks for: a term, a semantic id, a mapping or a citation.   *)
(* "CONCEPT" is asked on behalf of a term that was found.                     *)
Asked == {"TERM", "CONCEPT", "SEMANTIC_ID", "SOURCE_MAPPING", "KNOWLEDGE"}
Items == [type: Asked, token: UNION {e.tokens \cup {e.concept} : e \in Entries}]

Manifests ==
  [actor: {ActorOf[key] : key \in Keys}, lock: Locks, context: ContextRequests,
   included: SUBSET Entries, unclear: SUBSET Items]
Results ==
  [manifest: Manifests, candidate: Candidates,
   status: {"VALID", "INVALID", "NEEDS_CLARIFICATION"}]

Reports ==
  [from: Components, to: Components,
   installations: SUBSET InstallationIds, locks: SUBSET Locks]

PackageStates == {"REGISTERED_VALIDATED", "QUARANTINED", "WITHDRAWN"}
Installations ==
  [organization: Organizations, root: PackageVersions, refs: SUBSET PackageVersions,
   state: {"INSTALLED_DISABLED", "DISABLED", "REVOKED", "LOGICALLY_UNINSTALLED"}]

Resources ==
  [asset: Assets] \cup [component: Components] \cup [manifest: Manifests]
    \cup [result: Results] \cup [report: Reports]
AssetRequests == [organization: Organizations]
ContentRequests == [component: Components] \cup [component: Components, asset: Assets]
CompileRequests == [lock: Locks, context: ContextRequests]
Requests == AssetRequests \cup ContentRequests \cup CompileRequests \cup Results \cup Reports
Events == [operation: Operations, resource: Resources]

(* What a thread holds between two transactions: the request with its key,    *)
(* the row it is about to write and what it has still to read for it.         *)
Held(steps, operations, requests, drafts, pending) ==
  [step: steps, operation: operations, key: Keys, request: requests, draft: drafts,
   pending: SUBSET pending]

AssetWork ==
  Held({"commit"}, {<<"knowledge-asset", "create">>}, AssetRequests, Organizations, {})
ContentWork ==
  Held({"store", "commit", "bind"},
       {"knowledge-version", "semantic-payload"} \X ({"register"} \cup Transitions),
       ContentRequests, Rows, {})
ContextWork ==
  Held({"read", "commit"}, {<<"context", "compile">>}, CompileRequests, Manifests, Items)
GroundingWork == Held({"commit"}, {<<"grounding", "validate">>}, Results, Results, {})
ImpactWork ==
  Held({"scan", "commit"}, {<<"semantic-impact", "analyze">>}, Reports, Reports, Components)
AuditWork == [step: {"audit"}, event: Events]
Work ==
  AssetWork \cup ContentWork \cup ContextWork \cup GroundingWork \cup ImpactWork
    \cup AuditWork

ASSUME ContentAssumption ==
  /\ Components \subseteq PackageVersions
  /\ Knowledge \subseteq Components
  /\ Owner \in [PackageVersions -> Organizations \cup {Platform}]
  /\ Platform \notin Organizations
  /\ OrganizationOf \in [Projects -> Organizations]
  /\ Installed \in [InstallationIds -> Installations \cup {None}]
  /\ Selected \in [Projects -> Seq(InstallationIds)]
  /\ \A p \in Projects : \A n \in 1..Len(Selected[p]) : Installed[Selected[p][n]] # None

ASSUME RequestAssumption ==
  /\ \A e \in Entries : e.component \in Components
  /\ \A context \in ContextRequests : context.asks \subseteq Items
  /\ ActorOf \in [Keys -> {ActorOf[key] : key \in Keys}]
  /\ KeysFor \in [Operations -> SUBSET Keys]

ASSUME BoundsAssumption ==
  /\ MaxLocks \in Nat
  /\ IfMatchAhead \in Nat
  /\ \A p \in Projects : Len(Selected[p]) <= MaxLocks
  /\ Archivable \subseteq Organizations \cup Projects
  /\ Audited \subseteq Operations
  /\ MayDie \in BOOLEAN
  /\ None \notin Rows \cup Installations \cup Organizations
  /\ Idle \notin Work

Init ==
  /\ registry = [pv \in PackageVersions |->
       [content |-> pv, state |-> "REGISTERED_VALIDATED"]]
  /\ installed = Installed
  /\ selections = Selected
  /\ archived = {}
  /\ assets = [a \in Assets |-> None]
  /\ contents = [c \in Components |-> None]
  /\ objects = {}
  /\ manifests = {}
  /\ results = {}
  /\ reports = {}
  /\ keys = {}
  /\ audit = {}
  /\ handler = [h \in Handlers |-> Idle]

-------------------------------------------------------------------------------
(* What the registry says.  A definition named Faulty... is a wrong variant   *)
(* of the one that follows it.                                                *)

Validated(pv) == registry[pv].state = "REGISTERED_VALIDATED"

CurrentLock(p) == [project |-> p, number |-> Len(selections[p])]
InstallationOf(lock) == installed[selections[lock.project][lock.number]]
Pins(lock) == InstallationOf(lock).refs
Exists(lock) == lock.number <= Len(selections[lock.project])

FaultyHealthy(lock) == InstallationOf(lock).state = "INSTALLED_DISABLED"
Healthy(lock) ==
  /\ InstallationOf(lock).state = "INSTALLED_DISABLED"
  /\ \A pv \in Pins(lock) : Validated(pv)

Writable(p) == p \notin archived /\ OrganizationOf[p] \notin archived

-------------------------------------------------------------------------------
(* Keys are unique per actor and operation and stand for one request.         *)

Found(operation, key) == {k \in keys : k.operation = operation /\ k.key = key}

FaultyFresh(operation, key) == TRUE  \* neither look-up nor unique constraint
Fresh(operation, key) == Found(operation, key) = {}

AddKey(work, resource) ==
  keys' = keys \cup {[operation |-> work.operation, key |-> work.key,
                     request |-> work.request, resource |-> resource]}

-------------------------------------------------------------------------------
(* A handler takes a request, moves on, or is done.  The draft is the row it  *)
(* is about to write, pending what it has still to read for it.               *)

Hold(h, step, operation, key, request, draft, pending) ==
  handler' = [handler EXCEPT ![h] =
    [step |-> step, operation |-> operation, key |-> key, request |-> request,
     draft |-> draft, pending |-> pending]]

Redraft(h, step, draft, pending) ==
  LET work == handler[h] IN
  Hold(h, step, work.operation, work.key, work.request, draft, pending)

At(h, step) == handler[h] # Idle /\ handler[h].step = step

Ready(h, verbs) ==
  /\ At(h, "commit")
  /\ handler[h].operation[2] \in verbs
  /\ handler[h].pending = {}

Report(h, resource) ==
  handler' = [handler EXCEPT ![h] =
    [step |-> "audit",
     event |-> [operation |-> handler[h].operation, resource |-> resource]]]

Finish(h) == handler' = [handler EXCEPT ![h] = Idle]

-------------------------------------------------------------------------------
(* create_asset: the identity is drawn at random, so it is always a new one.  *)

BeginAsset(h, organization, key) ==
  /\ handler[h] = Idle
  /\ organization \notin archived
  /\ Hold(h, "commit", <<"knowledge-asset", "create">>, key,
          [organization |-> organization], organization, {})
  /\ UNCHANGED <<registryVars, archived, governedVars, derivedVars, keys, audit>>

AddAsset(h, a) ==
  LET work == handler[h] IN
  /\ Ready(h, {"create"})
  /\ Fresh(work.operation, work.key)
  /\ assets[a] = None
  /\ assets' = [assets EXCEPT ![a] = work.draft]
  /\ AddKey(work, [asset |-> a])
  /\ Report(h, [asset |-> a])
  /\ UNCHANGED <<registryVars, archived, contents, objects, derivedVars, audit>>

-------------------------------------------------------------------------------
(* register_payload and register_version.  A payload that exists already      *)
(* takes the key and is the answer; knowledge is put into the object store    *)
(* first and added to the database afterwards.                                *)

NewRow(organization) ==
  [status |-> "VALIDATED", version |-> 1, organization |-> organization]

BeginPayload(h, c, key) ==
  /\ handler[h] = Idle
  /\ c \notin Knowledge
  /\ Validated(c)
  /\ Hold(h, IF contents[c] = None THEN "commit" ELSE "bind", <<KindOf(c), "register">>,
          key, [component |-> c], NewRow(Owner[c]), {})
  /\ UNCHANGED <<registryVars, archived, governedVars, derivedVars, keys, audit>>

FaultyFirst == "commit"  \* the row is added without its content
First == "store"

BeginVersion(h, c, a, key) ==
  /\ handler[h] = Idle
  /\ c \in Knowledge
  /\ assets[a] # None
  /\ Validated(c)
  /\ Owner[c] \in {Platform, assets[a]}
  /\ Hold(h, First, <<KindOf(c), "register">>, key, [component |-> c, asset |-> a],
          NewRow(assets[a]), {})
  /\ UNCHANGED <<registryVars, archived, governedVars, derivedVars, keys, audit>>

PutObject(h) ==
  LET work == handler[h] IN
  /\ At(h, "store")
  /\ objects' = objects \cup {work.request.component}
  /\ Redraft(h, "commit", work.draft, {})
  /\ UNCHANGED <<registryVars, archived, assets, contents, derivedVars, keys, audit>>

AddContent(h) ==
  LET work == handler[h]
      c == work.request.component IN
  /\ Ready(h, {"register"})
  /\ Fresh(work.operation, work.key)
  /\ contents[c] = None
  /\ contents' = [contents EXCEPT ![c] = work.draft]
  /\ AddKey(work, [component |-> c])
  /\ Report(h, [component |-> c])
  /\ UNCHANGED <<registryVars, archived, assets, objects, derivedVars, audit>>

(* bind_idempotent_resource: the key is spent, nothing else changes.          *)
Bind(h) ==
  LET work == handler[h] IN
  /\ At(h, "bind")
  /\ Fresh(work.operation, work.key)
  /\ AddKey(work, [component |-> work.request.component])
  /\ Finish(h)
  /\ UNCHANGED <<registryVars, archived, governedVars, derivedVars, audit>>

-------------------------------------------------------------------------------
(* transition_payload and transition_version: the copy that is saved was      *)
(* judged on the row that was read; If-Match is compared at the commit only.  *)
(* A row that is in the target state already only takes the key, and its      *)
(* If-Match is never looked at.                                               *)

FaultyAllowed(row, target) == row.status # target  \* anything but a repetition
Allowed(row, target) == <<row.status, target>> \in LifecycleTransitions

Governable(c) == c \in Knowledge => contents[c].organization \notin archived

BeginTransition(h, c, verb, expected, key) ==
  LET row == contents[c]
      target == TargetOf[verb] IN
  /\ handler[h] = Idle
  /\ row # None
  /\ Governable(c)
  /\ Fresh(<<KindOf(c), verb>>, key)
  /\ \/ Allowed(row, target) /\ expected \in 1..(row.version + IfMatchAhead)
     \/ row.status = target /\ expected = row.version
  /\ Hold(h, IF row.status = target THEN "bind" ELSE "commit", <<KindOf(c), verb>>, key,
          [component |-> c],
          [status |-> target, version |-> expected + 1,
           organization |-> row.organization], {})
  /\ UNCHANGED <<registryVars, archived, governedVars, derivedVars, keys, audit>>

FaultyUnmoved(row, draft) == TRUE  \* last writer wins
Unmoved(row, draft) == row.version + 1 = draft.version

SaveContent(h) ==
  LET work == handler[h]
      c == work.request.component IN
  /\ Ready(h, Transitions)
  /\ Fresh(work.operation, work.key)
  /\ Unmoved(contents[c], work.draft)
  /\ contents' = [contents EXCEPT ![c] = work.draft]
  /\ AddKey(work, [component |-> c])
  /\ Report(h, [component |-> c])
  /\ UNCHANGED <<registryVars, archived, assets, objects, derivedVars, audit>>

-------------------------------------------------------------------------------
(* What a context may cite, and what an item resolves to.                     *)

Published(c) == contents[c] # None /\ contents[c].status = "PUBLISHED"

InTenant(c, p) == contents[c].organization \in {Platform, OrganizationOf[p]}

FaultyUsable(e, lock, context) ==  \* anything that is not withdrawn
  /\ contents[e.component] # None
  /\ contents[e.component].status # "WITHDRAWN"
  /\ e.component \in Pins(lock)
  /\ InTenant(e.component, lock.project)
  /\ context.time \in e.times
  /\ context.purpose \in e.purposes
Usable(e, lock, context) ==
  /\ Published(e.component)
  /\ e.component \in Pins(lock)
  /\ InTenant(e.component, lock.project)
  /\ context.time \in e.times
  /\ context.purpose \in e.purposes

Answering == [type \in Asked |->
  CASE type = "TERM" -> {"TERM"}
    [] type \in {"CONCEPT", "SEMANTIC_ID"} -> {"CONCEPT", "RELATION", "CONSTRAINT"}
    [] type = "SOURCE_MAPPING" -> {"MAPPING"}
    [] type = "KNOWLEDGE" -> {"KNOWLEDGE"}]

Matches(item, lock, context) ==
  {e \in Entries : /\ e.type \in Answering[item.type]
                   /\ item.token \in e.tokens
                   /\ Usable(e, lock, context)}

(* Of a term only the definitions of the least priority count, and it has to  *)
(* be one: there is no guess.                                                 *)
Winners(matches) == {e \in matches : \A other \in matches : e.priority <= other.priority}

(* Terms first, then ids, mappings and citations; a concept right after its   *)
(* term.  Each item is a read of its own.                                     *)
Rank == [type \in Asked |->
  CASE type = "CONCEPT" -> 0 [] type = "TERM" -> 1 [] type = "SEMANTIC_ID" -> 2
    [] type = "SOURCE_MAPPING" -> 3 [] type = "KNOWLEDGE" -> 4]

IsNext(item, pending) ==
  item \in pending /\ \A other \in pending : Rank[item.type] <= Rank[other.type]

Onward(pending) == IF pending = {} THEN "commit" ELSE "read"

BeginCompile(h, p, context, key) ==
  LET lock == CurrentLock(p) IN
  /\ handler[h] = Idle
  /\ Writable(p)
  /\ selections[p] # <<>>
  /\ Healthy(lock)
  /\ Hold(h, Onward(context.asks), <<"context", "compile">>, key, [lock |-> lock, context |-> context],
          [actor |-> ActorOf[key], lock |-> lock, context |-> context,
           included |-> {}, unclear |-> {}],
          context.asks)
  /\ UNCHANGED <<registryVars, archived, governedVars, derivedVars, keys, audit>>

Read(h, item) ==
  LET work == handler[h]
      draft == work.draft
      matches == Matches(item, draft.lock, draft.context)
      rest == work.pending \ {item} IN
  /\ At(h, "read")
  /\ IsNext(item, work.pending)
  /\ \/ /\ item.type # "TERM"
        /\ item.type = "KNOWLEDGE" => \A e \in matches : e.component \in objects
        /\ Redraft(h, Onward(rest), [draft EXCEPT !.included = @ \cup matches], rest)
     \/ /\ item.type = "TERM"
        /\ \E e \in matches :
             /\ Winners(matches) = {e}
             /\ Redraft(h, "read", [draft EXCEPT !.included = @ \cup {e}],
                        rest \cup {[type |-> "CONCEPT", token |-> e.concept]})
     \/ /\ item.type = "TERM"
        /\ \A e \in matches : Winners(matches) # {e}
        /\ Redraft(h, Onward(rest), [draft EXCEPT !.unclear = @ \cup {item}], rest)
  /\ UNCHANGED <<registryVars, archived, governedVars, derivedVars, keys, audit>>

(* In canonical order, what still fits is included and what does not is not.  *)
Fits(e, included, budget) ==
  LET earlier == {other \in included : Position[other] < Position[e]} IN
  /\ Cardinality(earlier) < budget.items
  /\ Length(earlier \cup {e}) <= budget.chars

Same(manifest, draft) ==
  /\ manifest.actor = draft.actor
  /\ manifest.lock = draft.lock
  /\ manifest.context = draft.context

(* add_context_manifest: a manifest of the same actor, lock and request is    *)
(* the answer even if it has other content; the key is spent on it.           *)
FaultyAddManifest(h) ==
  LET work == handler[h] IN
  /\ Ready(h, {"compile"})
  /\ Fresh(work.operation, work.key)
  /\ \E included \in SUBSET work.draft.included :
       LET manifest == [work.draft EXCEPT !.included = included] IN
       /\ \A e \in work.draft.included :
            e \in included <=> Fits(e, included, work.draft.context)
       /\ manifests' = manifests \cup {manifest}
       /\ AddKey(work, [manifest |-> manifest])
       /\ Report(h, [manifest |-> manifest])
  /\ UNCHANGED <<registryVars, archived, governedVars, results, reports, audit>>
AddManifest(h) ==
  LET work == handler[h] IN
  /\ Ready(h, {"compile"})
  /\ Fresh(work.operation, work.key)
  /\ \E included \in SUBSET work.draft.included :
       LET manifest == [work.draft EXCEPT !.included = included] IN
       /\ \A e \in work.draft.included :
            e \in included <=> Fits(e, included, work.draft.context)
       /\ \A other \in manifests : ~Same(other, manifest)
       /\ manifests' = manifests \cup {manifest}
       /\ AddKey(work, [manifest |-> manifest])
       /\ Report(h, [manifest |-> manifest])
  /\ UNCHANGED <<registryVars, archived, governedVars, results, reports, audit>>

ReuseManifest(h) ==
  LET work == handler[h] IN
  /\ Ready(h, {"compile"})
  /\ Fresh(work.operation, work.key)
  /\ \E manifest \in manifests :
       /\ Same(manifest, work.draft)
       /\ AddKey(work, [manifest |-> manifest])
       /\ Report(h, [manifest |-> manifest])
  /\ UNCHANGED <<registryVars, archived, governedVars, derivedVars, audit>>

-------------------------------------------------------------------------------
(* validate_grounding: what an answer names must be in the manifest.  The     *)
(* lock of the manifest need not be current any more.                         *)

FaultyNamed(candidate, manifest) ==  \* citations are taken on trust
  \A id \in candidate.ids : \E e \in manifest.included : e.concept = id
Named(candidate, manifest) ==
  /\ candidate.cites \subseteq manifest.included
  /\ \A id \in candidate.ids : \E e \in manifest.included : e.concept = id

Verdict(candidate, manifest) ==
  IF ~Named(candidate, manifest) \/ candidate.wrongEnds THEN "INVALID"
  ELSE IF manifest.unclear # {} THEN "NEEDS_CLARIFICATION"
  ELSE "VALID"

BeginGrounding(h, manifest, candidate, key) ==
  LET result == [manifest |-> manifest, candidate |-> candidate,
                 status |-> Verdict(candidate, manifest)] IN
  /\ handler[h] = Idle
  /\ Writable(manifest.lock.project)
  /\ Hold(h, "commit", <<"grounding", "validate">>, key, result, result, {})
  /\ UNCHANGED <<registryVars, archived, governedVars, derivedVars, keys, audit>>

AddResult(h) ==
  LET work == handler[h] IN
  /\ Ready(h, {"validate"})
  /\ Fresh(work.operation, work.key)
  /\ results' = results \cup {work.draft}
  /\ AddKey(work, [result |-> work.draft])
  /\ Report(h, [result |-> work.draft])
  /\ UNCHANGED <<registryVars, archived, governedVars, manifests, reports, audit>>

-------------------------------------------------------------------------------
(* analyze_impact: installations and locks, current or not, are looked up for *)
(* one version and then for the other, and are part of what the key stands    *)
(* for.                                                                       *)

BeginImpact(h, from, to, key) ==
  LET report == [from |-> from, to |-> to, installations |-> {}, locks |-> {}] IN
  /\ handler[h] = Idle
  /\ KindOf(from) = KindOf(to)
  /\ contents[from] # None
  /\ contents[to] # None
  /\ contents[from].organization = contents[to].organization
  /\ Hold(h, "scan", <<"semantic-impact", "analyze">>, key, report, report, {from, to})
  /\ UNCHANGED <<registryVars, archived, governedVars, derivedVars, keys, audit>>

LocksOf(c) == {lock \in Locks : Exists(lock) /\ c \in Pins(lock)}
InstallationsOf(c) == {i \in InstallationIds : installed[i] # None /\ c \in installed[i].refs}

Scan(h, c) ==
  LET work == handler[h]
      rest == work.pending \ {c}
      report == [work.draft EXCEPT !.installations = @ \cup InstallationsOf(c),
                                   !.locks = @ \cup LocksOf(c)] IN
  /\ At(h, "scan")
  /\ c \in work.pending
  /\ c = work.draft.to => rest = {}
  /\ Hold(h, IF rest = {} THEN "commit" ELSE "scan", work.operation, work.key, report,
          report, rest)
  /\ UNCHANGED <<registryVars, archived, governedVars, derivedVars, keys, audit>>

AddReport(h) ==
  LET work == handler[h] IN
  /\ Ready(h, {"analyze"})
  /\ Fresh(work.operation, work.key)
  /\ reports' = reports \cup {work.draft}
  /\ AddKey(work, [report |-> work.draft])
  /\ Report(h, [report |-> work.draft])
  /\ UNCHANGED <<registryVars, archived, governedVars, manifests, results, audit>>

-------------------------------------------------------------------------------
(* _find_replay: in each of the transactions above the key comes first.  A    *)
(* repeated request gets the resource the key names, and is audited again.    *)
Replay(h) ==
  LET work == handler[h] IN
  /\ Ready(h, Verbs)
  /\ \E k \in Found(work.operation, work.key) :
       /\ k.request = work.request
       /\ Report(h, k.resource)
  /\ UNCHANGED <<registryVars, archived, governedVars, derivedVars, keys, audit>>

(* The audit event is a transaction of its own, after the effect.             *)
AppendAudit(h) ==
  /\ At(h, "audit")
  /\ audit' = audit \cup {event \in {handler[h].event} : event.operation \in Audited}
  /\ Finish(h)
  /\ UNCHANGED <<registryVars, archived, governedVars, derivedVars, keys>>

(* A transaction that finds a conflict answers with an error; so does a read  *)
(* of content that is not there.                                              *)
Refused(h) ==
  LET work == handler[h] IN
  \/ /\ At(h, "bind")
     /\ ~Fresh(work.operation, work.key)
  \/ /\ Ready(h, Verbs)
     /\ \E k \in Found(work.operation, work.key) : k.request # work.request
  \/ /\ Ready(h, {"register"})
     /\ contents[work.request.component] # None
  \/ /\ Ready(h, Transitions)
     /\ ~Unmoved(contents[work.request.component], work.draft)
  \/ /\ At(h, "read")
     /\ \E item \in work.pending :
          /\ item.type = "KNOWLEDGE"
          /\ \E e \in Matches(item, work.draft.lock, work.draft.context) :
               e.component \notin objects

Abandon(h) ==
  /\ handler[h] # Idle
  /\ MayDie \/ Refused(h)
  /\ Finish(h)
  /\ UNCHANGED <<registryVars, archived, governedVars, derivedVars, keys, audit>>

-------------------------------------------------------------------------------
(* What others do meanwhile.                                                  *)

Troubles ==
  Cardinality({pv \in PackageVersions : ~Validated(pv)})
    + Cardinality({i \in InstallationIds : installed[i].state # "INSTALLED_DISABLED"})
    + Cardinality(archived)

GovernPackageVersion ==
  /\ Troubles < MaxTroubles
  /\ \E pv \in PackageVersions, target \in {"QUARANTINED", "WITHDRAWN"} :
       <<pv, target>> \in Governed /\ Registry!Govern(pv, target)
  /\ UNCHANGED <<archived, governedVars, derivedVars, keys, audit, handler>>

GovernInstallation ==
  /\ Troubles < MaxTroubles
  /\ \E i \in InstallationIds, target \in {"DISABLED", "REVOKED", "LOGICALLY_UNINSTALLED"} :
       <<i, target>> \in Governed /\ Registry!GovernInstallation(i, target)
  /\ UNCHANGED <<archived, governedVars, derivedVars, keys, audit, handler>>

SelectLock ==
  /\ \E p \in Projects, i \in InstallationIds :
       Len(selections[p]) < MaxLocks /\ Registry!Select(p, i)
  /\ UNCHANGED <<archived, governedVars, derivedVars, keys, audit, handler>>

Archive(scope) ==
  /\ Troubles < MaxTroubles
  /\ archived' = archived \cup {scope}
  /\ UNCHANGED <<registryVars, governedVars, derivedVars, keys, audit, handler>>

Environment ==
  \/ GovernPackageVersion
  \/ GovernInstallation
  \/ SelectLock
  \/ \E scope \in Archivable : Archive(scope)

Receive(h) ==
  \/ \E organization \in Organizations, key \in KeysFor[<<"knowledge-asset", "create">>] :
       BeginAsset(h, organization, key)
  \/ \E c \in Components : \E key \in KeysFor[<<KindOf(c), "register">>] :
       \/ BeginPayload(h, c, key)
       \/ \E a \in Assets : BeginVersion(h, c, a, key)
  \/ \E c \in Components, verb \in Transitions : \E key \in KeysFor[<<KindOf(c), verb>>] :
       /\ contents[c] # None
       /\ \E expected \in 1..(contents[c].version + IfMatchAhead) :
            BeginTransition(h, c, verb, expected, key)
  \/ \E p \in Projects, context \in ContextRequests, key \in KeysFor[<<"context", "compile">>] :
       BeginCompile(h, p, context, key)
  \/ \E manifest \in manifests, candidate \in Candidates,
        key \in KeysFor[<<"grounding", "validate">>] :
       BeginGrounding(h, manifest, candidate, key)
  \/ \E from, to \in Components, key \in KeysFor[<<"semantic-impact", "analyze">>] :
       <<from, to>> \in Comparisons /\ BeginImpact(h, from, to, key)

Commit(h) ==
  \/ \E a \in Assets : AddAsset(h, a)
  \/ AddContent(h)
  \/ Bind(h)
  \/ SaveContent(h)
  \/ AddManifest(h)
  \/ ReuseManifest(h)
  \/ AddResult(h)
  \/ AddReport(h)
  \/ Replay(h)

Continue(h) ==
  \/ PutObject(h)
  \/ \E item \in Items : Read(h, item)
  \/ \E c \in Components : Scan(h, c)
  \/ Commit(h)
  \/ AppendAudit(h)
  \/ Abandon(h)

Next ==
  \/ Environment
  \/ \E h \in Handlers : Cardinality(keys) < MaxKeys /\ Receive(h)
  \/ \E h \in Handlers : Continue(h)

Spec == Init /\ [][Next]_vars

-------------------------------------------------------------------------------
(* Properties.                                                                *)

(* Every variable is what the schema and the code make it. *)
TypeOK ==
  /\ registry \in [PackageVersions -> [content: Contents, state: PackageStates]]
  /\ installed \in [InstallationIds -> Installations \cup {None}]
  /\ selections \in [Projects -> Seq(InstallationIds)]
  /\ archived \subseteq Organizations \cup Projects
  /\ assets \in [Assets -> Organizations \cup {None}]
  /\ contents \in [Components -> Rows \cup {None}]
  /\ objects \subseteq Components
  /\ manifests \subseteq Manifests
  /\ results \subseteq Results
  /\ reports \subseteq Reports
  /\ keys \subseteq [operation: Operations, key: Keys,
                     request: Requests,
                     resource: Resources]
  /\ audit \subseteq Events
  /\ handler \in [Handlers -> Work \cup {Idle}]

(* A published row has been saved once and a row withdrawn after that twice,  *)
(* if no If-Match runs ahead.                                                 *)
OncePublished(c) ==
  /\ contents[c] # None
  /\ contents[c].status = "PUBLISHED" \/ contents[c].version > 2

Traceable(e, manifest) ==
  /\ Exists(manifest.lock)
  /\ e.component \in Pins(manifest.lock)
  /\ OncePublished(e.component)
  /\ InTenant(e.component, manifest.lock.project)
  /\ manifest.context.time \in e.times
  /\ manifest.context.purpose \in e.purposes
  /\ e.component \in Knowledge => e.component \in objects

(* Whatever was published, withdrawn, archived, switched or governed while it *)
(* was compiled, all that a ContextManifest contains is content that its      *)
(* DomainLock pins, that was published at some time, that belongs to the      *)
(* Project's Organization or the platform, is in its period and allowed for   *)
(* the purpose, and of knowledge the object exists.                           *)
ContextIsTraceable ==
  \A manifest \in manifests : \A e \in manifest.included : Traceable(e, manifest)

(* An answer that was found VALID names nothing but such content of one       *)
(* stored manifest, which left no term open.                                  *)
GroundedAnswersAreTraceable ==
  \A result \in results : result.status = "VALID" =>
    /\ result.manifest \in manifests
    /\ result.manifest.unclear = {}
    /\ \A e \in result.candidate.cites : Traceable(e, result.manifest)
    /\ \A id \in result.candidate.ids :
         \E e \in result.manifest.included : e.concept = id /\ Traceable(e, result.manifest)

(* One actor's request has one manifest per lock, whichever threads and keys  *)
(* compiled it.                                                               *)
OneManifestPerRequest ==
  \A manifest, other \in manifests : Same(manifest, other) => manifest = other

Recorded(operation, resource) ==
  \E k \in keys : k.operation = operation /\ k.resource = resource

(* A retry finds what its request did: a key stands for one request, and no   *)
(* effect is without its key, even if the thread died right after it.         *)
EffectsAreKeyed ==
  /\ \A k, other \in keys :
       k.operation = other.operation /\ k.key = other.key => k = other
  /\ \A c \in Components : contents[c] # None =>
       /\ Recorded(<<KindOf(c), "register">>, [component |-> c])
       /\ \A verb \in Transitions : contents[c].status = TargetOf[verb] =>
            Recorded(<<KindOf(c), verb>>, [component |-> c])
  /\ \A manifest \in manifests :
       Recorded(<<"context", "compile">>, [manifest |-> manifest])
  /\ \A result \in results : Recorded(<<"grounding", "validate">>, [result |-> result])
  /\ \A report \in reports :
       Recorded(<<"semantic-impact", "analyze">>, [report |-> report])

(* No knowledge version is without its object: the object is stored before,   *)
(* and a death in between only leaves an object too many.                     *)
ObjectsPrecedeVersions ==
  \A c \in Knowledge : contents[c] # None => c \in objects

(* An audited withdrawal has happened and lasts, if no If-Match runs ahead,   *)
(* and an audited compilation is of a stored manifest.                        *)
AuditTellsWhatHappened ==
  \A event \in audit :
    /\ Recorded(event.operation, event.resource)
    /\ event.operation[2] = "withdraw" =>
         contents[event.resource.component].status = "WITHDRAWN"
    /\ event.operation[2] = "compile" => event.resource.manifest \in manifests

(* What was withdrawn is never published again, also by a request that read   *)
(* it before, if no If-Match runs ahead.                                      *)
WithdrawalIsFinal ==
  [][\A c \in Components :
       contents[c] # None /\ contents[c].status = "WITHDRAWN" => contents'[c] = contents[c]]_vars

Compiling(lock) ==
  \E h \in Handlers :
    /\ handler[h] # Idle
    /\ handler[h].step # "audit"
    /\ handler[h].operation = <<"context", "compile">>
    /\ handler[h].draft.lock = lock

AtRisk(lock) ==
  /\ Exists(lock)
  /\ \/ InstallationOf(lock).state # "INSTALLED_DISABLED"
     \/ \E pv \in Pins(lock) : ~Validated(pv)
  /\ ~Compiling(lock)

(* Once a lock is at risk and the compilations that had found it healthy are  *)
(* over, it gets no manifest any more.                                        *)
AtRiskLocksGetNoContext ==
  [][\A lock \in Locks : AtRisk(lock) =>
       AtRisk(lock)' /\ \A manifest \in manifests' \ manifests : manifest.lock # lock]_vars
===============================================================================
