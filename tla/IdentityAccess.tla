----------------------------- MODULE IdentityAccess -----------------------------
(***************************************************************************)
(* Organizations, their Workspaces and Projects, and the Memberships that  *)
(* say who may change them (IdentityAccessService over                     *)
(* SqlIdentityRepository).                                                 *)
(*                                                                         *)
(* A request authenticates, reads the Memberships of its principal and the *)
(* rows it is about, decides, and commits in a transaction of its own that *)
(* looks only at the version of the one row it writes, at the key, and, to *)
(* withdraw an ORG_OWNER, at the other owners.  The audit event follows in *)
(* yet another transaction.                                                *)
(*                                                                         *)
(* A request that is refused before it holds anything leaves no trace and  *)
(* is no step; one that fails at its commit is Abandon.                    *)
(***************************************************************************)
EXTENDS Naturals

CONSTANTS
  Principals,      \* all ACTIVE: no operation disables one
  Organizations,   \* a scope is the row one creation adds; its slug is not free again
  Workspaces,
  Projects,
  Parent,          \* of each Workspace and each Project
  Platform,
  Grants,          \* the [principal, scope, role] asked for (a bound), unique each
  Seeded,          \* the platform grants the migration makes
  Handlers,        \* request threads (a bound)
  Keys,            \* Idempotency-Keys in use (a bound)
  MaxVersion,      \* versions a row may reach (a bound)
  ExpectedAhead,   \* how far an expectedVersion may run ahead of the stored one
  MayDie,          \* whether a thread may die between its commit and its audit event
  Idle,
  None             \* no such row

Scopes == Organizations \cup Workspaces \cup Projects

TypeOf(scope) ==
  CASE scope \in Organizations -> "ORGANIZATION"
    [] scope \in Workspaces -> "WORKSPACE"
    [] scope \in Projects -> "PROJECT"
    [] scope = Platform -> "PLATFORM"

Ancestors(scope) ==
  CASE scope \in Workspaces -> {Parent[scope]}
    [] scope \in Projects -> {Parent[scope], Parent[Parent[scope]]}
    [] OTHER -> {}

OrganizationOf(scope) ==
  CHOOSE o \in {scope} \cup Ancestors(scope) : o \in Organizations

ScopeStates == {"DRAFT", "ACTIVE", "ARCHIVED"}
MembershipStates == {"ACTIVE", "SUSPENDED", "REVOKED"}

ScopeRows == [state: ScopeStates, version: Nat \ {0}]
MembershipRows ==
  [state: MembershipStates, version: Nat \ {0},
   grantedBy: Principals \cup {Platform}]

Changes == {"update", "activate", "archive"}

-------------------------------------------------------------------------------
(* Permissions of the operations modelled here, and the roles that have them. *)

Manage == <<"MEMBERSHIP", "manage">>
Permissions ==
  {Manage, <<"PROJECT", "activate">>}
    \cup {"ORGANIZATION", "WORKSPACE", "PROJECT"} \X {"create", "update", "archive"}

Roles == {"ORG_OWNER", "ORG_ADMIN", "WORKSPACE_ADMIN", "PROJECT_OWNER", "PROJECT_EDITOR",
          "PROJECT_VIEWER", "PACKAGE_OPERATOR", "AUDITOR"}

RolePermissions == [role \in Roles |->
  CASE role = "ORG_OWNER" -> Permissions
    [] role = "ORG_ADMIN" ->
         Permissions \ ({"ORGANIZATION"} \X {"create", "archive"})
    [] role = "WORKSPACE_ADMIN" ->
         {Manage} \cup {"WORKSPACE"} \X {"update", "archive"}
           \cup {"PROJECT"} \X {"create", "update", "activate", "archive"}
    [] role = "PROJECT_OWNER" -> {Manage} \cup {"PROJECT"} \X Changes
    [] role = "PROJECT_EDITOR" -> {"PROJECT"} \X {"update", "activate"}
    [] OTHER -> {}]

RoleScopeTypes == [role \in Roles |->
  CASE role = "ORG_OWNER" -> {"PLATFORM", "ORGANIZATION"}
    [] role = "ORG_ADMIN" -> {"ORGANIZATION"}
    [] role = "WORKSPACE_ADMIN" -> {"WORKSPACE"}
    [] role = "PACKAGE_OPERATOR" -> {"PLATFORM", "ORGANIZATION", "PROJECT"}
    [] role = "AUDITOR" -> {"PLATFORM", "ORGANIZATION", "WORKSPACE", "PROJECT"}
    [] OTHER -> {"PROJECT"}]

OwnerGrant(principal, o) == [principal |-> principal, scope |-> o, role |-> "ORG_OWNER"]

(* The event of a scope reports its version, that of a Membership its state.  *)
Events == (Scopes \X (Nat \ {0})) \cup (Grants \X MembershipStates)

(* What a handler holds: a row to add, under a key; a row it read and changes, *)
(* with the version it expects; or the event it still has to append.          *)
Creation(operation, subjects, states) ==
  [step: {"commit"}, operation: {operation}, actor: Principals,
   subject: subjects, state: states, key: Keys]
Change(steps, operations, subjects, states) ==
  [step: steps, operation: operations,
   subject: subjects, state: states, expected: Nat \ {0}]

Work ==
  Creation("create", Scopes, ScopeStates)
    \cup Creation("grant", Grants, MembershipStates)
    \cup Change({"commit"}, Changes, Scopes, ScopeStates)
    \cup Change({"countOwners", "commit"}, {"withdraw"}, Grants, MembershipStates)
    \cup [step: {"audit"}, event: Events]

Bindings ==
  [actor: Principals, kind: {"ORGANIZATION", "WORKSPACE", "PROJECT", "MEMBERSHIP"},
   key: Keys, resource: Scopes \cup Grants]

ASSUME HierarchyAssumption ==
  /\ Workspaces \cap Organizations = {}
  /\ Projects \cap (Organizations \cup Workspaces) = {}
  /\ Platform \notin Scopes
  /\ Grants \cap Scopes = {}
  /\ Parent \in [Workspaces \cup Projects -> Organizations \cup Workspaces]
  /\ \A w \in Workspaces : Parent[w] \in Organizations
  /\ \A p \in Projects : Parent[p] \in Workspaces

ASSUME GrantsAssumption ==
  /\ Grants \subseteq [principal: Principals, scope: Scopes \cup {Platform}, role: Roles]
  /\ \A principal \in Principals, o \in Organizations : OwnerGrant(principal, o) \in Grants
  /\ Seeded \subseteq {g \in Grants : g.scope = Platform}

ASSUME BoundsAssumption ==
  /\ MaxVersion \in Nat
  /\ ExpectedAhead \in Nat
  /\ MayDie \in BOOLEAN
  /\ None \notin ScopeRows \cup MembershipRows
  /\ Idle \notin Work

VARIABLES
  scopes,          \* organizations, workspaces, projects
  memberships,
  keys,            \* idempotency_records
  audit,           \* per event its subject and the version or state it reports
  handler          \* what each request thread holds between transactions

vars == <<scopes, memberships, keys, audit, handler>>

Init ==
  /\ scopes = [s \in Scopes |-> None]
  /\ memberships = [g \in Grants |->
       IF g \in Seeded
       THEN [state |-> "ACTIVE", version |-> 1, grantedBy |-> Platform] ELSE None]
  /\ keys = {}
  /\ audit = {}
  /\ handler = [h \in Handlers |-> Idle]

-------------------------------------------------------------------------------
(* Decisions.  A definition named Faulty... is a wrong variant of the one     *)
(* that follows it.                                                           *)

FaultyAllowed(actor, permission, scope) ==  \* the scope of the grant is not compared
  \E g \in Grants : /\ g.principal = actor
                    /\ memberships[g] # None
                    /\ memberships[g].state = "ACTIVE"
                    /\ permission \in RolePermissions[g.role]
Allowed(actor, permission, scope) ==
  \E g \in Grants : /\ g.principal = actor
                    /\ memberships[g] # None
                    /\ memberships[g].state = "ACTIVE"
                    /\ permission \in RolePermissions[g.role]
                    /\ g.scope \in {Platform, scope} \cup Ancestors(scope)

Active(scope) == scopes[scope] # None /\ scopes[scope].state = "ACTIVE"

FaultyAncestorsActive(scope) ==  \* only the parent is looked at
  scope \in DOMAIN Parent => Active(Parent[scope])
AncestorsActive(scope) == \A ancestor \in Ancestors(scope) : Active(ancestor)

ActiveOwners(o) ==
  {g \in Grants : /\ g.scope = o
                  /\ g.role = "ORG_OWNER"
                  /\ memberships[g] # None
                  /\ memberships[g].state = "ACTIVE"}

Several(set) == \E one, other \in set : one # other

IsActiveOwner(g) == g.scope \in Organizations /\ g \in ActiveOwners(g.scope)

(* The row locks of the owners make the count part of the transaction. *)
FaultyMayLeave(g) == TRUE  \* the count before the transaction is enough
MayLeave(g) == IsActiveOwner(g) => Several(ActiveOwners(g.scope))

-------------------------------------------------------------------------------
(* Keys are unique per actor and kind of resource, whatever the request says. *)

KindOf(resource) == IF resource \in Scopes THEN TypeOf(resource) ELSE "MEMBERSHIP"

Found(actor, kind, key) ==
  {b \in keys : b.actor = actor /\ b.kind = kind /\ b.key = key}

FaultyFresh(work) == TRUE  \* neither look-up nor unique constraint
Fresh(work) == Found(work.actor, KindOf(work.subject), work.key) = {}

AddKey(work) ==
  keys' = keys \cup {[actor |-> work.actor, kind |-> KindOf(work.subject),
                     key |-> work.key, resource |-> work.subject]}

-------------------------------------------------------------------------------
(* A handler takes a request, moves on, or is done. *)

HoldNew(h, operation, actor, subject, state, key) ==
  handler' = [handler EXCEPT ![h] =
    [step |-> "commit", operation |-> operation, actor |-> actor,
     subject |-> subject, state |-> state, key |-> key]]

HoldChange(h, step, operation, subject, state, expected) ==
  handler' = [handler EXCEPT ![h] =
    [step |-> step, operation |-> operation,
     subject |-> subject, state |-> state, expected |-> expected]]

At(h, step) == handler[h] # Idle /\ handler[h].step = step

Committing(h, operations) == At(h, "commit") /\ handler[h].operation \in operations

FaultyEvent(subject, row) ==  \* the version that was created
  <<subject, IF subject \in Scopes THEN 1 ELSE row.state>>
Event(subject, row) ==
  <<subject, IF subject \in Scopes THEN row.version ELSE row.state>>

(* On to the audit event, about a resource as the request answers it.         *)
Report(h, subject, row) ==
  handler' = [handler EXCEPT ![h] = [step |-> "audit", event |-> Event(subject, row)]]

Finish(h) == handler' = [handler EXCEPT ![h] = Idle]

-------------------------------------------------------------------------------
(* create_organization, create_workspace, create_project *)

InitialState(scope) == IF scope \in Projects THEN "DRAFT" ELSE "ACTIVE"

BeginCreate(h, actor, scope, key) ==
  LET where == IF scope \in Organizations THEN Platform ELSE Parent[scope] IN
  /\ handler[h] = Idle
  /\ AncestorsActive(scope)
  /\ Allowed(actor, <<TypeOf(scope), "create">>, where)
  /\ HoldNew(h, "create", actor, scope, InitialState(scope), key)
  /\ UNCHANGED <<scopes, memberships, keys, audit>>

(* An Organization is added together with its first owner. *)
AddScope(h) ==
  LET work == handler[h]
      scope == work.subject IN
  /\ Committing(h, {"create"})
  /\ Fresh(work)
  /\ scopes[scope] = None
  /\ scopes' = [scopes EXCEPT ![scope] = [state |-> work.state, version |-> 1]]
  /\ memberships' =
       IF scope \in Organizations
       THEN [memberships EXCEPT ![OwnerGrant(work.actor, scope)] =
               [state |-> "ACTIVE", version |-> 1, grantedBy |-> work.actor]]
       ELSE memberships
  /\ AddKey(work)
  /\ Report(h, scope, scopes'[scope])
  /\ UNCHANGED audit

-------------------------------------------------------------------------------
(* update_, archive_ and activate_...: the copy that is saved has the state   *)
(* that was read, unless the operation changes it.  Archiving what is         *)
(* archived is answered without a trace.                                      *)

Leads(operation, state) ==
  CASE operation = "update" -> state
    [] operation = "activate" -> "ACTIVE"
    [] operation = "archive" -> "ARCHIVED"

BeginChange(h, actor, operation, scope, expected) ==
  /\ handler[h] = Idle
  /\ scopes[scope] # None
  /\ expected \in scopes[scope].version..(scopes[scope].version + ExpectedAhead)
  /\ AncestorsActive(scope)
  /\ Allowed(actor, <<TypeOf(scope), operation>>, scope)
  /\ scopes[scope].state # "ARCHIVED"
  /\ operation = "activate" => scopes[scope].state = "DRAFT"
  /\ HoldChange(h, "commit", operation, scope, Leads(operation, scopes[scope].state), expected)
  /\ UNCHANGED <<scopes, memberships, keys, audit>>

FaultyUnmoved(row, expected) == TRUE  \* last writer wins
Unmoved(row, expected) == row.version = expected

SaveScope(h) ==
  LET work == handler[h]
      scope == work.subject IN
  /\ Committing(h, Changes)
  /\ Unmoved(scopes[scope], work.expected)
  /\ scopes' = [scopes EXCEPT ![scope] =
       [state |-> work.state, version |-> work.expected + 1]]
  /\ Report(h, scope, scopes'[scope])
  /\ UNCHANGED <<memberships, keys, audit>>

-------------------------------------------------------------------------------
(* create_membership: of the scope's ancestors only the Organization has to   *)
(* be ACTIVE.                                                                 *)

BeginGrant(h, actor, g, key) ==
  /\ handler[h] = Idle
  /\ g.scope \in Scopes
  /\ scopes[g.scope] # None
  /\ Active(OrganizationOf(g.scope))
  /\ Allowed(actor, Manage, g.scope)
  /\ TypeOf(g.scope) \in RoleScopeTypes[g.role]
  /\ HoldNew(h, "grant", actor, g, "ACTIVE", key)
  /\ UNCHANGED <<scopes, memberships, keys, audit>>

AddMembership(h) ==
  LET work == handler[h]
      g == work.subject IN
  /\ Committing(h, {"grant"})
  /\ Fresh(work)
  /\ memberships[g] = None
  /\ memberships' = [memberships EXCEPT ![g] =
       [state |-> "ACTIVE", version |-> 1, grantedBy |-> work.actor]]
  /\ AddKey(work)
  /\ Report(h, g, memberships'[g])
  /\ UNCHANGED <<scopes, audit>>

(* A key that was used before answers with the resource it was used for, which *)
(* is reported as it is, a Membership as granted.                             *)
Replay(h) ==
  LET work == handler[h] IN
  /\ Committing(h, {"create", "grant"})
  /\ \E b \in Found(work.actor, KindOf(work.subject), work.key) :
       Report(h, b.resource, IF b.resource \in Scopes THEN scopes[b.resource]
                             ELSE [memberships[b.resource] EXCEPT !.state = "ACTIVE"])
  /\ UNCHANGED <<scopes, memberships, keys, audit>>

-------------------------------------------------------------------------------
(* transition_membership to SUSPENDED or REVOKED.  Owners are counted before  *)
(* the transaction, and again in it.                                          *)

BeginWithdraw(h, actor, g, target, expected) ==
  /\ handler[h] = Idle
  /\ g.scope \in Scopes
  /\ memberships[g] # None
  /\ expected \in memberships[g].version..(memberships[g].version + ExpectedAhead)
  /\ Allowed(actor, Manage, g.scope)
  /\ memberships[g].state # "REVOKED"
  /\ HoldChange(h, IF IsActiveOwner(g) THEN "countOwners" ELSE "commit", "withdraw", g,
                target, expected)
  /\ UNCHANGED <<scopes, memberships, keys, audit>>

CountOwners(h) ==
  LET work == handler[h] IN
  /\ At(h, "countOwners")
  /\ Several(ActiveOwners(work.subject.scope))
  /\ HoldChange(h, "commit", "withdraw", work.subject, work.state, work.expected)
  /\ UNCHANGED <<scopes, memberships, keys, audit>>

SaveMembership(h) ==
  LET work == handler[h]
      g == work.subject IN
  /\ Committing(h, {"withdraw"})
  /\ Unmoved(memberships[g], work.expected)
  /\ MayLeave(g)
  /\ memberships' = [memberships EXCEPT ![g] =
       [state |-> work.state, version |-> work.expected + 1, grantedBy |-> @.grantedBy]]
  /\ Report(h, g, memberships'[g])
  /\ UNCHANGED <<scopes, keys, audit>>

-------------------------------------------------------------------------------
(* How a request ends.                                                        *)
AppendAudit(h) ==
  /\ At(h, "audit")
  /\ audit' = audit \cup {handler[h].event}
  /\ Finish(h)
  /\ UNCHANGED <<scopes, memberships, keys>>

(* A version, key, slug or owner conflict rolls back; or the thread dies.     *)
Abandon(h) ==
  /\ At(h, "countOwners") \/ At(h, "commit") \/ (MayDie /\ At(h, "audit"))
  /\ Finish(h)
  /\ UNCHANGED <<scopes, memberships, keys, audit>>

Receive(h) ==
  \E actor \in Principals :
    \/ \E scope \in Scopes, key \in Keys : BeginCreate(h, actor, scope, key)
    \/ \E operation \in Changes, scope \in Scopes, expected \in 1..(MaxVersion - 1) :
         BeginChange(h, actor, operation, scope, expected)
    \/ \E g \in Grants, key \in Keys : BeginGrant(h, actor, g, key)
    \/ \E g \in Grants, target \in {"SUSPENDED", "REVOKED"},
          expected \in 1..(MaxVersion - 1) : BeginWithdraw(h, actor, g, target, expected)

Continue(h) ==
  \/ AddScope(h)
  \/ SaveScope(h)
  \/ AddMembership(h)
  \/ Replay(h)
  \/ CountOwners(h)
  \/ SaveMembership(h)
  \/ AppendAudit(h)

Next == \E h \in Handlers : Receive(h) \/ Continue(h) \/ Abandon(h)

Spec == Init /\ [][Next]_vars

-------------------------------------------------------------------------------
(* Properties. *)

TypeOK ==
  /\ scopes \in [Scopes -> ScopeRows \cup {None}]
  /\ memberships \in [Grants -> MembershipRows \cup {None}]
  /\ keys \subseteq Bindings
  /\ audit \subseteq Events
  /\ handler \in [Handlers -> Work \cup {Idle}]

(* However many owners suspend or revoke each other at once, an Organization  *)
(* keeps an active ORG_OWNER from the moment it exists.                       *)
EveryOrganizationHasAnOwner ==
  \A o \in Organizations : scopes[o] # None => ActiveOwners(o) # {}

(* No write in flight revives anything: what is archived or revoked never     *)
(* changes again, no Project goes back to DRAFT and no withdrawn Membership   *)
(* becomes ACTIVE.                                                            *)
NothingIsRevived ==
  [][/\ \A s \in Scopes : scopes[s] # None =>
          /\ scopes'[s] # None
          /\ scopes[s].state = "ARCHIVED" => scopes'[s] = scopes[s]
          /\ scopes'[s].state = "DRAFT" => scopes[s].state = "DRAFT"
     /\ \A g \in Grants : memberships[g] # None =>
          /\ memberships'[g] # None
          /\ memberships[g].state = "REVOKED" => memberships'[g] = memberships[g]
          /\ memberships'[g].state = "ACTIVE" => memberships[g].state = "ACTIVE"]_vars

(* Every Membership in the hierarchy goes back to a principal that had been   *)
(* granted the management of that very scope, from above or as a peer: no     *)
(* grant crosses an Organization boundary, whatever was revoked meanwhile.    *)
GrantsComeFromAuthority ==
  \A g \in Grants : memberships[g] # None /\ g.scope # Platform =>
    \E source \in Grants \ {g} :
      /\ memberships[source] # None
      /\ source.principal = memberships[g].grantedBy
      /\ Manage \in RolePermissions[source.role]
      /\ source.scope \in {Platform, g.scope} \cup Ancestors(g.scope)

(* After an ancestor is archived only the writes that were in flight at that  *)
(* moment can still land below it; then nothing below it changes any more.    *)
InFlight(scope) ==
  \E h \in Handlers : At(h, "commit") /\ handler[h].subject = scope

Sealed(scope) ==
  \E ancestor \in Ancestors(scope) :
    scopes[ancestor] # None /\ scopes[ancestor].state = "ARCHIVED"

ArchivedSubtreesSettle ==
  [][\A scope \in Scopes : Sealed(scope) /\ ~InFlight(scope) =>
       scopes'[scope] = scopes[scope] /\ ~InFlight(scope)']_vars

(* A key names one resource, which exists: a retry finds it, and never the    *)
(* error that an idempotency record refers to a missing resource.             *)
KeysNameOneResource ==
  /\ \A a, b \in keys : a.actor = b.actor /\ a.kind = b.kind /\ a.key = b.key => a = b
  /\ \A b \in keys : IF b.resource \in Scopes THEN scopes[b.resource] # None
                      ELSE memberships[b.resource] # None

(* If no thread dies, every version of a scope and every withdrawal of a      *)
(* Membership has its audit event, or a handler is about to append it.        *)
Reported(event) ==
  event \in audit \/ \E h \in Handlers : At(h, "audit") /\ handler[h].event = event

ChangesAreAudited ==
  /\ \A s \in Scopes : scopes[s] # None =>
       \A version \in 1..scopes[s].version : Reported(<<s, version>>)
  /\ \A g \in Grants : memberships[g] # None =>
       memberships[g].state = "ACTIVE" \/ Reported(<<g, memberships[g].state>>)
===============================================================================
