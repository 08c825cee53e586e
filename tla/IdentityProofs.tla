----------------------------- MODULE IdentityProofs -----------------------------
(***************************************************************************)
(* Proofs about IdentityAccess, for any hierarchy, any number of threads   *)
(* and any set of Memberships.                                             *)
(***************************************************************************)
EXTENDS IdentityAccess, TLAPS

LEMMA HierarchyFacts ==
  /\ \A r \in Scopes \cup Grants :
       KindOf(r) \in {"ORGANIZATION", "WORKSPACE", "PROJECT", "MEMBERSHIP"}
  /\ \A s \in Scopes : InitialState(s) \in ScopeStates
  /\ \A s \in Scopes : Ancestors(s) \subseteq Scopes
  /\ Ancestors(Platform) = {}
<1>1. ASSUME NEW r \in Scopes \cup Grants
      PROVE  KindOf(r) \in {"ORGANIZATION", "WORKSPACE", "PROJECT", "MEMBERSHIP"}
  <2>1. CASE r \in Scopes
    BY <2>1, HierarchyAssumption DEF KindOf, TypeOf, Scopes
  <2>2. CASE r \notin Scopes
    BY <2>2 DEF KindOf
  <2> QED
    BY <2>1, <2>2
<1>2. ASSUME NEW s \in Scopes
      PROVE  Ancestors(s) \subseteq Scopes
  <2>1. CASE s \in Organizations
    BY <2>1, HierarchyAssumption DEF Ancestors, Scopes
  <2>2. CASE s \in Workspaces
    BY <2>2, HierarchyAssumption DEF Ancestors, Scopes
  <2>3. CASE s \in Projects
    BY <2>3, HierarchyAssumption DEF Ancestors, Scopes
  <2> QED
    BY <2>1, <2>2, <2>3 DEF Scopes
<1>3. Ancestors(Platform) = {}
  BY HierarchyAssumption DEF Ancestors, Scopes
<1> QED
  BY <1>1, <1>2, <1>3 DEF InitialState, ScopeStates

(* A change leads to a state of a scope, and to DRAFT only from DRAFT.        *)
LEMMA LeadsFacts ==
  ASSUME NEW operation \in Changes, NEW state \in ScopeStates
  PROVE  /\ Leads(operation, state) \in ScopeStates
         /\ Leads(operation, state) = "DRAFT" => state = "DRAFT"
  BY DEF Changes, Leads, ScopeStates

(* Who may create Organizations may manage Memberships.                       *)
LEMMA RoleFacts ==
  \A role \in Roles :
    <<"ORGANIZATION", "create">> \in RolePermissions[role] => Manage \in RolePermissions[role]
<1> SUFFICES ASSUME NEW role \in Roles,
                    <<"ORGANIZATION", "create">> \in RolePermissions[role]
             PROVE  Manage \in RolePermissions[role]
  OBVIOUS
<1>1. CASE role \in {"ORG_OWNER", "ORG_ADMIN"}
  BY <1>1 DEF RolePermissions, Permissions, Manage
<1>2. CASE role \in {"WORKSPACE_ADMIN", "PROJECT_OWNER"}
  BY <1>2 DEF RolePermissions
<1>3. CASE role \notin {"ORG_OWNER", "ORG_ADMIN", "WORKSPACE_ADMIN", "PROJECT_OWNER"}
  BY <1>3 DEF RolePermissions, Manage
<1> QED
  BY <1>1, <1>2, <1>3

(* What a busy handler holds, by the kind of its operation.                   *)
LEMMA WorkFacts ==
  ASSUME NEW work \in Work
  PROVE  /\ work.step \in {"countOwners", "commit", "audit"}
         /\ work.step = "countOwners" => work.operation = "withdraw"
         /\ work.step # "audit" => work.operation \in {"create", "grant", "withdraw"} \cup Changes
         /\ work.step = "audit" => work.event \in Events
         /\ work.step # "audit" /\ work.operation \in {"create", "grant"} =>
              work.actor \in Principals /\ work.key \in Keys
         /\ work.step # "audit" /\ work.operation = "create" =>
              work.subject \in Scopes /\ work.state \in ScopeStates
         /\ work.step # "audit" /\ work.operation = "grant" =>
              work.subject \in Grants /\ work.state \in MembershipStates
         /\ work.step # "audit" /\ work.operation \in Changes =>
              work.subject \in Scopes /\ work.state \in ScopeStates
                /\ work.expected \in Nat \ {0}
         /\ work.step # "audit" /\ work.operation = "withdraw" =>
              work.subject \in Grants /\ work.state \in MembershipStates
                /\ work.expected \in Nat \ {0}
<1>1. CASE work \in Creation("create", Scopes, ScopeStates)
  BY <1>1 DEF Creation, Changes
<1>2. CASE work \in Creation("grant", Grants, MembershipStates)
  BY <1>2 DEF Creation, Changes
<1>3. CASE work \in Change({"commit"}, Changes, Scopes, ScopeStates)
  BY <1>3 DEF Change, Changes
<1>4. CASE work \in Change({"countOwners", "commit"}, {"withdraw"}, Grants, MembershipStates)
  BY <1>4 DEF Change, Changes
<1>5. CASE work \in [step: {"audit"}, event: Events]
  BY <1>5 DEF Changes
<1> QED
  BY <1>1, <1>2, <1>3, <1>4, <1>5 DEF Work

-------------------------------------------------------------------------------
(* The inductive invariant.  A Membership belongs to a scope that exists; and *)
(* what a handler is about to write rests on rows that exist, a grant or an   *)
(* Organization on a Membership that gave its actor the right to it.          *)

Source(principal, scope) ==
  \E source \in Grants :
    /\ memberships[source] # None
    /\ source.principal = principal
    /\ Manage \in RolePermissions[source.role]
    /\ source.scope \in {Platform, scope} \cup Ancestors(scope)

Sound(work) ==
  /\ work.step = "commit" /\ work.operation = "create" /\ work.subject \in Organizations =>
       Source(work.actor, Platform)
  /\ work.step = "commit" /\ work.operation = "grant" =>
       /\ work.subject.scope \in Scopes
       /\ scopes[work.subject.scope] # None
       /\ Source(work.actor, work.subject.scope)
  /\ work.step = "commit" /\ work.operation \in Changes => scopes[work.subject] # None
  /\ work.step # "audit" /\ work.operation = "withdraw" =>
       /\ memberships[work.subject] # None
       /\ work.state \in {"SUSPENDED", "REVOKED"}

HandlersAreSound == \A h \in Handlers : handler[h] # Idle => Sound(handler[h])

MembershipsHaveScopes ==
  \A g \in Grants : memberships[g] # None /\ g.scope # Platform => scopes[g.scope] # None

IdentityInv ==
  /\ TypeOK
  /\ HandlersAreSound
  /\ MembershipsHaveScopes
  /\ EveryOrganizationHasAnOwner
  /\ KeysNameOneResource
  /\ GrantsComeFromAuthority

(* The one handler that moves.                                                *)
Moves(h, work) ==
  /\ handler' \in [Handlers -> Work \cup {Idle}]
  /\ handler'[h] = work
  /\ \A g \in Handlers \ {h} : handler'[g] = handler[g]

LEMMA HoldNewMoves ==
  ASSUME TypeOK, NEW h \in Handlers, NEW operation, NEW actor \in Principals,
         NEW subject, NEW state, NEW key \in Keys,
         \/ operation = "create" /\ subject \in Scopes /\ state \in ScopeStates
         \/ operation = "grant" /\ subject \in Grants /\ state \in MembershipStates,
         HoldNew(h, operation, actor, subject, state, key)
  PROVE  Moves(h, [step |-> "commit", operation |-> operation, actor |-> actor,
                   subject |-> subject, state |-> state, key |-> key])
<1> DEFINE work == [step |-> "commit", operation |-> operation, actor |-> actor,
                    subject |-> subject, state |-> state, key |-> key]
<1>1. work \in Creation("create", Scopes, ScopeStates)
        \cup Creation("grant", Grants, MembershipStates)
  BY DEF Creation
<1>2. work \in Work
  BY <1>1 DEF Work
<1>3. handler' = [handler EXCEPT ![h] = work]
  BY DEF HoldNew
<1> QED
  BY <1>2, <1>3 DEF Moves, TypeOK

LEMMA HoldChangeMoves ==
  ASSUME TypeOK, NEW h \in Handlers, NEW step, NEW operation, NEW subject, NEW state,
         NEW expected \in Nat \ {0},
         \/ /\ step = "commit" /\ operation \in Changes
            /\ subject \in Scopes /\ state \in ScopeStates
         \/ /\ step \in {"countOwners", "commit"} /\ operation = "withdraw"
            /\ subject \in Grants /\ state \in MembershipStates,
         HoldChange(h, step, operation, subject, state, expected)
  PROVE  Moves(h, [step |-> step, operation |-> operation, subject |-> subject,
                   state |-> state, expected |-> expected])
<1> DEFINE work == [step |-> step, operation |-> operation, subject |-> subject,
                    state |-> state, expected |-> expected]
<1>1. work \in Change({"commit"}, Changes, Scopes, ScopeStates)
        \cup Change({"countOwners", "commit"}, {"withdraw"}, Grants, MembershipStates)
  BY DEF Change
<1>2. work \in Work
  BY <1>1 DEF Work
<1>3. handler' = [handler EXCEPT ![h] = work]
  BY DEF HoldChange
<1> QED
  BY <1>2, <1>3 DEF Moves, TypeOK

LEMMA ReportMoves ==
  ASSUME TypeOK, NEW h \in Handlers, NEW subject, NEW row,
         \/ subject \in Scopes /\ row.version \in Nat \ {0}
         \/ subject \in Grants /\ row.state \in MembershipStates,
         Report(h, subject, row)
  PROVE  Moves(h, [step |-> "audit", event |-> Event(subject, row)])
<1>1. Event(subject, row) \in Events
  BY HierarchyAssumption DEF Event, Events
<1>2. [step |-> "audit", event |-> Event(subject, row)] \in Work
  BY <1>1 DEF Work
<1> QED
  BY <1>2 DEF Report, Moves, TypeOK

LEMMA FinishMoves ==
  ASSUME TypeOK, NEW h \in Handlers, Finish(h)
  PROVE  Moves(h, Idle)
  BY DEF Finish, Moves, TypeOK

-------------------------------------------------------------------------------
(* Rows only come to exist, and a source of authority stays one.              *)
Grow ==
  /\ \A s \in Scopes : scopes[s] # None => scopes'[s] # None
  /\ \A g \in Grants : memberships[g] # None => memberships'[g] # None

LEMMA OthersStaySound ==
  ASSUME TypeOK, HandlersAreSound, Grow, NEW h \in Handlers,
         \A g \in Handlers \ {h} : handler'[g] = handler[g],
         handler'[h] # Idle => Sound(handler[h])'
  PROVE  HandlersAreSound'
<1> SUFFICES ASSUME NEW g \in Handlers, handler'[g] # Idle
             PROVE  Sound(handler[g])'
  BY DEF HandlersAreSound
<1>1. CASE g = h
  BY <1>1
<1>2. CASE g # h
  <2> DEFINE work == handler[g]
  <2>1. handler'[g] = work /\ work \in Work /\ Sound(work)
    BY <1>2 DEF HandlersAreSound, TypeOK
  <2>2. ASSUME work.step = "commit", work.operation = "create",
               work.subject \in Organizations
        PROVE  Source(work.actor, Platform)'
    BY <2>1, <2>2 DEF Sound, Source, Grow
  <2>3. ASSUME work.step = "commit", work.operation = "grant"
        PROVE  /\ work.subject.scope \in Scopes
               /\ scopes'[work.subject.scope] # None
               /\ Source(work.actor, work.subject.scope)'
    BY <2>1, <2>3 DEF Sound, Source, Grow
  <2>4. ASSUME work.step = "commit", work.operation \in Changes
        PROVE  scopes'[work.subject] # None
    BY <2>1, <2>4, WorkFacts DEF Sound, Grow
  <2>5. ASSUME work.step # "audit", work.operation = "withdraw"
        PROVE  memberships'[work.subject] # None /\ work.state \in {"SUSPENDED", "REVOKED"}
    BY <2>1, <2>5, WorkFacts DEF Sound, Grow
  <2> QED
    BY <2>1, <2>2, <2>3, <2>4, <2>5 DEF Sound, Source
<1> QED
  BY <1>1, <1>2

(* Steps that leave the tables alone.                                         *)
LEMMA TablesUnmoved ==
  ASSUME IdentityInv, NEW h \in Handlers, NEW work, Moves(h, work),
         UNCHANGED <<scopes, memberships, keys>>, audit' \subseteq Events,
         work = Idle \/ Sound(work)
  PROVE  IdentityInv'
<1>1. TypeOK'
  BY DEF IdentityInv, TypeOK, Moves
<1>2. handler'[h] # Idle => Sound(handler[h])'
  BY DEF Moves, Sound, Source
<1>3. Grow
  BY DEF Grow
<1>4. HandlersAreSound'
  BY <1>2, <1>3, OthersStaySound DEF IdentityInv, Moves
<1>5. MembershipsHaveScopes' /\ EveryOrganizationHasAnOwner'
  BY DEF IdentityInv, MembershipsHaveScopes, EveryOrganizationHasAnOwner, ActiveOwners
<1>6. KeysNameOneResource' /\ GrantsComeFromAuthority'
  BY DEF IdentityInv, KeysNameOneResource, GrantsComeFromAuthority
<1> QED
  BY <1>1, <1>4, <1>5, <1>6 DEF IdentityInv

LEMMA ReceiveSteps ==
  ASSUME IdentityInv, NEW h \in Handlers, Receive(h)
  PROVE  IdentityInv'
<1> USE DEF IdentityInv
<1> PICK actor \in Principals :
      \/ \E scope \in Scopes, key \in Keys : BeginCreate(h, actor, scope, key)
      \/ \E operation \in Changes, scope \in Scopes, expected \in 1..(MaxVersion - 1) :
           BeginChange(h, actor, operation, scope, expected)
      \/ \E g \in Grants, key \in Keys : BeginGrant(h, actor, g, key)
      \/ \E g \in Grants, target \in {"SUSPENDED", "REVOKED"},
            expected \in 1..(MaxVersion - 1) : BeginWithdraw(h, actor, g, target, expected)
  BY DEF Receive
<1>1. ASSUME NEW scope \in Scopes, NEW key \in Keys, BeginCreate(h, actor, scope, key)
      PROVE  IdentityInv'
  <2> DEFINE work == [step |-> "commit", operation |-> "create", actor |-> actor,
                      subject |-> scope, state |-> InitialState(scope), key |-> key]
  <2>1. HoldNew(h, "create", actor, scope, InitialState(scope), key)
    BY <1>1 DEF BeginCreate
  <2>2. Moves(h, work)
    BY <2>1, HoldNewMoves, HierarchyFacts
  <2>3. scope \in Organizations => Source(actor, Platform)
    <3>1. SUFFICES ASSUME scope \in Organizations
                   PROVE  Source(actor, Platform)
      OBVIOUS
    <3>2. TypeOf(scope) = "ORGANIZATION"
      BY <3>1, HierarchyAssumption DEF TypeOf
    <3>3. Allowed(actor, <<"ORGANIZATION", "create">>, Platform)
      BY <1>1, <3>1, <3>2 DEF BeginCreate
    <3>4. PICK source \in Grants :
            /\ source.principal = actor
            /\ memberships[source] # None
            /\ <<"ORGANIZATION", "create">> \in RolePermissions[source.role]
            /\ source.scope \in {Platform} \cup Ancestors(Platform)
      BY <3>3 DEF Allowed
    <3>5. source.role \in Roles
      BY GrantsAssumption
    <3> QED
      BY <3>4, <3>5, RoleFacts DEF Source
  <2>4. Sound(work)
    BY <2>3 DEF Sound, Changes
  <2> QED
    BY <1>1, <2>2, <2>4, TablesUnmoved DEF BeginCreate, TypeOK
<1>2. ASSUME NEW operation \in Changes, NEW scope \in Scopes,
             NEW expected \in 1..(MaxVersion - 1),
             BeginChange(h, actor, operation, scope, expected)
      PROVE  IdentityInv'
  <2> DEFINE state == Leads(operation, scopes[scope].state)
             work == [step |-> "commit", operation |-> operation, subject |-> scope,
                      state |-> state, expected |-> expected]
  <2>1. /\ scopes[scope] # None
        /\ HoldChange(h, "commit", operation, scope, state, expected)
    BY <1>2 DEF BeginChange
  <2>2. state \in ScopeStates /\ expected \in Nat \ {0}
    BY <2>1, LeadsFacts, BoundsAssumption DEF TypeOK, ScopeRows
  <2>3. Moves(h, work)
    BY <2>1, <2>2, HoldChangeMoves
  <2>4. Sound(work)
    BY <2>1 DEF Sound, Changes
  <2> QED
    BY <1>2, <2>3, <2>4, TablesUnmoved DEF BeginChange, TypeOK
<1>3. ASSUME NEW g \in Grants, NEW key \in Keys, BeginGrant(h, actor, g, key)
      PROVE  IdentityInv'
  <2> DEFINE work == [step |-> "commit", operation |-> "grant", actor |-> actor,
                      subject |-> g, state |-> "ACTIVE", key |-> key]
  <2>1. /\ g.scope \in Scopes
        /\ scopes[g.scope] # None
        /\ Source(actor, g.scope)
        /\ HoldNew(h, "grant", actor, g, "ACTIVE", key)
    BY <1>3 DEF BeginGrant, Allowed, Source
  <2>2. Moves(h, work)
    BY <2>1, HoldNewMoves DEF MembershipStates
  <2>3. Sound(work)
    BY <2>1 DEF Sound, Changes
  <2> QED
    BY <1>3, <2>2, <2>3, TablesUnmoved DEF BeginGrant, TypeOK
<1>4. ASSUME NEW g \in Grants, NEW target \in {"SUSPENDED", "REVOKED"},
             NEW expected \in 1..(MaxVersion - 1),
             BeginWithdraw(h, actor, g, target, expected)
      PROVE  IdentityInv'
  <2> DEFINE step == IF IsActiveOwner(g) THEN "countOwners" ELSE "commit"
             work == [step |-> step, operation |-> "withdraw", subject |-> g,
                      state |-> target, expected |-> expected]
  <2>1. /\ memberships[g] # None
        /\ HoldChange(h, step, "withdraw", g, target, expected)
    BY <1>4 DEF BeginWithdraw
  <2>2. /\ expected \in Nat \ {0}
        /\ step \in {"countOwners", "commit"}
        /\ target \in MembershipStates
    BY BoundsAssumption DEF MembershipStates
  <2>3. Moves(h, work)
    BY <2>1, <2>2, HoldChangeMoves
  <2>4. Sound(work)
    BY <2>1 DEF Sound, Changes
  <2> QED
    BY <1>4, <2>3, <2>4, TablesUnmoved DEF BeginWithdraw, TypeOK
<1> QED
  BY <1>1, <1>2, <1>3, <1>4

LEMMA EndSteps ==
  ASSUME IdentityInv, NEW h \in Handlers,
         CountOwners(h) \/ Replay(h) \/ AppendAudit(h) \/ Abandon(h)
  PROVE  IdentityInv'
<1> USE DEF IdentityInv
<1> DEFINE work == handler[h]
<1>0. ASSUME work # Idle
      PROVE  work \in Work /\ Sound(work)
  BY <1>0 DEF TypeOK, HandlersAreSound
<1>1. CASE CountOwners(h)
  <2>1. /\ work # Idle
        /\ work.step = "countOwners"
        /\ HoldChange(h, "commit", "withdraw", work.subject, work.state, work.expected)
    BY <1>1 DEF CountOwners, At
  <2> DEFINE next == [step |-> "commit", operation |-> "withdraw", subject |-> work.subject,
                      state |-> work.state, expected |-> work.expected]
  <2>2. /\ work.operation = "withdraw"
        /\ work.subject \in Grants
        /\ work.state \in MembershipStates
        /\ work.expected \in Nat \ {0}
    BY <1>0, <2>1, WorkFacts
  <2>3. Moves(h, next)
    BY <2>1, <2>2, HoldChangeMoves
  <2>4. Sound(next)
    BY <1>0, <2>1, <2>2 DEF Sound, Changes
  <2> QED
    BY <1>1, <2>3, <2>4, TablesUnmoved DEF CountOwners, TypeOK
<1>2. CASE Replay(h)
  <2>1. PICK b \in keys :
          Report(h, b.resource, IF b.resource \in Scopes THEN scopes[b.resource]
                                ELSE [memberships[b.resource] EXCEPT !.state = "ACTIVE"])
    BY <1>2 DEF Replay, Found
  <2> DEFINE row == IF b.resource \in Scopes THEN scopes[b.resource]
                    ELSE [memberships[b.resource] EXCEPT !.state = "ACTIVE"]
  <2>2. \/ b.resource \in Scopes /\ row.version \in Nat \ {0}
        \/ b.resource \in Grants /\ row.state \in MembershipStates
    <3>1. CASE b.resource \in Scopes
      BY <3>1 DEF KeysNameOneResource, TypeOK, ScopeRows
    <3>2. CASE b.resource \notin Scopes
      <4>1. b.resource \in Grants /\ memberships[b.resource] \in MembershipRows
        BY <3>2 DEF KeysNameOneResource, TypeOK, Bindings
      <4> QED
        BY <3>2, <4>1 DEF MembershipRows, MembershipStates
    <3> QED
      BY <3>1, <3>2
  <2>3. Moves(h, [step |-> "audit", event |-> Event(b.resource, row)])
    BY <2>1, <2>2, ReportMoves
  <2>4. Sound([step |-> "audit", event |-> Event(b.resource, row)])
    BY DEF Sound
  <2> QED
    BY <1>2, <2>3, <2>4, TablesUnmoved DEF Replay, TypeOK
<1>3. CASE AppendAudit(h)
  <2>1. work.step = "audit" /\ work # Idle
    BY <1>3 DEF AppendAudit, At
  <2>2. audit' \subseteq Events
    BY <1>0, <1>3, <2>1, WorkFacts DEF AppendAudit, TypeOK
  <2> QED
    BY <1>3, <2>2, FinishMoves, TablesUnmoved DEF AppendAudit
<1>4. CASE Abandon(h)
  BY <1>4, FinishMoves, TablesUnmoved DEF Abandon, TypeOK
<1> QED
  BY <1>1, <1>2, <1>3, <1>4

(* A binding under a fresh key, of a resource that exists from now on.        *)
LEMMA KeysStaySound ==
  ASSUME TypeOK, KeysNameOneResource, Grow, NEW work, Fresh(work), AddKey(work),
         work.actor \in Principals, work.key \in Keys,
         work.subject \in Scopes \cup Grants,
         IF work.subject \in Scopes THEN scopes'[work.subject] # None
         ELSE memberships'[work.subject] # None
  PROVE  keys' \subseteq Bindings /\ KeysNameOneResource'
<1> DEFINE added == [actor |-> work.actor, kind |-> KindOf(work.subject),
                     key |-> work.key, resource |-> work.subject]
<1>1. keys' = keys \cup {added} /\ added \in Bindings
  BY HierarchyFacts DEF AddKey, Bindings
<1>2. keys \subseteq Bindings
  BY DEF TypeOK
<1>3. \A b \in keys : ~(b.actor = added.actor /\ b.kind = added.kind /\ b.key = added.key)
  BY DEF Fresh, Found
<1>4. \A a, b \in keys' : a.actor = b.actor /\ a.kind = b.kind /\ a.key = b.key => a = b
  <2> SUFFICES ASSUME NEW a \in keys', NEW b \in keys',
                      a.actor = b.actor, a.kind = b.kind, a.key = b.key
               PROVE  a = b
    OBVIOUS
  <2>1. CASE a \in keys /\ b \in keys
    BY <2>1 DEF KeysNameOneResource
  <2>2. CASE a = added \/ b = added
    BY <2>2, <1>1, <1>3
  <2> QED
    BY <2>1, <2>2, <1>1
<1>5. \A b \in keys' : IF b.resource \in Scopes THEN scopes'[b.resource] # None
                       ELSE memberships'[b.resource] # None
  <2> SUFFICES ASSUME NEW b \in keys'
               PROVE  IF b.resource \in Scopes THEN scopes'[b.resource] # None
                      ELSE memberships'[b.resource] # None
    OBVIOUS
  <2>1. CASE b \in keys
    BY <2>1, <1>2 DEF KeysNameOneResource, Grow, Bindings
  <2>2. CASE b = added
    BY <2>2
  <2> QED
    BY <2>1, <2>2, <1>1
<1> QED
  BY <1>1, <1>2, <1>4, <1>5 DEF KeysNameOneResource

LEMMA AddScopeStep ==
  ASSUME IdentityInv, NEW h \in Handlers, AddScope(h)
  PROVE  IdentityInv'
<1> USE DEF IdentityInv
<1> DEFINE work == handler[h]
           scope == work.subject
           owner == OwnerGrant(work.actor, scope)
           row == [state |-> work.state, version |-> 1]
           membership == [state |-> "ACTIVE", version |-> 1, grantedBy |-> work.actor]
<1>1. /\ work \in Work /\ Sound(work)
      /\ work.step = "commit" /\ work.operation = "create"
      /\ scopes[scope] = None
      /\ scopes' = [scopes EXCEPT ![scope] = row]
      /\ memberships' = IF scope \in Organizations
                        THEN [memberships EXCEPT ![owner] = membership] ELSE memberships
      /\ Fresh(work) /\ AddKey(work) /\ audit' = audit
      /\ Report(h, scope, scopes'[scope])
  BY DEF AddScope, Committing, At, TypeOK, HandlersAreSound
<1>2. /\ work.actor \in Principals /\ work.key \in Keys
      /\ scope \in Scopes /\ work.state \in ScopeStates
  BY <1>1, WorkFacts
<1>3. /\ row \in ScopeRows /\ row # None
      /\ membership \in MembershipRows /\ membership # None
      /\ scope \in Organizations => owner \in Grants
  BY <1>2, BoundsAssumption, GrantsAssumption
     DEF ScopeRows, MembershipRows, MembershipStates
<1>4. /\ owner.principal = work.actor /\ owner.scope = scope /\ owner.role = "ORG_OWNER"
  BY DEF OwnerGrant
<1>5. /\ scopes' \in [Scopes -> ScopeRows \cup {None}]
      /\ memberships' \in [Grants -> MembershipRows \cup {None}]
      /\ scopes'[scope] = row
      /\ \A s \in Scopes \ {scope} : scopes'[s] = scopes[s]
      /\ scope \in Organizations => memberships'[owner] = membership
      /\ \A g \in Grants : memberships'[g] # memberships[g] =>
           scope \in Organizations /\ g = owner
  BY <1>1, <1>2, <1>3 DEF TypeOK
<1>6. Grow
  BY <1>1, <1>3, <1>5 DEF Grow
<1>7. Moves(h, [step |-> "audit", event |-> Event(scope, row)])
  <2>1. Report(h, scope, row)
    BY <1>1, <1>5
  <2>2. row.version \in Nat \ {0}
    OBVIOUS
  <2> QED
    BY <2>1, <2>2, <1>2, ReportMoves
<1>8. keys' \subseteq Bindings /\ KeysNameOneResource'
  BY <1>1, <1>2, <1>3, <1>5, <1>6, KeysStaySound
<1>9. TypeOK'
  BY <1>1, <1>5, <1>7, <1>8 DEF TypeOK, Moves
<1>10. HandlersAreSound'
  <2>1. Sound(handler[h])'
    BY <1>7 DEF Moves, Sound
  <2> QED
    BY <2>1, <1>6, <1>7, OthersStaySound DEF Moves
<1>11. MembershipsHaveScopes'
  <2> SUFFICES ASSUME NEW g \in Grants, memberships'[g] # None, g.scope # Platform
               PROVE  scopes'[g.scope] # None
    BY DEF MembershipsHaveScopes
  <2>1. g.scope \in Scopes
    BY GrantsAssumption
  <2>2. CASE memberships'[g] = memberships[g]
    BY <2>1, <2>2, <1>6 DEF MembershipsHaveScopes, Grow
  <2>3. CASE memberships'[g] # memberships[g]
    BY <2>3, <1>3, <1>4, <1>5
  <2> QED
    BY <2>2, <2>3
<1>12. EveryOrganizationHasAnOwner'
  <2> SUFFICES ASSUME NEW o \in Organizations, scopes'[o] # None
               PROVE  ActiveOwners(o)' # {}
    BY DEF EveryOrganizationHasAnOwner
  <2>1. CASE o = scope
    <3>1. owner \in ActiveOwners(o)'
      BY <2>1, <1>3, <1>4, <1>5 DEF ActiveOwners
    <3> QED
      BY <3>1
  <2>2. CASE o # scope
    <3>1. PICK g \in ActiveOwners(o) : TRUE
      BY <2>2, <1>5 DEF EveryOrganizationHasAnOwner, Scopes
    <3>2. g \in ActiveOwners(o)'
      BY <3>1, <2>2, <1>4, <1>5 DEF ActiveOwners
    <3> QED
      BY <3>2
  <2> QED
    BY <2>1, <2>2
<1>13. GrantsComeFromAuthority'
  <2> SUFFICES ASSUME NEW g \in Grants, memberships'[g] # None, g.scope # Platform
               PROVE  \E source \in Grants \ {g} :
                        /\ memberships'[source] # None
                        /\ source.principal = memberships'[g].grantedBy
                        /\ Manage \in RolePermissions[source.role]
                        /\ source.scope \in {Platform, g.scope} \cup Ancestors(g.scope)
    BY DEF GrantsComeFromAuthority
  <2>1. CASE memberships'[g] = memberships[g]
    BY <2>1, <1>6 DEF GrantsComeFromAuthority, Grow
  <2>2. CASE memberships'[g] # memberships[g]
    <3>1. scope \in Organizations /\ g = owner /\ memberships'[g] = membership
      BY <2>2, <1>5
    <3>2. PICK source \in Grants :
            /\ memberships[source] # None
            /\ source.principal = work.actor
            /\ Manage \in RolePermissions[source.role]
            /\ source.scope = Platform
      BY <3>1, <1>1, HierarchyFacts DEF Sound, Source
    <3>3. source # g
      BY <3>2, <3>1, <1>2, <1>4, HierarchyAssumption
    <3> QED
      BY <3>1, <3>2, <3>3, <1>6 DEF Grow
  <2> QED
    BY <2>1, <2>2
<1> QED
  BY <1>8, <1>9, <1>10, <1>11, <1>12, <1>13

LEMMA SaveScopeStep ==
  ASSUME IdentityInv, NEW h \in Handlers, SaveScope(h)
  PROVE  IdentityInv'
<1> USE DEF IdentityInv
<1> DEFINE work == handler[h]
           scope == work.subject
           row == [state |-> work.state, version |-> work.expected + 1]
<1>1. /\ work \in Work /\ Sound(work)
      /\ work.step = "commit" /\ work.operation \in Changes
      /\ scopes' = [scopes EXCEPT ![scope] = row]
      /\ UNCHANGED <<memberships, keys, audit>>
      /\ Report(h, scope, scopes'[scope])
  BY DEF SaveScope, Committing, At, TypeOK, HandlersAreSound
<1>2. /\ scope \in Scopes /\ work.state \in ScopeStates
      /\ work.expected \in Nat \ {0} /\ scopes[scope] # None
  BY <1>1, WorkFacts DEF Sound
<1>3. row \in ScopeRows /\ row # None
  BY <1>2, BoundsAssumption DEF ScopeRows
<1>4. /\ scopes' \in [Scopes -> ScopeRows \cup {None}]
      /\ scopes'[scope] = row
      /\ \A s \in Scopes : scopes'[s] # None <=> scopes[s] # None
  BY <1>1, <1>2, <1>3 DEF TypeOK
<1>5. Grow
  BY <1>1, <1>4 DEF Grow
<1>6. Moves(h, [step |-> "audit", event |-> Event(scope, row)])
  BY <1>1, <1>2, <1>3, <1>4, ReportMoves DEF ScopeRows
<1>7. TypeOK'
  BY <1>1, <1>4, <1>6 DEF TypeOK, Moves
<1>8. HandlersAreSound'
  <2>1. Sound(handler[h])'
    BY <1>6 DEF Moves, Sound
  <2> QED
    BY <2>1, <1>5, <1>6, OthersStaySound DEF Moves
<1>9. MembershipsHaveScopes'
  BY <1>1, <1>4, GrantsAssumption DEF MembershipsHaveScopes
<1>10. EveryOrganizationHasAnOwner'
  BY <1>1, <1>4 DEF EveryOrganizationHasAnOwner, ActiveOwners, Scopes
<1>11. KeysNameOneResource'
  BY <1>1, <1>4 DEF KeysNameOneResource
<1>12. GrantsComeFromAuthority'
  BY <1>1 DEF GrantsComeFromAuthority
<1> QED
  BY <1>7, <1>8, <1>9, <1>10, <1>11, <1>12

LEMMA AddMembershipStep ==
  ASSUME IdentityInv, NEW h \in Handlers, AddMembership(h)
  PROVE  IdentityInv'
<1> USE DEF IdentityInv
<1> DEFINE work == handler[h]
           g == work.subject
           row == [state |-> "ACTIVE", version |-> 1, grantedBy |-> work.actor]
<1>1. /\ work \in Work /\ Sound(work)
      /\ work.step = "commit" /\ work.operation = "grant"
      /\ memberships[g] = None
      /\ memberships' = [memberships EXCEPT ![g] = row]
      /\ Fresh(work) /\ AddKey(work)
      /\ UNCHANGED <<scopes, audit>>
      /\ Report(h, g, memberships'[g])
  BY DEF AddMembership, Committing, At, TypeOK, HandlersAreSound
<1>2. /\ g \in Grants /\ work.actor \in Principals /\ work.key \in Keys
      /\ g \notin Scopes /\ g.scope \in Scopes /\ scopes[g.scope] # None
      /\ Source(work.actor, g.scope)
  BY <1>1, WorkFacts, HierarchyAssumption DEF Sound
<1>3. row \in MembershipRows /\ row # None
  BY <1>2, BoundsAssumption DEF MembershipRows, MembershipStates
<1>4. /\ memberships' \in [Grants -> MembershipRows \cup {None}]
      /\ memberships'[g] = row
      /\ \A f \in Grants \ {g} : memberships'[f] = memberships[f]
  BY <1>1, <1>2, <1>3 DEF TypeOK
<1>5. Grow
  BY <1>1, <1>4 DEF Grow
<1>6. Moves(h, [step |-> "audit", event |-> Event(g, row)])
  <2>1. Report(h, g, row)
    BY <1>1, <1>4
  <2>2. row.state \in MembershipStates
    BY DEF MembershipStates
  <2> QED
    BY <2>1, <2>2, <1>2, ReportMoves
<1>7. keys' \subseteq Bindings /\ KeysNameOneResource'
  BY <1>1, <1>2, <1>3, <1>4, <1>5, KeysStaySound
<1>8. TypeOK'
  BY <1>1, <1>4, <1>6, <1>7 DEF TypeOK, Moves
<1>9. HandlersAreSound'
  <2>1. Sound(handler[h])'
    BY <1>6 DEF Moves, Sound
  <2> QED
    BY <2>1, <1>5, <1>6, OthersStaySound DEF Moves
<1>10. MembershipsHaveScopes'
  BY <1>1, <1>2, <1>4 DEF MembershipsHaveScopes
<1>11. EveryOrganizationHasAnOwner'
  <2> SUFFICES ASSUME NEW o \in Organizations, scopes[o] # None
               PROVE  ActiveOwners(o)' # {}
    BY <1>1 DEF EveryOrganizationHasAnOwner
  <2>1. PICK f \in ActiveOwners(o) : TRUE
    BY DEF EveryOrganizationHasAnOwner
  <2>2. f \in ActiveOwners(o)'
    BY <2>1, <1>1, <1>4 DEF ActiveOwners
  <2> QED
    BY <2>2
<1>12. GrantsComeFromAuthority'
  <2> SUFFICES ASSUME NEW f \in Grants, memberships'[f] # None, f.scope # Platform
               PROVE  \E source \in Grants \ {f} :
                        /\ memberships'[source] # None
                        /\ source.principal = memberships'[f].grantedBy
                        /\ Manage \in RolePermissions[source.role]
                        /\ source.scope \in {Platform, f.scope} \cup Ancestors(f.scope)
    BY DEF GrantsComeFromAuthority
  <2>1. CASE f # g
    BY <2>1, <1>4, <1>5 DEF GrantsComeFromAuthority, Grow
  <2>2. CASE f = g
    <3>1. PICK source \in Grants :
            /\ memberships[source] # None
            /\ source.principal = work.actor
            /\ Manage \in RolePermissions[source.role]
            /\ source.scope \in {Platform, g.scope} \cup Ancestors(g.scope)
      BY <1>2 DEF Source
    <3> QED
      BY <2>2, <3>1, <1>1, <1>4, <1>5 DEF Grow
  <2> QED
    BY <2>1, <2>2
<1> QED
  BY <1>7, <1>8, <1>9, <1>10, <1>11, <1>12

LEMMA SaveMembershipStep ==
  ASSUME IdentityInv, NEW h \in Handlers, SaveMembership(h)
  PROVE  IdentityInv'
<1> USE DEF IdentityInv
<1> DEFINE work == handler[h]
           g == work.subject
           row == [state |-> work.state, version |-> work.expected + 1,
                   grantedBy |-> memberships[g].grantedBy]
<1>1. /\ work \in Work /\ Sound(work)
      /\ work.step = "commit" /\ work.operation = "withdraw"
      /\ MayLeave(g)
      /\ memberships' = [memberships EXCEPT ![g] = row]
      /\ UNCHANGED <<scopes, keys, audit>>
      /\ Report(h, g, memberships'[g])
  BY DEF SaveMembership, Committing, At, TypeOK, HandlersAreSound
<1>2. /\ g \in Grants /\ work.state \in {"SUSPENDED", "REVOKED"}
      /\ work.expected \in Nat \ {0} /\ memberships[g] # None
  BY <1>1, WorkFacts DEF Sound
<1>3. row \in MembershipRows /\ row # None
  BY <1>2, BoundsAssumption DEF TypeOK, MembershipRows, MembershipStates
<1>4. /\ memberships' \in [Grants -> MembershipRows \cup {None}]
      /\ memberships'[g] = row
      /\ \A f \in Grants \ {g} : memberships'[f] = memberships[f]
      /\ \A f \in Grants : memberships'[f] # None <=> memberships[f] # None
  BY <1>1, <1>2, <1>3 DEF TypeOK
<1>5. Grow
  BY <1>1, <1>4 DEF Grow
<1>6. Moves(h, [step |-> "audit", event |-> Event(g, row)])
  <2>1. Report(h, g, row)
    BY <1>1, <1>4
  <2>2. row.state \in MembershipStates
    BY <1>2 DEF MembershipStates
  <2> QED
    BY <2>1, <2>2, <1>2, ReportMoves
<1>7. TypeOK'
  BY <1>1, <1>4, <1>6 DEF TypeOK, Moves
<1>8. HandlersAreSound'
  <2>1. Sound(handler[h])'
    BY <1>6 DEF Moves, Sound
  <2> QED
    BY <2>1, <1>5, <1>6, OthersStaySound DEF Moves
<1>9. MembershipsHaveScopes'
  BY <1>1, <1>4 DEF MembershipsHaveScopes
<1>10. EveryOrganizationHasAnOwner'
  <2> SUFFICES ASSUME NEW o \in Organizations, scopes[o] # None
               PROVE  ActiveOwners(o)' # {}
    BY <1>1 DEF EveryOrganizationHasAnOwner
  <2>1. \E f \in ActiveOwners(o) : f # g
    <3>1. PICK f \in ActiveOwners(o) : TRUE
      BY DEF EveryOrganizationHasAnOwner
    <3>2. CASE f = g
      <4>1. g.scope = o /\ IsActiveOwner(g)
        BY <3>1, <3>2 DEF ActiveOwners, IsActiveOwner
      <4> QED
        BY <4>1, <1>1 DEF MayLeave, Several
    <3> QED
      BY <3>1, <3>2
  <2>2. PICK f \in ActiveOwners(o) : f # g
    BY <2>1
  <2>3. f \in ActiveOwners(o)'
    BY <2>2, <1>4 DEF ActiveOwners
  <2> QED
    BY <2>3
<1>11. KeysNameOneResource'
  BY <1>1, <1>4 DEF KeysNameOneResource, TypeOK, Bindings
<1>12. GrantsComeFromAuthority'
  <2>1. \A f \in Grants : memberships'[f] # None =>
          memberships'[f].grantedBy = memberships[f].grantedBy
    BY <1>4
  <2> QED
    BY <2>1, <1>4 DEF GrantsComeFromAuthority
<1> QED
  BY <1>7, <1>8, <1>9, <1>10, <1>11, <1>12

LEMMA IdentityInvHolds == Spec => []IdentityInv
<1>1. Init => IdentityInv
  <2> SUFFICES ASSUME Init
               PROVE  IdentityInv
    OBVIOUS
  <2>1. memberships \in [Grants -> MembershipRows \cup {None}]
    BY DEF Init, MembershipRows, MembershipStates
  <2>2. TypeOK
    BY <2>1 DEF Init, TypeOK
  <2>3. HandlersAreSound
    BY DEF Init, HandlersAreSound
  <2>4. \A g \in Grants : memberships[g] # None => g.scope = Platform
    BY GrantsAssumption DEF Init
  <2>5. MembershipsHaveScopes /\ GrantsComeFromAuthority
    BY <2>4 DEF MembershipsHaveScopes, GrantsComeFromAuthority
  <2>6. EveryOrganizationHasAnOwner /\ KeysNameOneResource
    BY DEF Init, EveryOrganizationHasAnOwner, KeysNameOneResource, Scopes
  <2> QED
    BY <2>2, <2>3, <2>5, <2>6 DEF IdentityInv
<1>2. IdentityInv /\ [Next]_vars => IdentityInv'
  <2> SUFFICES ASSUME IdentityInv, [Next]_vars
               PROVE  IdentityInv'
    OBVIOUS
  <2>1. ASSUME NEW h \in Handlers, Continue(h)
        PROVE  IdentityInv'
    BY <2>1, AddScopeStep, SaveScopeStep, AddMembershipStep, SaveMembershipStep, EndSteps
       DEF Continue
  <2>2. CASE UNCHANGED vars
    BY <2>2 DEF vars, IdentityInv, TypeOK, HandlersAreSound, Sound, Source,
                MembershipsHaveScopes, EveryOrganizationHasAnOwner, ActiveOwners,
                KeysNameOneResource, GrantsComeFromAuthority
  <2> QED
    BY <2>1, <2>2, ReceiveSteps, EndSteps DEF Next
<1> QED
  BY <1>1, <1>2, PTL DEF Spec

(* Every reachable state is well-typed; no handler writes to a row that does  *)
(* not exist.                                                                 *)
THEOREM IdentityTypeCorrect == Spec => []TypeOK
<1>1. IdentityInv => TypeOK
  BY DEF IdentityInv
<1> QED
  BY <1>1, IdentityInvHolds, PTL

(* transition_membership: whatever number of owners leave at once, one stays. *)
THEOREM OwnersRemain == Spec => []EveryOrganizationHasAnOwner
<1>1. IdentityInv => EveryOrganizationHasAnOwner
  BY DEF IdentityInv
<1> QED
  BY <1>1, IdentityInvHolds, PTL

(* Idempotency records of concurrent creations never contradict each other.   *)
THEOREM KeysAreUnambiguous == Spec => []KeysNameOneResource
<1>1. IdentityInv => KeysNameOneResource
  BY DEF IdentityInv
<1> QED
  BY <1>1, IdentityInvHolds, PTL

(* create_membership and create_organization: no Membership without authority *)
(* over its scope, however grants and withdrawals interleave.                 *)
THEOREM AuthorityIsPassedOn == Spec => []GrantsComeFromAuthority
<1>1. IdentityInv => GrantsComeFromAuthority
  BY DEF IdentityInv
<1> QED
  BY <1>1, IdentityInvHolds, PTL

-------------------------------------------------------------------------------
(* A step changes a row that is there only by moving it to its next version.  *)

SavesScope(h, s) ==
  /\ handler[h] \in Work
  /\ handler[h].step = "commit" /\ handler[h].operation \in Changes
  /\ handler[h].subject = s /\ handler[h].expected = scopes[s].version
  /\ scopes'[s] = [state |-> handler[h].state, version |-> scopes[s].version + 1]

SavesMembership(h, g) ==
  /\ handler[h] \in Work
  /\ handler[h].step = "commit" /\ handler[h].operation = "withdraw"
  /\ handler[h].subject = g /\ handler[h].expected = memberships[g].version
  /\ handler[h].state \in {"SUSPENDED", "REVOKED"}
  /\ memberships'[g] = [state |-> handler[h].state, version |-> memberships[g].version + 1,
                        grantedBy |-> memberships[g].grantedBy]

LEMMA RowsAdvance ==
  ASSUME IdentityInv, NEW h \in Handlers, Receive(h) \/ Continue(h) \/ Abandon(h)
  PROVE  /\ \A s \in Scopes : scopes[s] # None =>
              scopes'[s] = scopes[s] \/ SavesScope(h, s)
         /\ \A g \in Grants : memberships[g] # None =>
              memberships'[g] = memberships[g] \/ SavesMembership(h, g)
<1> USE DEF IdentityInv
<1> DEFINE work == handler[h]
<1>0. ASSUME work # Idle
      PROVE  work \in Work /\ Sound(work)
  BY <1>0 DEF TypeOK, HandlersAreSound
<1>1. CASE Receive(h) \/ Replay(h) \/ CountOwners(h) \/ AppendAudit(h) \/ Abandon(h)
  BY <1>1 DEF Receive, BeginCreate, BeginChange, BeginGrant, BeginWithdraw, Replay,
              CountOwners, AppendAudit, Abandon
<1>2. CASE AddScope(h)
  <2> DEFINE owner == OwnerGrant(work.actor, work.subject)
  <2>1. /\ work \in Work
        /\ work.step = "commit" /\ work.operation = "create"
        /\ scopes[work.subject] = None
        /\ scopes' = [scopes EXCEPT ![work.subject] = [state |-> work.state, version |-> 1]]
        /\ memberships' = IF work.subject \in Organizations
                          THEN [memberships EXCEPT ![owner] =
                            [state |-> "ACTIVE", version |-> 1, grantedBy |-> work.actor]]
                          ELSE memberships
    BY <1>0, <1>2 DEF AddScope, Committing, At
  <2>2. work.subject \in Scopes /\ work.actor \in Principals
    BY <2>1, WorkFacts
  <2>3. work.subject \in Organizations => owner \in Grants /\ owner.scope = work.subject
    BY <2>2, GrantsAssumption DEF OwnerGrant
  <2>4. work.subject \in Organizations => memberships[owner] = None
    BY <2>1, <2>2, <2>3, HierarchyAssumption DEF MembershipsHaveScopes
  <2> QED
    BY <2>1, <2>2, <2>3, <2>4 DEF TypeOK
<1>3. CASE SaveScope(h)
  <2>1. /\ work \in Work /\ Sound(work)
        /\ work.step = "commit" /\ work.operation \in Changes
        /\ scopes[work.subject].version = work.expected
        /\ scopes' = [scopes EXCEPT ![work.subject] =
             [state |-> work.state, version |-> work.expected + 1]]
        /\ UNCHANGED memberships
    BY <1>0, <1>3 DEF SaveScope, Committing, At, Unmoved
  <2> QED
    BY <2>1 DEF SavesScope, TypeOK
<1>4. CASE AddMembership(h)
  BY <1>4 DEF AddMembership, TypeOK
<1>5. CASE SaveMembership(h)
  <2>1. /\ work \in Work /\ Sound(work)
        /\ work.step = "commit" /\ work.operation = "withdraw"
        /\ memberships[work.subject].version = work.expected
        /\ memberships' = [memberships EXCEPT ![work.subject] =
             [state |-> work.state, version |-> work.expected + 1,
              grantedBy |-> memberships[work.subject].grantedBy]]
        /\ UNCHANGED scopes
    BY <1>0, <1>5 DEF SaveMembership, Committing, At, Unmoved
  <2>2. work.state \in {"SUSPENDED", "REVOKED"}
    BY <2>1 DEF Sound
  <2> QED
    BY <2>1, <2>2 DEF SavesMembership, TypeOK
<1> QED
  BY <1>1, <1>2, <1>3, <1>4, <1>5 DEF Continue

-------------------------------------------------------------------------------
(* If no expectedVersion runs ahead, what a handler decided on is still there *)
(* at its commit, or the version has moved on and the commit fails.           *)

Current(work) ==
  /\ work.step = "commit" /\ work.operation \in Changes =>
       /\ work.expected <= scopes[work.subject].version
       /\ work.expected = scopes[work.subject].version =>
            /\ scopes[work.subject].state # "ARCHIVED"
            /\ work.state = "DRAFT" => scopes[work.subject].state = "DRAFT"
  /\ work.step # "audit" /\ work.operation = "withdraw" =>
       /\ work.expected <= memberships[work.subject].version
       /\ work.expected = memberships[work.subject].version =>
            memberships[work.subject].state # "REVOKED"

ReadsAreCurrent == \A h \in Handlers : handler[h] # Idle => Current(handler[h])

(* A handler that is not the one to move keeps a current read, or loses it.   *)
LEMMA OthersStayCurrent ==
  ASSUME IdentityInv, ReadsAreCurrent, NEW h \in Handlers,
         Receive(h) \/ Continue(h) \/ Abandon(h),
         NEW f \in Handlers, handler[f] # Idle, handler'[f] = handler[f]
  PROVE  Current(handler[f])'
<1> DEFINE work == handler[f]
<1>1. work \in Work /\ Sound(work) /\ Current(work)
  BY DEF IdentityInv, TypeOK, HandlersAreSound, ReadsAreCurrent
<1>2. ASSUME work.step = "commit", work.operation \in Changes
      PROVE  /\ work.expected <= scopes'[work.subject].version
             /\ work.expected = scopes'[work.subject].version =>
                  /\ scopes'[work.subject].state # "ARCHIVED"
                  /\ work.state = "DRAFT" => scopes'[work.subject].state = "DRAFT"
  <2> DEFINE s == work.subject
  <2>1. /\ s \in Scopes /\ scopes[s] # None /\ scopes[s] \in ScopeRows
        /\ work.expected \in Nat
    BY <1>1, <1>2, WorkFacts DEF Sound, IdentityInv, TypeOK
  <2>2. CASE scopes'[s] = scopes[s]
    BY <2>2, <1>1, <1>2 DEF Current
  <2>3. CASE SavesScope(h, s)
    <3>1. work.expected <= scopes[s].version /\ scopes[s].version \in Nat
      BY <1>1, <1>2, <2>1 DEF Current, ScopeRows
    <3>2. scopes'[s].version = scopes[s].version + 1
      BY <2>3 DEF SavesScope
    <3> QED
      BY <2>1, <3>1, <3>2
  <2> QED
    BY <2>1, <2>2, <2>3, RowsAdvance
<1>3. ASSUME work.step # "audit", work.operation = "withdraw"
      PROVE  /\ work.expected <= memberships'[work.subject].version
             /\ work.expected = memberships'[work.subject].version =>
                  memberships'[work.subject].state # "REVOKED"
  <2> DEFINE g == work.subject
  <2>1. /\ g \in Grants /\ memberships[g] # None /\ memberships[g] \in MembershipRows
        /\ work.expected \in Nat
    BY <1>1, <1>3, WorkFacts DEF Sound, IdentityInv, TypeOK
  <2>2. CASE memberships'[g] = memberships[g]
    BY <2>2, <1>1, <1>3 DEF Current
  <2>3. CASE SavesMembership(h, g)
    <3>1. work.expected <= memberships[g].version /\ memberships[g].version \in Nat
      BY <1>1, <1>3, <2>1 DEF Current, MembershipRows
    <3>2. memberships'[g].version = memberships[g].version + 1
      BY <2>3 DEF SavesMembership
    <3> QED
      BY <2>1, <3>1, <3>2
  <2> QED
    BY <2>1, <2>2, <2>3, RowsAdvance
<1> QED
  BY <1>2, <1>3 DEF Current

LEMMA MoverIsCurrent ==
  ASSUME IdentityInv, ReadsAreCurrent, ExpectedAhead = 0, NEW h \in Handlers,
         Receive(h) \/ Continue(h) \/ Abandon(h), handler'[h] # Idle
  PROVE  Current(handler[h])'
<1> USE DEF IdentityInv
<1>1. ASSUME NEW actor \in Principals, NEW scope \in Scopes, NEW key \in Keys,
             BeginCreate(h, actor, scope, key)
      PROVE  Current(handler[h])'
  <2>1. handler'[h].step = "commit" /\ handler'[h].operation = "create"
    BY <1>1 DEF BeginCreate, HoldNew, TypeOK
  <2> QED
    BY <2>1 DEF Current, Changes
<1>2. ASSUME NEW actor \in Principals, NEW operation \in Changes, NEW scope \in Scopes,
             NEW expected \in 1..(MaxVersion - 1),
             BeginChange(h, actor, operation, scope, expected)
      PROVE  Current(handler[h])'
  <2>1. /\ scopes[scope] \in ScopeRows /\ scopes[scope].state # "ARCHIVED"
        /\ expected \in scopes[scope].version..(scopes[scope].version + ExpectedAhead)
        /\ handler'[h] = [step |-> "commit", operation |-> operation, subject |-> scope,
             state |-> Leads(operation, scopes[scope].state), expected |-> expected]
        /\ scopes' = scopes
    BY <1>2 DEF BeginChange, HoldChange, TypeOK
  <2>2. expected = scopes[scope].version /\ scopes[scope].state \in ScopeStates
    BY <2>1 DEF ScopeRows
  <2>3. expected <= scopes[scope].version
    BY <2>1, <2>2 DEF ScopeRows
  <2>4. Leads(operation, scopes[scope].state) = "DRAFT" => scopes[scope].state = "DRAFT"
    BY <2>2, LeadsFacts
  <2> QED
    BY <2>1, <2>3, <2>4 DEF Current, Changes
<1>3. ASSUME NEW actor \in Principals, NEW g \in Grants, NEW key \in Keys,
             BeginGrant(h, actor, g, key)
      PROVE  Current(handler[h])'
  <2>1. handler'[h].step = "commit" /\ handler'[h].operation = "grant"
    BY <1>3 DEF BeginGrant, HoldNew, TypeOK
  <2> QED
    BY <2>1 DEF Current, Changes
<1>4. ASSUME NEW actor \in Principals, NEW g \in Grants,
             NEW target \in {"SUSPENDED", "REVOKED"}, NEW expected \in 1..(MaxVersion - 1),
             BeginWithdraw(h, actor, g, target, expected)
      PROVE  Current(handler[h])'
  <2>1. /\ memberships[g] \in MembershipRows /\ memberships[g].state # "REVOKED"
        /\ expected \in memberships[g].version..(memberships[g].version + ExpectedAhead)
        /\ handler'[h].operation = "withdraw" /\ handler'[h].subject = g
        /\ handler'[h].expected = expected
        /\ memberships' = memberships
    BY <1>4 DEF BeginWithdraw, HoldChange, TypeOK
  <2>2. expected <= memberships[g].version
    BY <2>1 DEF MembershipRows
  <2> QED
    BY <2>1, <2>2 DEF Current, Changes
<1>5. CASE CountOwners(h)
  <2> DEFINE work == handler[h]
  <2>1. /\ work # Idle /\ work.step = "countOwners"
        /\ handler'[h].operation = "withdraw" /\ handler'[h].subject = work.subject
        /\ handler'[h].expected = work.expected
        /\ memberships' = memberships
    BY <1>5 DEF CountOwners, At, HoldChange, TypeOK
  <2>2. work.operation = "withdraw" /\ Current(work)
    BY <2>1, WorkFacts DEF ReadsAreCurrent, TypeOK
  <2> QED
    BY <2>1, <2>2 DEF Current, Changes
<1>6. CASE AddScope(h) \/ SaveScope(h) \/ AddMembership(h) \/ SaveMembership(h) \/ Replay(h)
  <2>1. \E subject, row : Report(h, subject, row)
    BY <1>6 DEF AddScope, SaveScope, AddMembership, SaveMembership, Replay
  <2>2. handler'[h].step = "audit"
    BY <2>1 DEF Report, TypeOK
  <2> QED
    BY <2>2 DEF Current
<1>7. CASE AppendAudit(h) \/ Abandon(h)
  BY <1>7 DEF AppendAudit, Abandon, Finish, TypeOK
<1> QED
  BY <1>1, <1>2, <1>3, <1>4, <1>5, <1>6, <1>7 DEF Receive, Continue

LEMMA NothingIsRevivedStep ==
  ASSUME IdentityInv, ReadsAreCurrent, NEW h \in Handlers,
         Receive(h) \/ Continue(h) \/ Abandon(h)
  PROVE  /\ \A s \in Scopes : scopes[s] # None =>
              /\ scopes'[s] # None
              /\ scopes[s].state = "ARCHIVED" => scopes'[s] = scopes[s]
              /\ scopes'[s].state = "DRAFT" => scopes[s].state = "DRAFT"
         /\ \A g \in Grants : memberships[g] # None =>
              /\ memberships'[g] # None
              /\ memberships[g].state = "REVOKED" => memberships'[g] = memberships[g]
              /\ memberships'[g].state = "ACTIVE" => memberships[g].state = "ACTIVE"
<1>1. TypeOK' /\ TypeOK
  BY ReceiveSteps, AddScopeStep, SaveScopeStep, AddMembershipStep, SaveMembershipStep, EndSteps
     DEF Continue, IdentityInv
<1>2. ASSUME handler[h] \in Work
      PROVE  Current(handler[h])
  BY <1>2, BoundsAssumption DEF ReadsAreCurrent
<1>3. ASSUME NEW s \in Scopes, scopes[s] # None
      PROVE  /\ scopes'[s] # None
             /\ scopes[s].state = "ARCHIVED" => scopes'[s] = scopes[s]
             /\ scopes'[s].state = "DRAFT" => scopes[s].state = "DRAFT"
  <2>1. CASE scopes'[s] = scopes[s]
    BY <2>1, <1>3
  <2>2. CASE SavesScope(h, s)
    <3>1. handler[h].state \in ScopeStates /\ scopes[s] \in ScopeRows
      BY <2>2, <1>1, <1>3, WorkFacts DEF SavesScope, TypeOK
    <3>2. scopes'[s] \in ScopeRows
      BY <2>2, <3>1 DEF SavesScope, ScopeRows
    <3> QED
      BY <2>2, <3>2, <1>2, BoundsAssumption DEF SavesScope, Current
  <2> QED
    BY <1>3, <2>1, <2>2, RowsAdvance
<1>4. ASSUME NEW g \in Grants, memberships[g] # None
      PROVE  /\ memberships'[g] # None
             /\ memberships[g].state = "REVOKED" => memberships'[g] = memberships[g]
             /\ memberships'[g].state = "ACTIVE" => memberships[g].state = "ACTIVE"
  <2>1. CASE memberships'[g] = memberships[g]
    BY <2>1, <1>4
  <2>2. CASE SavesMembership(h, g)
    <3>1. memberships[g] \in MembershipRows
      BY <1>1, <1>4 DEF TypeOK
    <3>2. memberships'[g] \in MembershipRows
      BY <2>2, <3>1 DEF SavesMembership, MembershipRows, MembershipStates
    <3> QED
      BY <2>2, <3>2, <1>2, BoundsAssumption DEF SavesMembership, Current
  <2> QED
    BY <1>4, <2>1, <2>2, RowsAdvance
<1> QED
  BY <1>3, <1>4

(* If no expectedVersion runs ahead, archiving, revoking, activating and      *)
(* suspending are for good, however requests interleave.                      *)
THEOREM WithdrawalIsForGood == (ExpectedAhead = 0) => (Spec => NothingIsRevived)
<1> SUFFICES ASSUME ExpectedAhead = 0
             PROVE  Spec => NothingIsRevived
  OBVIOUS
<1>1. Init => ReadsAreCurrent
  BY DEF Init, ReadsAreCurrent
<1>2. IdentityInv /\ ReadsAreCurrent /\ [Next]_vars => ReadsAreCurrent'
  <2> SUFFICES ASSUME IdentityInv, ReadsAreCurrent, [Next]_vars,
                      NEW f \in Handlers, handler'[f] # Idle
               PROVE  Current(handler[f])'
    BY DEF ReadsAreCurrent
  <2>1. ASSUME NEW h \in Handlers, Receive(h) \/ Continue(h) \/ Abandon(h)
        PROVE  Current(handler[f])'
    <3>1. CASE f = h
      BY <2>1, <3>1, MoverIsCurrent
    <3>2. CASE f # h
      <4>1. handler'[f] = handler[f]
        BY <2>1, <3>2 DEF IdentityInv, TypeOK, Receive, Continue, Abandon, BeginCreate,
             BeginChange, BeginGrant, BeginWithdraw, AddScope, SaveScope, AddMembership,
             Replay, CountOwners, SaveMembership, AppendAudit, HoldNew, HoldChange, Report,
             Finish
      <4> QED
        BY <2>1, <4>1, OthersStayCurrent
    <3> QED
      BY <3>1, <3>2
  <2>2. CASE UNCHANGED vars
    BY <2>2 DEF vars, ReadsAreCurrent, Current
  <2> QED
    BY <2>1, <2>2 DEF Next
<1>3. IdentityInv /\ ReadsAreCurrent /\ Next =>
        (/\ \A s \in Scopes : scopes[s] # None =>
              /\ scopes'[s] # None
              /\ scopes[s].state = "ARCHIVED" => scopes'[s] = scopes[s]
              /\ scopes'[s].state = "DRAFT" => scopes[s].state = "DRAFT"
         /\ \A g \in Grants : memberships[g] # None =>
              /\ memberships'[g] # None
              /\ memberships[g].state = "REVOKED" => memberships'[g] = memberships[g]
              /\ memberships'[g].state = "ACTIVE" => memberships[g].state = "ACTIVE")
  BY NothingIsRevivedStep DEF Next
<1> QED
  BY <1>1, <1>2, <1>3, IdentityInvHolds, PTL DEF Spec, NothingIsRevived

-------------------------------------------------------------------------------
(* Nothing new is begun below an archived scope.                              *)
LEMMA SealedStep ==
  ASSUME IdentityInv, NEW h \in Handlers, Receive(h) \/ Continue(h) \/ Abandon(h),
         NEW scope \in Scopes, Sealed(scope), ~InFlight(scope)
  PROVE  scopes'[scope] = scopes[scope] /\ ~InFlight(scope)'
<1> USE DEF IdentityInv
<1> DEFINE work == handler[h]
<1>1. scopes'[scope] = scopes[scope]
  <2>1. ASSUME work # Idle, work.step = "commit"
        PROVE  work.subject # scope
    BY <2>1 DEF InFlight, At
  <2>2. CASE AddScope(h) \/ SaveScope(h)
    BY <2>1, <2>2 DEF AddScope, SaveScope, Committing, At, TypeOK
  <2>3. CASE ~(AddScope(h) \/ SaveScope(h))
    BY <2>3 DEF Receive, Continue, Abandon, BeginCreate, BeginChange, BeginGrant,
         BeginWithdraw, AddMembership, Replay, CountOwners, SaveMembership, AppendAudit
  <2> QED
    BY <2>2, <2>3
<1>2. ~AncestorsActive(scope)
  BY DEF Sealed, AncestorsActive, Active
<1>3. ASSUME handler'[h] # Idle, handler'[h].step = "commit"
      PROVE  handler'[h].subject # scope
  <2>1. ASSUME NEW actor \in Principals, NEW other \in Scopes, NEW key \in Keys,
               BeginCreate(h, actor, other, key)
        PROVE  handler'[h].subject # scope
    BY <2>1, <1>2 DEF BeginCreate, HoldNew, TypeOK
  <2>2. ASSUME NEW actor \in Principals, NEW operation \in Changes, NEW other \in Scopes,
               NEW expected \in 1..(MaxVersion - 1),
               BeginChange(h, actor, operation, other, expected)
        PROVE  handler'[h].subject # scope
    BY <2>2, <1>2 DEF BeginChange, HoldChange, TypeOK
  <2>3. ASSUME NEW actor \in Principals, NEW g \in Grants, NEW key \in Keys,
               BeginGrant(h, actor, g, key)
        PROVE  handler'[h].subject # scope
    BY <2>3, HierarchyAssumption DEF BeginGrant, HoldNew, TypeOK
  <2>4. ASSUME NEW actor \in Principals, NEW g \in Grants,
               NEW target \in {"SUSPENDED", "REVOKED"}, NEW expected \in 1..(MaxVersion - 1),
               BeginWithdraw(h, actor, g, target, expected)
        PROVE  handler'[h].subject # scope
    BY <2>4, HierarchyAssumption DEF BeginWithdraw, HoldChange, TypeOK
  <2>5. CASE CountOwners(h)
    <3>1. work.subject \in Grants
      BY <2>5, WorkFacts DEF CountOwners, At, TypeOK
    <3> QED
      BY <2>5, <3>1, HierarchyAssumption DEF CountOwners, HoldChange, TypeOK
  <2>6. CASE AddScope(h) \/ SaveScope(h) \/ AddMembership(h) \/ SaveMembership(h) \/ Replay(h)
    <3>1. \E subject, row : Report(h, subject, row)
      BY <2>6 DEF AddScope, SaveScope, AddMembership, SaveMembership, Replay
    <3>2. handler'[h].step = "audit"
      BY <3>1 DEF Report, TypeOK
    <3> QED
      BY <1>3, <3>2
  <2>7. CASE AppendAudit(h) \/ Abandon(h)
    BY <2>7, <1>3 DEF AppendAudit, Abandon, Finish, TypeOK
  <2> QED
    BY <2>1, <2>2, <2>3, <2>4, <2>5, <2>6, <2>7 DEF Receive, Continue
<1>4. \A f \in Handlers \ {h} : handler'[f] = handler[f]
  BY DEF TypeOK, Receive, Continue, Abandon, BeginCreate,
         BeginChange, BeginGrant, BeginWithdraw, AddScope, SaveScope, AddMembership,
         Replay, CountOwners, SaveMembership, AppendAudit, HoldNew, HoldChange, Report,
         Finish
<1> QED
  BY <1>1, <1>3, <1>4 DEF InFlight, At

(* An archived scope shuts what is below it: after the writes in flight there *)
(* is none, however deep the write and whoever sends it.                      *)
THEOREM SealedSubtreesSettle == Spec => ArchivedSubtreesSettle
<1>1. IdentityInv /\ Next =>
        \A scope \in Scopes : Sealed(scope) /\ ~InFlight(scope) =>
          scopes'[scope] = scopes[scope] /\ ~InFlight(scope)'
  BY SealedStep DEF Next
<1> QED
  BY <1>1, IdentityInvHolds, PTL DEF Spec, ArchivedSubtreesSettle

-------------------------------------------------------------------------------
(* The step that writes a row leaves its handler with the event about it.     *)
Leaves(h, event) == handler'[h] # Idle /\ handler'[h] = [step |-> "audit", event |-> event]

LEMMA WritesAreReported ==
  ASSUME IdentityInv, NEW h \in Handlers, Receive(h) \/ Continue(h) \/ Abandon(h)
  PROVE  /\ \A s \in Scopes : scopes'[s] # scopes[s] =>
              /\ Leaves(h, <<s, scopes'[s].version>>)
              /\ scopes[s] = None => scopes'[s].version = 1
         /\ \A g \in Grants : memberships'[g] # memberships[g] =>
              memberships'[g].state = "ACTIVE" \/ Leaves(h, <<g, memberships'[g].state>>)
<1> USE DEF IdentityInv
<1> DEFINE work == handler[h]
<1>0. ASSUME work # Idle
      PROVE  work \in Work /\ Sound(work)
  BY <1>0 DEF TypeOK, HandlersAreSound
<1>1. ASSUME NEW subject, NEW row, Report(h, subject, row), Event(subject, row) \in Events
      PROVE  Leaves(h, Event(subject, row))
  <2>1. [step |-> "audit", event |-> Event(subject, row)] \in Work
    BY <1>1 DEF Work
  <2> QED
    BY <2>1, <1>1, BoundsAssumption DEF Report, TypeOK, Leaves
<1>2. CASE Receive(h) \/ Replay(h) \/ CountOwners(h) \/ AppendAudit(h) \/ Abandon(h)
  BY <1>2 DEF Receive, BeginCreate, BeginChange, BeginGrant, BeginWithdraw, Replay,
              CountOwners, AppendAudit, Abandon
<1>3. CASE AddScope(h)
  <2>1. /\ work \in Work
        /\ work.step = "commit" /\ work.operation = "create"
        /\ scopes' = [scopes EXCEPT ![work.subject] = [state |-> work.state, version |-> 1]]
        /\ memberships' = IF work.subject \in Organizations
                          THEN [memberships EXCEPT ![OwnerGrant(work.actor, work.subject)] =
                            [state |-> "ACTIVE", version |-> 1, grantedBy |-> work.actor]]
                          ELSE memberships
        /\ Report(h, work.subject, scopes'[work.subject])
    BY <1>0, <1>3 DEF AddScope, Committing, At
  <2>2. work.subject \in Scopes
    BY <2>1, WorkFacts
  <2>3. /\ scopes'[work.subject].version = 1
        /\ \A s \in Scopes : scopes'[s] # scopes[s] => s = work.subject
    BY <2>1, <2>2 DEF TypeOK
  <2>4. Event(work.subject, scopes'[work.subject]) = <<work.subject, 1>>
    BY <2>2, <2>3 DEF Event
  <2>5. Leaves(h, <<work.subject, 1>>)
    BY <2>1, <2>2, <2>4, <1>1 DEF Events
  <2>6. \A g \in Grants : memberships'[g] # memberships[g] => memberships'[g].state = "ACTIVE"
    BY <2>1 DEF TypeOK
  <2> QED
    BY <2>3, <2>5, <2>6
<1>4. CASE SaveScope(h)
  <2> DEFINE version == work.expected + 1
  <2>1. /\ work \in Work /\ Sound(work)
        /\ work.step = "commit" /\ work.operation \in Changes
        /\ scopes' = [scopes EXCEPT ![work.subject] =
             [state |-> work.state, version |-> version]]
        /\ memberships' = memberships
        /\ Report(h, work.subject, scopes'[work.subject])
    BY <1>0, <1>4 DEF SaveScope, Committing, At
  <2>2. /\ work.subject \in Scopes /\ scopes[work.subject] # None
        /\ version \in Nat \ {0}
    BY <2>1, WorkFacts DEF Sound
  <2>3. /\ scopes'[work.subject].version = version
        /\ \A s \in Scopes : scopes'[s] # scopes[s] => s = work.subject
    BY <2>1, <2>2 DEF TypeOK
  <2>4. Event(work.subject, scopes'[work.subject]) = <<work.subject, version>>
    BY <2>2, <2>3 DEF Event
  <2>5. Event(work.subject, scopes'[work.subject]) \in Events
    BY <2>2, <2>4 DEF Events
  <2>6. Leaves(h, Event(work.subject, scopes'[work.subject]))
    BY <2>1, <2>5, <1>1
  <2>7. ASSUME NEW s \in Scopes, scopes'[s] # scopes[s]
        PROVE  Leaves(h, <<s, scopes'[s].version>>)
    BY <2>2, <2>3, <2>6, <2>7 DEF Event
  <2> QED
    BY <2>1, <2>2, <2>3, <2>7
<1>5. CASE AddMembership(h)
  BY <1>0, <1>5, WorkFacts DEF AddMembership, Committing, At, TypeOK
<1>6. CASE SaveMembership(h)
  <2> DEFINE g == work.subject
  <2>1. /\ work \in Work
        /\ work.step = "commit" /\ work.operation = "withdraw"
        /\ memberships' = [memberships EXCEPT ![g] =
             [state |-> work.state, version |-> work.expected + 1,
              grantedBy |-> memberships[g].grantedBy]]
        /\ scopes' = scopes
        /\ Report(h, g, memberships'[g])
    BY <1>0, <1>6 DEF SaveMembership, Committing, At
  <2>2. g \in Grants /\ g \notin Scopes /\ work.state \in MembershipStates
    BY <2>1, WorkFacts, HierarchyAssumption
  <2>3. /\ memberships'[g].state = work.state
        /\ \A f \in Grants : memberships'[f] # memberships[f] => f = g
    BY <2>1, <2>2 DEF TypeOK
  <2>4. Event(g, memberships'[g]) = <<g, memberships'[g].state>>
    BY <2>2 DEF Event
  <2>5. Event(g, memberships'[g]) \in Events
    BY <2>2, <2>3, <2>4 DEF Events
  <2>6. Leaves(h, Event(g, memberships'[g]))
    BY <2>1, <2>5, <1>1
  <2> QED
    BY <2>1, <2>3, <2>4, <2>6
<1> QED
  BY <1>2, <1>3, <1>4, <1>5, <1>6 DEF Continue

LEMMA ReportsStay ==
  ASSUME TypeOK, ~MayDie, Next, NEW event, Reported(event)
  PROVE  Reported(event)'
<1>1. CASE event \in audit
  <2>1. PICK h \in Handlers : Receive(h) \/ Continue(h) \/ Abandon(h)
    BY DEF Next
  <2>2. CASE AppendAudit(h)
    BY <1>1, <2>2 DEF AppendAudit, Reported
  <2>3. CASE ~AppendAudit(h)
    <3>1. UNCHANGED audit
      BY <2>1, <2>3 DEF Receive, Continue, Abandon, BeginCreate, BeginChange, BeginGrant,
         BeginWithdraw, AddScope, SaveScope, AddMembership, Replay, CountOwners,
         SaveMembership
    <3> QED
      BY <1>1, <3>1 DEF Reported
  <2> QED
    BY <2>2, <2>3
<1>2. ASSUME NEW f \in Handlers, At(f, "audit"), handler[f].event = event
      PROVE  Reported(event)'
  <2>1. PICK h \in Handlers : Receive(h) \/ Continue(h) \/ Abandon(h)
    BY DEF Next
  <2>2. CASE AppendAudit(h)
    <3>1. CASE f = h
      BY <1>2, <2>2, <3>1 DEF AppendAudit, Reported
    <3>2. CASE f # h
      BY <1>2, <2>2, <3>2 DEF AppendAudit, Finish, Reported, At, TypeOK
    <3> QED
      BY <3>1, <3>2
  <2>3. CASE ~AppendAudit(h)
    <3>1. f # h
      BY <1>2, <2>1, <2>3 DEF At, Receive, Continue, Abandon, BeginCreate, BeginChange,
         BeginGrant, BeginWithdraw, AddScope, SaveScope, AddMembership, Replay,
         CountOwners, SaveMembership, Committing
    <3>2. handler'[f] = handler[f]
      BY <2>1, <3>1 DEF TypeOK, Receive, Continue, Abandon, BeginCreate, BeginChange,
         BeginGrant, BeginWithdraw, AddScope, SaveScope, AddMembership, Replay,
         CountOwners, SaveMembership, AppendAudit, HoldNew, HoldChange, Report, Finish
    <3> QED
      BY <1>2, <3>2 DEF Reported, At
  <2> QED
    BY <2>2, <2>3
<1> QED
  BY <1>1, <1>2 DEF Reported

LEMMA ChangesAreAuditedStep ==
  ASSUME IdentityInv, ~MayDie, ChangesAreAudited, Next
  PROVE  ChangesAreAudited'
<1> USE DEF IdentityInv
<1>0. PICK h \in Handlers : Receive(h) \/ Continue(h) \/ Abandon(h)
  BY DEF Next
<1>1. ASSUME NEW event, Leaves(h, event)
      PROVE  Reported(event)'
  BY <1>1 DEF Leaves, Reported, At
<1>2. ASSUME NEW s \in Scopes, scopes'[s] # None, NEW version \in 1..scopes'[s].version
      PROVE  Reported(<<s, version>>)'
  <2>1. CASE scopes'[s] = scopes[s]
    BY <1>2, <2>1, ReportsStay DEF ChangesAreAudited
  <2>2. CASE scopes'[s] # scopes[s] /\ version = scopes'[s].version
    <3>1. Leaves(h, <<s, version>>)
      BY <1>0, <2>2, WritesAreReported
    <3> QED
      BY <1>1, <3>1
  <2>3. CASE scopes'[s] # scopes[s] /\ version # scopes'[s].version
    <3>1. scopes[s] # None
      <4>1. scopes[s] = None => scopes'[s].version = 1
        BY <1>0, <2>3, WritesAreReported
      <4> QED
        BY <1>2, <2>3, <4>1
    <3>2. SavesScope(h, s)
      BY <1>0, <2>3, <3>1, RowsAdvance
    <3>3. scopes'[s].version = scopes[s].version + 1 /\ scopes[s].version \in Nat
      BY <3>1, <3>2 DEF SavesScope, TypeOK, ScopeRows
    <3>4. version \in 1..scopes[s].version
      BY <1>2, <2>3, <3>3
    <3> QED
      BY <3>1, <3>4, ReportsStay DEF ChangesAreAudited
  <2> QED
    BY <2>1, <2>2, <2>3
<1>3. ASSUME NEW g \in Grants, memberships'[g] # None,
             NEW state, state = memberships'[g].state, state # "ACTIVE"
      PROVE  Reported(<<g, state>>)'
  <2>1. CASE memberships'[g] = memberships[g]
    <3>1. Reported(<<g, state>>)
      BY <1>3, <2>1 DEF ChangesAreAudited
    <3> QED
      BY <3>1, ReportsStay
  <2>2. CASE memberships'[g] # memberships[g]
    <3>1. Leaves(h, <<g, state>>)
      BY <1>0, <1>3, <2>2, WritesAreReported
    <3> QED
      BY <1>1, <3>1
  <2> QED
    BY <2>1, <2>2
<1>4. \A g \in Grants : memberships'[g] # None =>
        memberships'[g].state = "ACTIVE" \/ Reported(<<g, memberships[g].state>>)'
  BY <1>3 DEF Reported
<1> QED
  BY <1>2, <1>4 DEF ChangesAreAudited

(* If no thread dies between its commit and its event, no change of the       *)
(* hierarchy and no withdrawal goes unrecorded, whoever was faster.           *)
THEOREM ChangesAreRecorded == ~MayDie => (Spec => []ChangesAreAudited)
<1> SUFFICES ASSUME ~MayDie
             PROVE  Spec => []ChangesAreAudited
  OBVIOUS
<1>1. Init => ChangesAreAudited
  BY GrantsAssumption DEF Init, ChangesAreAudited
<1>2. IdentityInv /\ ChangesAreAudited /\ [Next]_vars => ChangesAreAudited'
  <2>1. ASSUME IdentityInv, ChangesAreAudited, Next
        PROVE  ChangesAreAudited'
    BY <2>1, ChangesAreAuditedStep
  <2>2. ChangesAreAudited /\ UNCHANGED vars => ChangesAreAudited'
    BY DEF vars, ChangesAreAudited, Reported, At
  <2> QED
    BY <2>1, <2>2
<1> QED
  BY <1>1, <1>2, IdentityInvHolds, PTL DEF Spec

===============================================================================
