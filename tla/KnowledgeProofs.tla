---------------------------- MODULE KnowledgeProofs ----------------------------
(***************************************************************************)
(* Proofs about KnowledgeContext: whatever any number of threads compile,  *)
(* publish, withdraw and switch at the same time, for any registry, any    *)
(* contents and any requests.                                              *)
(***************************************************************************)
EXTENDS KnowledgeContext, TLAPS

USE DEF Contents

-------------------------------------------------------------------------------
(* What a thread holds is known from its step and operation.                  *)

LEMMA OperationFacts ==
  /\ <<"knowledge-asset", "create">> \in Operations
  /\ <<"context", "compile">> \in Operations
  /\ <<"grounding", "validate">> \in Operations
  /\ <<"semantic-impact", "analyze">> \in Operations
  /\ \A c : \A verb \in {"register"} \cup Transitions :
       /\ <<KindOf(c), verb>> \in Operations
       /\ <<KindOf(c), verb>> \in {"knowledge-version", "semantic-payload"} \X
                                    ({"register"} \cup Transitions)
  /\ \A operation \in Operations : operation[2] \in Verbs
  BY DEF Operations, Verbs, KindOf, Transitions

LEMMA WorkByVerb ==
  ASSUME NEW w \in Work, w.step # "audit"
  PROVE  /\ w.operation \in Operations
         /\ w.operation[2] \in Verbs
         /\ w.key \in Keys
         /\ w.request \in Requests
         /\ w.operation[2] = "create" => w \in AssetWork
         /\ w.operation[2] \in {"register"} \cup Transitions => w \in ContentWork
         /\ w.operation[2] = "compile" => w \in ContextWork
         /\ w.operation[2] = "validate" => w \in GroundingWork
         /\ w.operation[2] = "analyze" => w \in ImpactWork
         /\ w.step \in {"store", "bind"} => w \in ContentWork
         /\ w.step = "read" => w \in ContextWork
         /\ w.step = "scan" => w \in ImpactWork
<1>1. CASE w \in AssetWork
  BY <1>1 DEF AssetWork, Held, Operations, Verbs, Transitions, Requests
<1>2. CASE w \in ContentWork
  BY <1>2 DEF ContentWork, Held, Operations, Verbs, Transitions, Requests
<1>3. CASE w \in ContextWork
  BY <1>3 DEF ContextWork, Held, Operations, Verbs, Transitions, Requests
<1>4. CASE w \in GroundingWork
  BY <1>4 DEF GroundingWork, Held, Operations, Verbs, Transitions, Requests
<1>5. CASE w \in ImpactWork
  BY <1>5 DEF ImpactWork, Held, Operations, Verbs, Transitions, Requests
<1>6. CASE w \in AuditWork
  BY <1>6 DEF AuditWork
<1> QED
  BY <1>1, <1>2, <1>3, <1>4, <1>5, <1>6 DEF Work

LEMMA Moves ==
  ASSUME TypeOK, NEW h \in Handlers, NEW w \in Work \cup {Idle},
         handler' = [handler EXCEPT ![h] = w]
  PROVE  /\ handler' \in [Handlers -> Work \cup {Idle}]
         /\ handler'[h] = w
         /\ \A g \in Handlers \ {h} : handler'[g] = handler[g]
  BY DEF TypeOK

LEMMA Busy ==
  ASSUME TypeOK, NEW h \in Handlers, handler[h] # Idle
  PROVE  handler[h] \in Work
  BY DEF TypeOK

LEMMA Finishes ==
  ASSUME TypeOK, NEW h \in Handlers, Finish(h)
  PROVE  /\ handler' \in [Handlers -> Work \cup {Idle}]
         /\ handler'[h] = Idle
         /\ \A g \in Handlers \ {h} : handler'[g] = handler[g]
  BY Moves DEF Finish

LEMMA Reporting ==
  ASSUME TypeOK, NEW h \in Handlers, handler[h] # Idle, handler[h].step # "audit",
         NEW resource \in Resources, Report(h, resource)
  PROVE  /\ handler' \in [Handlers -> Work \cup {Idle}]
         /\ handler'[h] = [step |-> "audit",
              event |-> [operation |-> handler[h].operation, resource |-> resource]]
         /\ handler'[h] # Idle
         /\ \A g \in Handlers \ {h} : handler'[g] = handler[g]
<1> DEFINE w == [step |-> "audit",
                 event |-> [operation |-> handler[h].operation, resource |-> resource]]
<1>1. handler[h].operation \in Operations
  BY Busy, WorkByVerb
<1>2. w \in AuditWork
  BY <1>1 DEF AuditWork, Events
<1>3. w \in Work
  BY <1>2 DEF Work
<1> QED
  BY <1>3, Moves, BoundsAssumption DEF Report

-------------------------------------------------------------------------------
(* Type correctness. *)

LEMMA KeyTyped ==
  ASSUME TypeOK, NEW w \in Work, w.step # "audit", NEW resource \in Resources,
         AddKey(w, resource)
  PROVE  keys' \subseteq [operation: Operations, key: Keys, request: Requests,
                          resource: Resources]
  BY WorkByVerb DEF AddKey, TypeOK

LEMMA RowTyped ==
  \A status \in Statuses, version \in Nat \ {0}, organization \in Organizations \cup {Platform} :
    [status |-> status, version |-> version, organization |-> organization] \in Rows
  BY DEF Rows

(* A thread that takes up work holds work of the right kind.                  *)
LEMMA HoldsContent ==
  ASSUME TypeOK, NEW h \in Handlers, NEW step \in {"store", "commit", "bind"},
         NEW operation \in {"knowledge-version", "semantic-payload"} \X
                              ({"register"} \cup Transitions),
         NEW key \in Keys, NEW request \in ContentRequests, NEW draft \in Rows,
         Hold(h, step, operation, key, request, draft, {})
  PROVE  /\ handler' \in [Handlers -> Work \cup {Idle}]
         /\ handler'[h] = [step |-> step, operation |-> operation, key |-> key,
                           request |-> request, draft |-> draft, pending |-> {}]
         /\ handler'[h] \in ContentWork
         /\ \A g \in Handlers \ {h} : handler'[g] = handler[g]
<1> DEFINE w == [step |-> step, operation |-> operation, key |-> key,
                 request |-> request, draft |-> draft, pending |-> {}]
<1>1. w \in ContentWork
  BY DEF ContentWork, Held
<1>2. w \in Work
  BY <1>1 DEF Work
<1> QED
  BY <1>1, <1>2, Moves DEF Hold

LEMMA HoldsContext ==
  ASSUME TypeOK, NEW h \in Handlers, NEW step \in {"read", "commit"},
         NEW key \in Keys, NEW request \in CompileRequests, NEW draft \in Manifests,
         NEW pending \in SUBSET Items,
         Hold(h, step, <<"context", "compile">>, key, request, draft, pending)
  PROVE  /\ handler' \in [Handlers -> Work \cup {Idle}]
         /\ handler'[h] = [step |-> step, operation |-> <<"context", "compile">>,
              key |-> key, request |-> request, draft |-> draft, pending |-> pending]
         /\ handler'[h] \in ContextWork
         /\ \A g \in Handlers \ {h} : handler'[g] = handler[g]
<1> DEFINE w == [step |-> step, operation |-> <<"context", "compile">>,
              key |-> key, request |-> request, draft |-> draft, pending |-> pending]
<1>1. w \in ContextWork
  BY DEF ContextWork, Held
<1>2. w \in Work
  BY <1>1 DEF Work
<1> QED
  BY <1>1, <1>2, Moves DEF Hold

LEMMA HoldsImpact ==
  ASSUME TypeOK, NEW h \in Handlers, NEW step \in {"scan", "commit"},
         NEW key \in Keys, NEW report \in Reports, NEW pending \in SUBSET Components,
         Hold(h, step, <<"semantic-impact", "analyze">>, key, report, report, pending)
  PROVE  /\ handler' \in [Handlers -> Work \cup {Idle}]
         /\ handler'[h] = [step |-> step, operation |-> <<"semantic-impact", "analyze">>,
              key |-> key, request |-> report, draft |-> report, pending |-> pending]
         /\ handler'[h] \in ImpactWork
         /\ \A g \in Handlers \ {h} : handler'[g] = handler[g]
<1> DEFINE w == [step |-> step, operation |-> <<"semantic-impact", "analyze">>,
              key |-> key, request |-> report, draft |-> report, pending |-> pending]
<1>1. w \in ImpactWork
  BY DEF ImpactWork, Held
<1>2. w \in Work
  BY <1>1 DEF Work
<1> QED
  BY <1>1, <1>2, Moves DEF Hold

(* The line of a Project's locks has room for the current one, and what was   *)
(* selected exists.                                                           *)
LocksSound ==
  \A p \in Projects :
    /\ Len(selections[p]) <= MaxLocks
    /\ \A n \in 1..Len(selections[p]) : installed[selections[p][n]] # None

LEMMA CurrentLockTyped ==
  ASSUME TypeOK, LocksSound, NEW p \in Projects, selections[p] # <<>>
  PROVE  /\ CurrentLock(p) \in Locks
         /\ Exists(CurrentLock(p))
<1>1. selections[p] \in Seq(InstallationIds) /\ Len(selections[p]) \in Nat
  BY DEF TypeOK
<1>2. Len(selections[p]) # 0
  BY <1>1
<1>3. Len(selections[p]) \in 1..MaxLocks
  BY <1>1, <1>2, BoundsAssumption DEF LocksSound
<1> QED
  BY <1>1, <1>3 DEF CurrentLock, Locks, Exists

(* The registry's part: three steps of AtomicRegistry. *)
LEMMA RegistryTypes ==
  ASSUME TypeOK, LocksSound, Environment
  PROVE  TypeOK' /\ LocksSound'
<1> USE DEF governedVars, derivedVars, registryVars
<1>1. CASE GovernPackageVersion
  <2> USE <1>1
  <2>1. registry' \in [PackageVersions -> [content: Contents, state: PackageStates]]
    BY DEF GovernPackageVersion, Registry!Govern, TypeOK, PackageStates
  <2>2. UNCHANGED <<installed, selections>>
    BY DEF GovernPackageVersion, Registry!Govern
  <2> QED
    BY <2>1, <2>2 DEF GovernPackageVersion, TypeOK, LocksSound
<1>2. CASE GovernInstallation
  <2>1. PICK i \in InstallationIds, target \in {"DISABLED", "REVOKED", "LOGICALLY_UNINSTALLED"} :
          Registry!GovernInstallation(i, target)
    BY <1>2 DEF GovernInstallation
  <2>2. installed[i] \in Installations
    BY <2>1 DEF Registry!GovernInstallation, TypeOK
  <2> DEFINE row == [organization |-> installed[i].organization, root |-> installed[i].root,
                     refs |-> installed[i].refs, state |-> target]
  <2>3. row \in Installations /\ row # None
    BY <2>2, BoundsAssumption DEF Installations
  <2>4. installed' = [installed EXCEPT ![i] = row] /\ UNCHANGED <<registry, selections>>
    BY <2>1 DEF Registry!GovernInstallation
  <2>5. installed' \in [InstallationIds -> Installations \cup {None}]
    BY <2>3, <2>4 DEF TypeOK
  <2>6. LocksSound'
    BY <2>3, <2>4 DEF LocksSound, TypeOK
  <2> QED
    BY <1>2, <2>4, <2>5, <2>6 DEF GovernInstallation, TypeOK
<1>3. CASE SelectLock
  <2>1. PICK p \in Projects, i \in InstallationIds :
          Len(selections[p]) < MaxLocks /\ Registry!Select(p, i)
    BY <1>3 DEF SelectLock
  <2>2. selections[p] \in Seq(InstallationIds)
    BY DEF TypeOK
  <2>3. /\ selections' = [selections EXCEPT ![p] = Append(selections[p], i)]
        /\ installed[i] # None
        /\ UNCHANGED <<registry, installed>>
    BY <2>1 DEF Registry!Select
  <2>4. selections' \in [Projects -> Seq(InstallationIds)]
    BY <2>2, <2>3 DEF TypeOK
  <2>5. ASSUME NEW q \in Projects
        PROVE  /\ Len(selections'[q]) <= MaxLocks
               /\ \A n \in 1..Len(selections'[q]) : installed'[selections'[q][n]] # None
    <3>1. CASE q = p
      <4>1. selections'[q] = Append(selections[p], i)
        BY <2>3, <3>1 DEF TypeOK
      <4> QED
        BY <2>1, <2>2, <2>3, <3>1, <4>1, BoundsAssumption DEF LocksSound
    <3>2. CASE q # p
      BY <2>3, <3>2 DEF LocksSound, TypeOK
    <3> QED
      BY <3>1, <3>2
  <2> QED
    BY <1>3, <2>3, <2>4, <2>5 DEF SelectLock, TypeOK, LocksSound
<1>4. ASSUME NEW scope \in Archivable, Archive(scope)
      PROVE  TypeOK' /\ LocksSound'
  BY <1>4, BoundsAssumption DEF Archive, TypeOK, LocksSound
<1> QED
  BY <1>1, <1>2, <1>3, <1>4 DEF Environment

LEMMA ReceiveTypes ==
  ASSUME TypeOK, LocksSound, NEW h \in Handlers, Receive(h)
  PROVE  TypeOK'
<1> USE DEF governedVars, derivedVars, registryVars
<1>1. ASSUME NEW organization \in Organizations,
             NEW key \in KeysFor[<<"knowledge-asset", "create">>],
             BeginAsset(h, organization, key)
      PROVE  TypeOK'
  <2> DEFINE w == [step |-> "commit", operation |-> <<"knowledge-asset", "create">>,
                   key |-> key, request |-> [organization |-> organization],
                   draft |-> organization, pending |-> {}]
  <2>1. key \in Keys
    BY OperationFacts, RequestAssumption
  <2>2. w \in AssetWork
    BY <2>1 DEF AssetWork, Held, AssetRequests
  <2>3. handler' \in [Handlers -> Work \cup {Idle}]
    BY <1>1, <2>2, Moves DEF BeginAsset, Hold, Work
  <2> QED
    BY <1>1, <2>3 DEF BeginAsset, TypeOK
<1>2. ASSUME NEW c \in Components, NEW key \in KeysFor[<<KindOf(c), "register">>],
             BeginPayload(h, c, key)
      PROVE  TypeOK'
  <2>1. key \in Keys
    BY OperationFacts, RequestAssumption
  <2>2. NewRow(Owner[c]) \in Rows
    BY ContentAssumption DEF NewRow, Rows, Statuses
  <2>3. [component |-> c] \in ContentRequests
    BY DEF ContentRequests
  <2> DEFINE step == IF contents[c] = None THEN "commit" ELSE "bind"
  <2>4. step \in {"store", "commit", "bind"}
    OBVIOUS
  <2>5. Hold(h, step, <<KindOf(c), "register">>, key, [component |-> c], NewRow(Owner[c]), {})
    BY <1>2 DEF BeginPayload
  <2>6. handler' \in [Handlers -> Work \cup {Idle}]
    BY <2>1, <2>2, <2>3, <2>4, <2>5, OperationFacts, HoldsContent
  <2> QED
    BY <1>2, <2>6 DEF BeginPayload, TypeOK
<1>3. ASSUME NEW c \in Components, NEW a \in Assets, NEW key \in KeysFor[<<KindOf(c), "register">>],
             BeginVersion(h, c, a, key)
      PROVE  TypeOK'
  <2>1. key \in Keys
    BY OperationFacts, RequestAssumption
  <2>2. assets[a] \in Organizations
    BY <1>3 DEF BeginVersion, TypeOK
  <2>3. NewRow(assets[a]) \in Rows
    BY <2>2 DEF NewRow, Rows, Statuses
  <2>4. [component |-> c, asset |-> a] \in ContentRequests
    BY DEF ContentRequests
  <2>5. Hold(h, "store", <<KindOf(c), "register">>, key, [component |-> c, asset |-> a],
             NewRow(assets[a]), {})
    BY <1>3 DEF BeginVersion, First
  <2>6. handler' \in [Handlers -> Work \cup {Idle}]
    BY <2>1, <2>3, <2>4, <2>5, OperationFacts, HoldsContent
  <2> QED
    BY <1>3, <2>6 DEF BeginVersion, TypeOK
<1>4. ASSUME NEW c \in Components, NEW verb \in Transitions, NEW key \in KeysFor[<<KindOf(c), verb>>],
             contents[c] # None, NEW expected \in 1..(contents[c].version + IfMatchAhead),
             BeginTransition(h, c, verb, expected, key)
      PROVE  TypeOK'
  <2>1. key \in Keys
    BY OperationFacts, RequestAssumption
  <2>2. contents[c] \in Rows
    BY <1>4 DEF BeginTransition, TypeOK
  <2> DEFINE draft == [status |-> TargetOf[verb], version |-> expected + 1,
                       organization |-> contents[c].organization]
             step == IF contents[c].status = TargetOf[verb] THEN "bind" ELSE "commit"
  <2>8. expected + 1 \in Nat \ {0}
    <3>1. contents[c].version + IfMatchAhead \in Nat
      BY <2>2, BoundsAssumption DEF Rows
    <3> QED BY <3>1
  <2>3. draft \in Rows
    BY <2>2, <2>8 DEF Rows, Statuses, TargetOf, Transitions
  <2>4. [component |-> c] \in ContentRequests
    BY DEF ContentRequests
  <2>5. step \in {"store", "commit", "bind"}
    OBVIOUS
  <2>6. Hold(h, step, <<KindOf(c), verb>>, key, [component |-> c], draft, {})
    BY <1>4 DEF BeginTransition
  <2>7. handler' \in [Handlers -> Work \cup {Idle}]
    BY <2>1, <2>3, <2>4, <2>5, <2>6, OperationFacts, HoldsContent
  <2> QED
    BY <1>4, <2>7 DEF BeginTransition, TypeOK
<1>5. ASSUME NEW p \in Projects, NEW context \in ContextRequests,
             NEW key \in KeysFor[<<"context", "compile">>], BeginCompile(h, p, context, key)
      PROVE  TypeOK'
  <2>1. key \in Keys
    BY OperationFacts, RequestAssumption
  <2>2. CurrentLock(p) \in Locks
    BY <1>5, CurrentLockTyped DEF BeginCompile
  <2> DEFINE request == [lock |-> CurrentLock(p), context |-> context]
             draft == [actor |-> ActorOf[key], lock |-> CurrentLock(p), context |-> context,
                       included |-> {}, unclear |-> {}]
  <2>3. request \in CompileRequests /\ draft \in Manifests
    BY <2>1, <2>2 DEF CompileRequests, Manifests
  <2>4. Onward(context.asks) \in {"read", "commit"} /\ context.asks \in SUBSET Items
    BY RequestAssumption DEF Onward
  <2>5. Hold(h, Onward(context.asks), <<"context", "compile">>, key, request, draft, context.asks)
    BY <1>5 DEF BeginCompile
  <2>6. handler' \in [Handlers -> Work \cup {Idle}]
    BY <2>1, <2>3, <2>4, <2>5, HoldsContext
  <2> QED
    BY <1>5, <2>6 DEF BeginCompile, TypeOK
<1>6. ASSUME NEW manifest \in manifests, NEW candidate \in Candidates,
             NEW key \in KeysFor[<<"grounding", "validate">>],
             BeginGrounding(h, manifest, candidate, key)
      PROVE  TypeOK'
  <2> DEFINE result == [manifest |-> manifest, candidate |-> candidate,
                        status |-> Verdict(candidate, manifest)]
             w == [step |-> "commit", operation |-> <<"grounding", "validate">>, key |-> key,
                   request |-> result, draft |-> result, pending |-> {}]
  <2>1. key \in Keys
    BY OperationFacts, RequestAssumption
  <2>2. manifest \in Manifests /\ Verdict(candidate, manifest) \in {"VALID", "INVALID", "NEEDS_CLARIFICATION"}
    BY DEF TypeOK, Verdict
  <2>3. result \in Results
    BY <2>2 DEF Results
  <2>4. w \in GroundingWork
    BY <2>1, <2>3 DEF GroundingWork, Held
  <2>5. w \in Work
    BY <2>4 DEF Work
  <2>6. handler' = [handler EXCEPT ![h] = w]
    BY <1>6 DEF BeginGrounding, Hold
  <2>7. handler' \in [Handlers -> Work \cup {Idle}]
    BY <2>5, <2>6, Moves
  <2> QED
    BY <1>6, <2>7 DEF BeginGrounding, TypeOK
<1>7. ASSUME NEW from \in Components, NEW to \in Components,
             NEW key \in KeysFor[<<"semantic-impact", "analyze">>], BeginImpact(h, from, to, key)
      PROVE  TypeOK'
  <2> DEFINE report == [from |-> from, to |-> to, installations |-> {}, locks |-> {}]
  <2>1. key \in Keys
    BY OperationFacts, RequestAssumption
  <2>2. report \in Reports
    BY DEF Reports
  <2>3. Hold(h, "scan", <<"semantic-impact", "analyze">>, key, report, report, {from, to})
    BY <1>7 DEF BeginImpact
  <2>4. handler' \in [Handlers -> Work \cup {Idle}]
    BY <2>1, <2>2, <2>3, HoldsImpact
  <2> QED
    BY <1>7, <2>4 DEF BeginImpact, TypeOK
<1> QED
  BY <1>1, <1>2, <1>3, <1>4, <1>5, <1>6, <1>7 DEF Receive

(* What a thread that commits holds. *)
LEMMA Committing ==
  ASSUME TypeOK, NEW h \in Handlers, NEW verbs, Ready(h, verbs)
  PROVE  /\ handler[h] # Idle
         /\ handler[h] \in Work
         /\ handler[h].step = "commit"
         /\ handler[h].operation[2] \in verbs
         /\ handler[h].pending = {}
  BY Busy DEF Ready, At

LEMMA PassingOn ==
  ASSUME TypeOK, NEW h \in Handlers, handler[h] # Idle, handler[h].step # "audit",
         NEW resource \in Resources, AddKey(handler[h], resource), Report(h, resource)
  PROVE  /\ keys' \subseteq [operation: Operations, key: Keys, request: Requests,
                             resource: Resources]
         /\ handler' \in [Handlers -> Work \cup {Idle}]
  BY Busy, KeyTyped, Reporting

LEMMA ContinueTypes ==
  ASSUME TypeOK, NEW h \in Handlers, Continue(h)
  PROVE  TypeOK'
<1> USE DEF governedVars, derivedVars, registryVars
<1>1. CASE PutObject(h)
  <2>1. handler[h] \in Work /\ handler[h].step = "store"
    BY <1>1, Busy DEF PutObject, At
  <2>2. handler[h] \in ContentWork
    BY <2>1, WorkByVerb
  <2>3. handler[h].request.component \in Components
    BY <2>2 DEF ContentWork, Held, ContentRequests
  <2>4. /\ handler[h].operation \in {"knowledge-version", "semantic-payload"} \X
                                      ({"register"} \cup Transitions)
        /\ handler[h].key \in Keys
        /\ handler[h].request \in ContentRequests
        /\ handler[h].draft \in Rows
    BY <2>2 DEF ContentWork, Held
  <2>5. Hold(h, "commit", handler[h].operation, handler[h].key, handler[h].request,
             handler[h].draft, {})
    BY <1>1 DEF PutObject, Redraft
  <2>6. handler' \in [Handlers -> Work \cup {Idle}]
    BY <2>4, <2>5, HoldsContent
  <2> QED
    BY <1>1, <2>3, <2>6 DEF PutObject, TypeOK
<1>2. ASSUME NEW item \in Items, Read(h, item)
      PROVE  TypeOK'
  <2> DEFINE work == handler[h]
             draft == work.draft
             matches == Matches(item, draft.lock, draft.context)
             rest == work.pending \ {item}
  <2>1. work \in Work /\ work.step = "read"
    BY <1>2, Busy DEF Read, At
  <2>2. work \in ContextWork
    BY <2>1, WorkByVerb
  <2>3. /\ work.operation = <<"context", "compile">>
        /\ work.key \in Keys
        /\ work.request \in CompileRequests
        /\ draft \in Manifests
        /\ rest \in SUBSET Items
    BY <2>2 DEF ContextWork, Held
  <2>4. matches \in SUBSET Entries
    BY DEF Matches
  <2>5. \A S \in SUBSET Entries : [draft EXCEPT !.included = @ \cup S] \in Manifests
    BY <2>3 DEF Manifests
  <2>6. [draft EXCEPT !.unclear = @ \cup {item}] \in Manifests
    BY <2>3 DEF Manifests
  <2>7. \A e \in Entries : [type |-> "CONCEPT", token |-> e.concept] \in Items
    BY DEF Items, Asked
  <2>8. Onward(rest) \in {"read", "commit"}
    BY DEF Onward
  <2>9. \E step \in {"read", "commit"}, next \in Manifests, pending \in SUBSET Items :
          Hold(h, step, <<"context", "compile">>, work.key, work.request, next, pending)
    <3>1. CASE Redraft(h, Onward(rest), [draft EXCEPT !.included = @ \cup matches], rest)
      BY <3>1, <2>3, <2>4, <2>5, <2>8 DEF Redraft
    <3>2. ASSUME NEW e \in matches,
                 Redraft(h, "read", [draft EXCEPT !.included = @ \cup {e}],
                         rest \cup {[type |-> "CONCEPT", token |-> e.concept]})
          PROVE  <2>9!:
      <4>1. e \in Entries
        BY <2>4
      <4>2. [draft EXCEPT !.included = @ \cup {e}] \in Manifests
        BY <2>5, <4>1
      <4>3. rest \cup {[type |-> "CONCEPT", token |-> e.concept]} \in SUBSET Items
        BY <2>3, <2>7, <4>1
      <4> QED
        BY <3>2, <4>2, <4>3, <2>3 DEF Redraft
    <3>3. CASE Redraft(h, Onward(rest), [draft EXCEPT !.unclear = @ \cup {item}], rest)
      BY <3>3, <2>3, <2>6, <2>8 DEF Redraft
    <3> QED
      BY <1>2, <3>1, <3>2, <3>3 DEF Read
  <2>10. handler' \in [Handlers -> Work \cup {Idle}]
    BY <2>3, <2>9, HoldsContext
  <2> QED
    BY <1>2, <2>10 DEF Read, TypeOK
<1>3. ASSUME NEW c \in Components, Scan(h, c)
      PROVE  TypeOK'
  <2> DEFINE work == handler[h]
             rest == work.pending \ {c}
             report == [work.draft EXCEPT !.installations = @ \cup InstallationsOf(c),
                                          !.locks = @ \cup LocksOf(c)]
  <2>1. work \in Work /\ work.step = "scan"
    BY <1>3, Busy DEF Scan, At
  <2>2. work \in ImpactWork
    BY <2>1, WorkByVerb
  <2>3. /\ work.operation = <<"semantic-impact", "analyze">>
        /\ work.key \in Keys
        /\ work.draft \in Reports
        /\ rest \in SUBSET Components
    BY <2>2 DEF ImpactWork, Held
  <2>4. report \in Reports
    BY <2>3 DEF Reports, InstallationsOf, LocksOf
  <2> DEFINE step == IF rest = {} THEN "commit" ELSE "scan"
  <2>5. step \in {"scan", "commit"}
    OBVIOUS
  <2>6. Hold(h, step, <<"semantic-impact", "analyze">>, work.key, report, report, rest)
    BY <1>3, <2>3 DEF Scan
  <2>7. handler' \in [Handlers -> Work \cup {Idle}]
    BY <2>3, <2>4, <2>5, <2>6, HoldsImpact
  <2> QED
    BY <1>3, <2>7 DEF Scan, TypeOK
<1>4. ASSUME NEW a \in Assets, AddAsset(h, a)
      PROVE  TypeOK'
  <2>1. handler[h] \in AssetWork
    BY <1>4, Committing, WorkByVerb DEF AddAsset
  <2>2. handler[h].draft \in Organizations
    BY <2>1 DEF AssetWork, Held
  <2>3. [asset |-> a] \in Resources
    BY DEF Resources
  <2>4. keys' \subseteq [operation: Operations, key: Keys, request: Requests,
                         resource: Resources]
        /\ handler' \in [Handlers -> Work \cup {Idle}]
    BY <1>4, <2>3, Committing, PassingOn DEF AddAsset
  <2> QED
    BY <1>4, <2>2, <2>4 DEF AddAsset, TypeOK
<1>5. CASE AddContent(h)
  <2>1. handler[h] \in ContentWork
    BY <1>5, Committing, WorkByVerb DEF AddContent
  <2>2. handler[h].draft \in Rows /\ handler[h].request.component \in Components
    BY <2>1 DEF ContentWork, Held, ContentRequests
  <2>3. [component |-> handler[h].request.component] \in Resources
    BY <2>2 DEF Resources
  <2>4. keys' \subseteq [operation: Operations, key: Keys, request: Requests,
                         resource: Resources]
        /\ handler' \in [Handlers -> Work \cup {Idle}]
    BY <1>5, <2>3, Committing, PassingOn DEF AddContent
  <2> QED
    BY <1>5, <2>2, <2>4 DEF AddContent, TypeOK
<1>6. CASE Bind(h)
  <2>1. handler[h] \in Work /\ handler[h].step = "bind"
    BY <1>6, Busy DEF Bind, At
  <2>2. handler[h] \in ContentWork
    BY <2>1, WorkByVerb
  <2>3. [component |-> handler[h].request.component] \in Resources
    BY <2>2 DEF ContentWork, Held, ContentRequests, Resources
  <2>4. keys' \subseteq [operation: Operations, key: Keys, request: Requests,
                         resource: Resources]
    BY <1>6, <2>1, <2>3, KeyTyped DEF Bind
  <2> QED
    BY <1>6, <2>4, Finishes DEF Bind, TypeOK
<1>7. CASE SaveContent(h)
  <2>1. handler[h] \in ContentWork
    BY <1>7, Committing, WorkByVerb DEF SaveContent
  <2>2. handler[h].draft \in Rows /\ handler[h].request.component \in Components
    BY <2>1 DEF ContentWork, Held, ContentRequests
  <2>3. [component |-> handler[h].request.component] \in Resources
    BY <2>2 DEF Resources
  <2>4. keys' \subseteq [operation: Operations, key: Keys, request: Requests,
                         resource: Resources]
        /\ handler' \in [Handlers -> Work \cup {Idle}]
    BY <1>7, <2>3, Committing, PassingOn DEF SaveContent
  <2> QED
    BY <1>7, <2>2, <2>4 DEF SaveContent, TypeOK
<1>8. CASE AddManifest(h)
  <2>1. handler[h] \in ContextWork
    BY <1>8, Committing, WorkByVerb DEF AddManifest
  <2>2. handler[h].draft \in Manifests
    BY <2>1 DEF ContextWork, Held
  <2>3. PICK included \in SUBSET handler[h].draft.included :
          /\ manifests' = manifests \cup {[handler[h].draft EXCEPT !.included = included]}
          /\ AddKey(handler[h], [manifest |-> [handler[h].draft EXCEPT !.included = included]])
          /\ Report(h, [manifest |-> [handler[h].draft EXCEPT !.included = included]])
    BY <1>8 DEF AddManifest
  <2> DEFINE manifest == [handler[h].draft EXCEPT !.included = included]
  <2>4. manifest \in Manifests
    BY <2>2 DEF Manifests
  <2>5. [manifest |-> manifest] \in Resources
    BY <2>4 DEF Resources
  <2>6. keys' \subseteq [operation: Operations, key: Keys, request: Requests,
                         resource: Resources]
        /\ handler' \in [Handlers -> Work \cup {Idle}]
    BY <1>8, <2>3, <2>5, Committing, PassingOn DEF AddManifest
  <2> QED
    BY <1>8, <2>3, <2>4, <2>6 DEF AddManifest, TypeOK
<1>9. CASE ReuseManifest(h)
  <2>1. PICK manifest \in manifests :
          /\ AddKey(handler[h], [manifest |-> manifest])
          /\ Report(h, [manifest |-> manifest])
    BY <1>9 DEF ReuseManifest
  <2>2. [manifest |-> manifest] \in Resources
    BY DEF Resources, TypeOK
  <2>3. keys' \subseteq [operation: Operations, key: Keys, request: Requests,
                         resource: Resources]
        /\ handler' \in [Handlers -> Work \cup {Idle}]
    BY <1>9, <2>1, <2>2, Committing, PassingOn DEF ReuseManifest
  <2> QED
    BY <1>9, <2>3 DEF ReuseManifest, TypeOK
<1>10. CASE AddResult(h)
  <2>1. handler[h] \in GroundingWork
    BY <1>10, Committing, WorkByVerb DEF AddResult
  <2>2. handler[h].draft \in Results
    BY <2>1 DEF GroundingWork, Held
  <2>3. [result |-> handler[h].draft] \in Resources
    BY <2>2 DEF Resources
  <2>4. keys' \subseteq [operation: Operations, key: Keys, request: Requests,
                         resource: Resources]
        /\ handler' \in [Handlers -> Work \cup {Idle}]
    BY <1>10, <2>3, Committing, PassingOn DEF AddResult
  <2> QED
    BY <1>10, <2>2, <2>4 DEF AddResult, TypeOK
<1>11. CASE AddReport(h)
  <2>1. handler[h] \in ImpactWork
    BY <1>11, Committing, WorkByVerb DEF AddReport
  <2>2. handler[h].draft \in Reports
    BY <2>1 DEF ImpactWork, Held
  <2>3. [report |-> handler[h].draft] \in Resources
    BY <2>2 DEF Resources
  <2>4. keys' \subseteq [operation: Operations, key: Keys, request: Requests,
                         resource: Resources]
        /\ handler' \in [Handlers -> Work \cup {Idle}]
    BY <1>11, <2>3, Committing, PassingOn DEF AddReport
  <2> QED
    BY <1>11, <2>2, <2>4 DEF AddReport, TypeOK
<1>12. CASE Replay(h)
  <2>1. PICK k \in keys : Report(h, k.resource)
    BY <1>12 DEF Replay, Found
  <2>2. k.resource \in Resources
    BY DEF TypeOK
  <2>3. handler' \in [Handlers -> Work \cup {Idle}]
    BY <1>12, <2>1, <2>2, Committing, Reporting DEF Replay
  <2> QED
    BY <1>12, <2>3 DEF Replay, TypeOK
<1>13. CASE AppendAudit(h)
  <2>1. handler[h] \in Work /\ handler[h].step = "audit"
    BY <1>13, Busy DEF AppendAudit, At
  <2>2. handler[h] \in AuditWork
    BY <2>1 DEF Work, AssetWork, ContentWork, ContextWork, GroundingWork, ImpactWork, Held
  <2>3. handler[h].event \in Events
    BY <2>2 DEF AuditWork
  <2> QED
    BY <1>13, <2>3, Finishes DEF AppendAudit, TypeOK
<1>14. CASE Abandon(h)
  BY <1>14, Finishes DEF Abandon, TypeOK
<1> QED
  BY <1>1, <1>2, <1>3, <1>4, <1>5, <1>6, <1>7, <1>8, <1>9, <1>10, <1>11, <1>12, <1>13, <1>14
     DEF Continue, Commit

Typed == TypeOK /\ LocksSound

LEMMA InitTyped == Init => Typed
<1> SUFFICES ASSUME Init PROVE Typed
  OBVIOUS
<1>1. TypeOK
  BY ContentAssumption, BoundsAssumption DEF Init, TypeOK, PackageStates, Statuses
<1>2. LocksSound
  BY ContentAssumption, BoundsAssumption DEF Init, LocksSound
<1> QED
  BY <1>1, <1>2 DEF Typed

LEMMA StepTyped == Typed /\ [Next]_vars => Typed'
<1> SUFFICES ASSUME Typed, [Next]_vars PROVE Typed'
  OBVIOUS
<1> USE DEF Typed
<1>1. CASE Environment
  BY <1>1, RegistryTypes
<1>2. ASSUME NEW h \in Handlers, Receive(h)
      PROVE  Typed'
  <2>1. UNCHANGED registryVars
    BY <1>2 DEF Receive, BeginAsset, BeginPayload, BeginVersion, BeginTransition, BeginCompile,
                BeginGrounding, BeginImpact
  <2> QED
    BY <1>2, <2>1, ReceiveTypes DEF LocksSound, registryVars
<1>3. ASSUME NEW h \in Handlers, Continue(h)
      PROVE  Typed'
  <2>1. UNCHANGED registryVars
    BY <1>3 DEF Continue, Commit, PutObject, Read, Scan, AppendAudit, Abandon, AddAsset, AddContent,
                Bind, SaveContent, AddManifest, ReuseManifest, AddResult, AddReport, Replay
  <2> QED
    BY <1>3, <2>1, ContinueTypes DEF LocksSound, registryVars
<1>4. CASE UNCHANGED vars
  BY <1>4 DEF vars, registryVars, governedVars, derivedVars, TypeOK, LocksSound
<1> QED
  BY <1>1, <1>2, <1>3, <1>4 DEF Next

(* Every variable is always what the schema and the code make it. *)
THEOREM TypeCorrect == Spec => []TypeOK
<1>1. Typed => TypeOK
  BY DEF Typed
<1> QED
  BY InitTyped, StepTyped, <1>1, PTL DEF Spec

-------------------------------------------------------------------------------
(* What lasts: rows move along their lifecycle, whatever is added stays, and  *)
(* what a lock pins does not change.                                          *)

Moved(row, next) ==
  \/ next = row
  \/ /\ next.version = row.version + 1
     /\ next.organization = row.organization
     /\ IfMatchAhead = 0 => <<row.status, next.status>> \in LifecycleTransitions

PinsLast ==
  \A lock \in Locks : Exists(lock) => Exists(lock)' /\ Pins(lock)' = Pins(lock)

Grows ==
  /\ \A c \in Components :
       contents[c] # None => contents'[c] # None /\ Moved(contents[c], contents'[c])
  /\ objects \subseteq objects'
  /\ manifests \subseteq manifests'
  /\ keys \subseteq keys'
  /\ PinsLast

ContentsSound ==
  \A c \in Components :
    contents[c] # None /\ contents[c].status = "PUBLISHED" => contents[c].version > 1

(* A row about to be saved was judged on the row that is there, or on one     *)
(* that is there no more, unless its If-Match names a row yet to come.        *)
Judged(c, draft) ==
  /\ draft.organization = contents[c].organization
  /\ IfMatchAhead = 0 =>
       /\ draft.version <= contents[c].version + 1
       /\ draft.version = contents[c].version + 1 =>
            <<contents[c].status, draft.status>> \in LifecycleTransitions

RegisterSound(w) ==
  /\ w.draft.status = "VALIDATED"
  /\ w.draft.version = 1
  /\ w.step = "commit" /\ w.request.component \in Knowledge => w.request.component \in objects

TransitionSound(w) ==
  /\ w.step # "store"
  /\ contents[w.request.component] # None
  /\ w.draft.status = TargetOf[w.operation[2]]
  /\ w.step = "commit" => Judged(w.request.component, w.draft)
  /\ IfMatchAhead = 0 /\ w.step = "bind" /\ w.draft.status = "WITHDRAWN" =>
       contents[w.request.component].status = "WITHDRAWN"

ContentSound(w) ==
  /\ w.operation = <<KindOf(w.request.component), w.operation[2]>>
  /\ w.operation[2] = "register" => RegisterSound(w)
  /\ w.operation[2] \in Transitions => TransitionSound(w)

ContextSound(w) ==
  /\ Exists(w.draft.lock)
  /\ \A e \in w.draft.included : Traceable(e, w.draft)

Grounded(result) ==
  /\ result.manifest \in manifests
  /\ result.status = "VALID" =>
       result.manifest.unclear = {} /\ Named(result.candidate, result.manifest)

WorkSound(w) ==
  /\ w \in ContentWork => ContentSound(w)
  /\ w \in ContextWork => ContextSound(w)
  /\ w \in GroundingWork => Grounded(w.draft)
  /\ w \in AuditWork => Recorded(w.event.operation, w.event.resource)

HandlersSound == \A h \in Handlers : \A w \in Work : handler[h] = w => WorkSound(w)

ResultsSound == \A result \in results : Grounded(result)

KeyTells(k) ==
  /\ k.operation[2] = "withdraw" =>
       /\ k.resource.component \in Components
       /\ contents[k.resource.component] # None
       /\ IfMatchAhead = 0 => contents[k.resource.component].status = "WITHDRAWN"
  /\ k.operation[2] = "compile" => k.resource.manifest \in manifests

KeysSound == \A k \in keys : KeyTells(k)
AuditSound == \A event \in audit : Recorded(event.operation, event.resource)

IInv ==
  /\ Typed
  /\ ContentsSound
  /\ ObjectsPrecedeVersions
  /\ ContextIsTraceable
  /\ OneManifestPerRequest
  /\ ResultsSound
  /\ EffectsAreKeyed
  /\ KeysSound
  /\ AuditSound
  /\ HandlersSound

LEMMA WorkFacts ==
  ASSUME NEW w \in Work
  PROVE  /\ w \in AssetWork => w.step # "audit" /\ w.operation[2] = "create"
         /\ w \in ContentWork =>
              w.step # "audit" /\ w.operation[2] \in {"register"} \cup Transitions
         /\ w \in ContextWork => w.step # "audit" /\ w.operation[2] = "compile"
         /\ w \in GroundingWork => w.step # "audit" /\ w.operation[2] = "validate"
         /\ w \in ImpactWork => w.step # "audit" /\ w.operation[2] = "analyze"
         /\ w \in AuditWork => w.step = "audit"
  BY DEF AssetWork, ContentWork, ContextWork, GroundingWork, ImpactWork, AuditWork, Held

LEMMA RowMoves ==
  ASSUME TypeOK, TypeOK', ContentsSound, NEW c \in Components, contents[c] # None,
         contents'[c] # None, Moved(contents[c], contents'[c])
  PROVE  /\ contents[c] \in Rows /\ contents'[c] \in Rows
         /\ contents'[c].organization = contents[c].organization
         /\ contents'[c] = contents[c] \/ contents'[c].version = contents[c].version + 1
         /\ IfMatchAhead = 0 /\ contents[c].status = "WITHDRAWN" => contents'[c] = contents[c]
         /\ OncePublished(c) => OncePublished(c)'
<1>1. contents[c] \in Rows /\ contents'[c] \in Rows
  BY DEF TypeOK
<1>2. contents[c].version \in Nat /\ contents[c].status \in Statuses
  BY <1>1 DEF Rows
<1>3. IfMatchAhead = 0 /\ contents[c].status = "WITHDRAWN" => contents'[c] = contents[c]
  BY DEF Moved, LifecycleTransitions
<1>4. contents[c].status = "PUBLISHED" => OncePublished(c)'
  <2> SUFFICES ASSUME contents[c].status = "PUBLISHED", contents'[c] # contents[c]
               PROVE  contents'[c].version > 2
    BY DEF OncePublished
  <2> QED
    BY <1>2 DEF Moved, ContentsSound
<1>5. contents[c].version > 2 => OncePublished(c)'
  BY <1>2 DEF Moved, OncePublished
<1> QED
  BY <1>1, <1>3, <1>4, <1>5 DEF Moved, OncePublished

LEMMA TraceableLasts ==
  ASSUME TypeOK, TypeOK', ContentsSound, Grows, NEW e \in Entries, NEW manifest,
         manifest.lock \in Locks, Traceable(e, manifest)
  PROVE  Traceable(e, manifest)'
<1>1. e.component \in Components
  BY RequestAssumption
<1> DEFINE c == e.component
<1>2. contents[c] # None /\ contents'[c] # None /\ Moved(contents[c], contents'[c])
  BY <1>1 DEF Traceable, OncePublished, Grows
<1>3. OncePublished(c)' /\ contents'[c].organization = contents[c].organization
  BY <1>1, <1>2, RowMoves DEF Traceable
<1>4. Exists(manifest.lock)' /\ Pins(manifest.lock)' = Pins(manifest.lock)
  BY DEF Grows, PinsLast, Traceable
<1>5. InTenant(c, manifest.lock.project)'
  BY <1>3 DEF Traceable, InTenant
<1>6. c \in Knowledge => c \in objects'
  BY DEF Traceable, Grows
<1> QED
  BY <1>3, <1>4, <1>5, <1>6 DEF Traceable

LEMMA WorkLasts ==
  ASSUME TypeOK, TypeOK', ContentsSound, Grows, NEW w \in Work, WorkSound(w)
  PROVE  WorkSound(w)'
<1>1. ASSUME w \in ContentWork
      PROVE  ContentSound(w)'
  <2>1. ContentSound(w)
    BY <1>1 DEF WorkSound
  <2> DEFINE c == w.request.component
  <2>2. c \in Components /\ w.draft \in Rows
    BY <1>1 DEF ContentWork, Held, ContentRequests
  <2>3. RegisterSound(w) => RegisterSound(w)'
    BY DEF RegisterSound, Grows
  <2>4. ASSUME TransitionSound(w) PROVE TransitionSound(w)'
    <3>1. contents[c] # None /\ contents'[c] # None /\ Moved(contents[c], contents'[c])
      BY <2>2, <2>4 DEF TransitionSound, Grows
    <3>2. /\ contents[c] \in Rows /\ contents'[c] \in Rows
          /\ contents'[c].organization = contents[c].organization
          /\ contents'[c] = contents[c] \/ contents'[c].version = contents[c].version + 1
          /\ IfMatchAhead = 0 /\ contents[c].status = "WITHDRAWN" => contents'[c] = contents[c]
      BY <2>2, <3>1, RowMoves
    <3>3. w.draft.version \in Nat /\ contents[c].version \in Nat /\ contents'[c].version \in Nat
      BY <2>2, <3>2 DEF Rows
    <3>4. Judged(c, w.draft) => Judged(c, w.draft)'
      BY <3>2, <3>3 DEF Judged
    <3> QED
      BY <2>4, <3>1, <3>2, <3>4 DEF TransitionSound
  <2> QED
    BY <2>1, <2>3, <2>4 DEF ContentSound
<1>2. ASSUME w \in ContextWork
      PROVE  ContextSound(w)'
  <2>1. ContextSound(w)
    BY <1>2 DEF WorkSound
  <2>2. w.draft.lock \in Locks /\ w.draft.included \subseteq Entries
    BY <1>2 DEF ContextWork, Held, Manifests
  <2>3. \A e \in w.draft.included : Traceable(e, w.draft)'
    BY <2>1, <2>2, TraceableLasts DEF ContextSound
  <2>4. Exists(w.draft.lock)'
    BY <2>1, <2>2 DEF ContextSound, Grows, PinsLast
  <2> QED
    BY <2>3, <2>4 DEF ContextSound
<1>3. Grounded(w.draft) => Grounded(w.draft)'
  BY DEF Grounded, Grows
<1>4. ASSUME Recorded(w.event.operation, w.event.resource)
      PROVE  Recorded(w.event.operation, w.event.resource)'
  BY <1>4 DEF Recorded, Grows
<1> QED
  BY <1>1, <1>2, <1>3, <1>4 DEF WorkSound

(* If nobody but h moves, and h to sound work, all work is sound.             *)
LEMMA HandlersLast ==
  ASSUME TypeOK, TypeOK', ContentsSound, HandlersSound, Grows, NEW h \in Handlers,
         \A g \in Handlers \ {h} : handler'[g] = handler[g],
         \A w \in Work : handler'[h] = w => WorkSound(w)'
  PROVE  HandlersSound'
<1> SUFFICES ASSUME NEW g \in Handlers, NEW w \in Work, handler'[g] = w
             PROVE  WorkSound(w)'
  BY DEF HandlersSound
<1>1. CASE g = h
  BY <1>1
<1>2. CASE g # h
  BY <1>2, WorkLasts DEF HandlersSound
<1> QED
  BY <1>1, <1>2

(* A step that writes none of the rows disturbs nothing that is said of them. *)
LEMMA RowsLast ==
  ASSUME IInv, TypeOK', Grows,
         UNCHANGED <<contents, derivedVars, keys, audit>>
  PROVE  /\ ContentsSound' /\ ObjectsPrecedeVersions' /\ ContextIsTraceable'
         /\ OneManifestPerRequest' /\ ResultsSound' /\ EffectsAreKeyed'
         /\ KeysSound' /\ AuditSound'
<1> USE DEF IInv, Typed, derivedVars
<1>1. ContentsSound'
  BY DEF ContentsSound
<1>2. ObjectsPrecedeVersions'
  BY DEF ObjectsPrecedeVersions, Grows
<1>3. ContextIsTraceable'
  <2> SUFFICES ASSUME NEW manifest \in manifests, NEW e \in manifest.included
               PROVE  Traceable(e, manifest)'
    BY DEF ContextIsTraceable
  <2>1. manifest.lock \in Locks /\ e \in Entries
    BY DEF TypeOK, Manifests
  <2> QED
    BY <2>1, TraceableLasts DEF ContextIsTraceable
<1>4. OneManifestPerRequest'
  BY DEF OneManifestPerRequest
<1>5. ResultsSound'
  BY DEF ResultsSound, Grounded
<1>6. EffectsAreKeyed'
  BY DEF EffectsAreKeyed, Recorded
<1>7. KeysSound'
  BY DEF KeysSound, KeyTells
<1>8. AuditSound'
  BY DEF AuditSound, Recorded
<1> QED
  BY <1>1, <1>2, <1>3, <1>4, <1>5, <1>6, <1>7, <1>8

LEMMA RowsStay ==
  ASSUME UNCHANGED <<contents, objects, manifests, keys>>, PinsLast
  PROVE  Grows
  BY DEF Grows, Moved

LEMMA LocksStay ==
  ASSUME UNCHANGED registryVars
  PROVE  PinsLast
  BY DEF PinsLast, Exists, Pins, InstallationOf, registryVars

LEMMA EnvironmentPins ==
  ASSUME Typed, Environment
  PROVE  PinsLast
<1> USE DEF Typed
<1>1. CASE GovernPackageVersion
  BY <1>1 DEF GovernPackageVersion, Registry!Govern, PinsLast, Exists, Pins, InstallationOf
<1>2. CASE GovernInstallation
  <2>1. PICK i \in InstallationIds, target \in {"DISABLED", "REVOKED", "LOGICALLY_UNINSTALLED"} :
          Registry!GovernInstallation(i, target)
    BY <1>2 DEF GovernInstallation
  <2>2. selections' = selections /\ \A j \in InstallationIds : installed'[j].refs = installed[j].refs
    BY <2>1 DEF Registry!GovernInstallation, TypeOK
  <2> SUFFICES ASSUME NEW lock \in Locks, Exists(lock)
               PROVE  Exists(lock)' /\ Pins(lock)' = Pins(lock)
    BY DEF PinsLast
  <2>3. lock.project \in Projects /\ lock.number \in 1..MaxLocks
    BY DEF Locks
  <2>4. selections[lock.project] \in Seq(InstallationIds)
    BY <2>3 DEF TypeOK
  <2>5. selections[lock.project][lock.number] \in InstallationIds
    BY <2>3, <2>4, BoundsAssumption DEF Exists
  <2> QED
    BY <2>2, <2>5 DEF Exists, Pins, InstallationOf
<1>3. CASE SelectLock
  <2>1. PICK p \in Projects, i \in InstallationIds : Registry!Select(p, i)
    BY <1>3 DEF SelectLock
  <2>2. selections' = [selections EXCEPT ![p] = Append(selections[p], i)] /\ installed' = installed
    BY <2>1 DEF Registry!Select
  <2> SUFFICES ASSUME NEW lock \in Locks, Exists(lock)
               PROVE  Exists(lock)' /\ Pins(lock)' = Pins(lock)
    BY DEF PinsLast
  <2>3. lock.project \in Projects /\ lock.number \in 1..MaxLocks
    BY DEF Locks
  <2>4. selections \in [Projects -> Seq(InstallationIds)]
    BY DEF TypeOK
  <2>5. /\ Len(selections[lock.project]) <= Len(selections'[lock.project])
        /\ selections'[lock.project][lock.number] = selections[lock.project][lock.number]
    BY <2>2, <2>3, <2>4, BoundsAssumption DEF Exists
  <2>6. Len(selections[lock.project]) \in Nat /\ Len(selections'[lock.project]) \in Nat
    BY <2>2, <2>3, <2>4
  <2>7. Exists(lock)'
    BY <2>3, <2>5, <2>6, BoundsAssumption DEF Exists
  <2> QED
    BY <2>2, <2>5, <2>7 DEF Pins, InstallationOf
<1>4. ASSUME NEW scope \in Archivable, Archive(scope)
      PROVE  PinsLast
  BY <1>4, LocksStay DEF Archive
<1> QED
  BY <1>1, <1>2, <1>3, <1>4 DEF Environment

LEMMA EnvironmentSound ==
  ASSUME IInv, Typed', Environment
  PROVE  IInv'
<1> USE DEF IInv, Typed
<1>1. UNCHANGED <<governedVars, derivedVars, keys, audit, handler>>
  BY DEF Environment, GovernPackageVersion, GovernInstallation, SelectLock, Archive
<1>2. Grows
  BY <1>1, EnvironmentPins, RowsStay DEF governedVars, derivedVars
<1>3. HandlersSound'
  <2> SUFFICES ASSUME NEW h \in Handlers, NEW w \in Work, handler[h] = w
               PROVE  WorkSound(w)'
    BY <1>1 DEF HandlersSound
  <2> QED
    BY <1>2, WorkLasts DEF HandlersSound
<1> QED
  BY <1>1, <1>2, <1>3, RowsLast DEF governedVars

LEMMA Holding ==
  ASSUME TypeOK, NEW h \in Handlers, NEW step, NEW operation, NEW key, NEW request, NEW draft,
         NEW pending, Hold(h, step, operation, key, request, draft, pending)
  PROVE  /\ handler'[h] = [step |-> step, operation |-> operation, key |-> key,
                           request |-> request, draft |-> draft, pending |-> pending]
         /\ \A g \in Handlers \ {h} : handler'[g] = handler[g]
  BY DEF Hold, TypeOK

(* Of each kind of work there is one thing to say. *)
LEMMA SoundByVerb ==
  ASSUME NEW w \in Work, w.step # "audit"
  PROVE  /\ w.operation[2] \in {"create", "analyze"} => WorkSound(w)'
         /\ w.operation[2] \in {"register"} \cup Transitions /\ ContentSound(w)' => WorkSound(w)'
         /\ w.operation[2] = "compile" /\ ContextSound(w)' => WorkSound(w)'
         /\ w.operation[2] = "validate" /\ Grounded(w.draft)' => WorkSound(w)'
  BY WorkFacts DEF WorkSound, Transitions

LEMMA ReceiveSound ==
  ASSUME IInv, Typed', NEW h \in Handlers, Receive(h)
  PROVE  IInv'
<1> USE DEF IInv, Typed
<1>1. UNCHANGED <<registryVars, archived, governedVars, derivedVars, keys, audit>>
  BY DEF Receive, BeginAsset, BeginPayload, BeginVersion, BeginTransition, BeginCompile,
         BeginGrounding, BeginImpact
<1>2. Grows
  BY <1>1, LocksStay, RowsStay DEF governedVars, derivedVars
<1>3. /\ \A g \in Handlers \ {h} : handler'[g] = handler[g]
      /\ \A w \in Work : handler'[h] = w => WorkSound(w)'
  <2>1. ASSUME NEW organization \in Organizations,
               NEW key \in KeysFor[<<"knowledge-asset", "create">>],
               BeginAsset(h, organization, key)
        PROVE  <1>3!:
    <3>1. Hold(h, "commit", <<"knowledge-asset", "create">>, key,
               [organization |-> organization], organization, {})
      BY <2>1 DEF BeginAsset
    <3>2. /\ handler'[h] = [step |-> "commit", operation |-> <<"knowledge-asset", "create">>,
                            key |-> key, request |-> [organization |-> organization],
                            draft |-> organization, pending |-> {}]
          /\ \A g \in Handlers \ {h} : handler'[g] = handler[g]
      BY <3>1, Holding
    <3> QED
      BY <3>2, SoundByVerb
  <2>2. ASSUME NEW c \in Components, NEW key \in KeysFor[<<KindOf(c), "register">>],
               BeginPayload(h, c, key)
        PROVE  <1>3!:
    <3> DEFINE step == IF contents[c] = None THEN "commit" ELSE "bind"
    <3>1. Hold(h, step, <<KindOf(c), "register">>, key, [component |-> c], NewRow(Owner[c]), {})
      BY <2>2 DEF BeginPayload
    <3>2. /\ handler'[h] = [step |-> step, operation |-> <<KindOf(c), "register">>, key |-> key,
                            request |-> [component |-> c], draft |-> NewRow(Owner[c]), pending |-> {}]
          /\ \A g \in Handlers \ {h} : handler'[g] = handler[g]
      BY <3>1, Holding
    <3> SUFFICES ASSUME NEW w \in Work, handler'[h] = w
                 PROVE  WorkSound(w)'
      BY <3>2
    <3>3. RegisterSound(w)'
      BY <3>2, <2>2 DEF RegisterSound, NewRow, BeginPayload
    <3>4. ContentSound(w)'
      BY <3>2, <3>3 DEF ContentSound, Transitions
    <3> QED
      BY <3>2, <3>4, SoundByVerb
  <2>3. ASSUME NEW c \in Components, NEW a \in Assets, NEW key \in KeysFor[<<KindOf(c), "register">>],
               BeginVersion(h, c, a, key)
        PROVE  <1>3!:
    <3>1. Hold(h, "store", <<KindOf(c), "register">>, key, [component |-> c, asset |-> a],
               NewRow(assets[a]), {})
      BY <2>3 DEF BeginVersion, First
    <3>2. /\ handler'[h] = [step |-> "store", operation |-> <<KindOf(c), "register">>, key |-> key,
                            request |-> [component |-> c, asset |-> a],
                            draft |-> NewRow(assets[a]), pending |-> {}]
          /\ \A g \in Handlers \ {h} : handler'[g] = handler[g]
      BY <3>1, Holding
    <3> SUFFICES ASSUME NEW w \in Work, handler'[h] = w
                 PROVE  WorkSound(w)'
      BY <3>2
    <3>3. RegisterSound(w)'
      BY <3>2 DEF RegisterSound, NewRow
    <3>4. ContentSound(w)'
      BY <3>2, <3>3 DEF ContentSound, Transitions
    <3> QED
      BY <3>2, <3>4, SoundByVerb
  <2>4. ASSUME NEW c \in Components, NEW verb \in Transitions,
               NEW key \in KeysFor[<<KindOf(c), verb>>],
               contents[c] # None, NEW expected \in 1..(contents[c].version + IfMatchAhead),
               BeginTransition(h, c, verb, expected, key)
        PROVE  <1>3!:
    <3> DEFINE row == contents[c]
               draft == [status |-> TargetOf[verb], version |-> expected + 1,
                         organization |-> row.organization]
               step == IF row.status = TargetOf[verb] THEN "bind" ELSE "commit"
    <3>1. Hold(h, step, <<KindOf(c), verb>>, key, [component |-> c], draft, {})
      BY <2>4 DEF BeginTransition
    <3>2. /\ handler'[h] = [step |-> step, operation |-> <<KindOf(c), verb>>, key |-> key,
                            request |-> [component |-> c], draft |-> draft, pending |-> {}]
          /\ \A g \in Handlers \ {h} : handler'[g] = handler[g]
      BY <3>1, Holding
    <3> SUFFICES ASSUME NEW w \in Work, handler'[h] = w
                 PROVE  WorkSound(w)'
      BY <3>2
    <3>3. row # None /\ row \in Rows /\ contents' = contents
      BY <1>1, <2>4 DEF BeginTransition, TypeOK, governedVars
    <3>4. row.status # TargetOf[verb] => <<row.status, TargetOf[verb]>> \in LifecycleTransitions
      BY <2>4 DEF BeginTransition, Allowed
    <3>5. IfMatchAhead = 0 => expected + 1 <= row.version + 1
      BY <3>3 DEF Rows
    <3>6. w.step = "commit" => Judged(c, draft)'
      BY <3>2, <3>3, <3>4, <3>5 DEF Judged
    <3>7. TransitionSound(w)'
      BY <3>2, <3>3, <3>6 DEF TransitionSound
    <3>8. verb # "register"
      BY DEF Transitions
    <3>9. ContentSound(w)'
      BY <3>2, <3>7, <3>8 DEF ContentSound
    <3> QED
      BY <3>2, <3>9, SoundByVerb
  <2>5. ASSUME NEW p \in Projects, NEW context \in ContextRequests,
               NEW key \in KeysFor[<<"context", "compile">>], BeginCompile(h, p, context, key)
        PROVE  <1>3!:
    <3> DEFINE request == [lock |-> CurrentLock(p), context |-> context]
               draft == [actor |-> ActorOf[key], lock |-> CurrentLock(p), context |-> context,
                         included |-> {}, unclear |-> {}]
    <3>1. Hold(h, Onward(context.asks), <<"context", "compile">>, key, request, draft, context.asks)
      BY <2>5 DEF BeginCompile
    <3>2. /\ handler'[h] = [step |-> Onward(context.asks), operation |-> <<"context", "compile">>,
                            key |-> key, request |-> request, draft |-> draft,
                            pending |-> context.asks]
          /\ \A g \in Handlers \ {h} : handler'[g] = handler[g]
      BY <3>1, Holding
    <3> SUFFICES ASSUME NEW w \in Work, handler'[h] = w
                 PROVE  WorkSound(w)'
      BY <3>2
    <3>3. CurrentLock(p) \in Locks /\ Exists(CurrentLock(p))
      BY <2>5, CurrentLockTyped DEF BeginCompile
    <3>4. w.draft.lock = CurrentLock(p) /\ w.draft.included = {} /\ w.step # "audit"
          /\ w.operation[2] = "compile"
      BY <3>2 DEF Onward
    <3>5. w.draft.lock \in Locks /\ Exists(w.draft.lock)
      BY <3>3, <3>4
    <3>6. Exists(w.draft.lock)'
      BY <1>2, <3>5 DEF Grows, PinsLast
    <3>7. ContextSound(w)'
      BY <3>4, <3>6 DEF ContextSound
    <3> QED
      BY <3>2, <3>4, <3>7, SoundByVerb
  <2>6. ASSUME NEW manifest \in manifests, NEW candidate \in Candidates,
               NEW key \in KeysFor[<<"grounding", "validate">>],
               BeginGrounding(h, manifest, candidate, key)
        PROVE  <1>3!:
    <3> DEFINE result == [manifest |-> manifest, candidate |-> candidate,
                          status |-> Verdict(candidate, manifest)]
    <3>1. Hold(h, "commit", <<"grounding", "validate">>, key, result, result, {})
      BY <2>6 DEF BeginGrounding
    <3>2. /\ handler'[h] = [step |-> "commit", operation |-> <<"grounding", "validate">>,
                            key |-> key, request |-> result, draft |-> result, pending |-> {}]
          /\ \A g \in Handlers \ {h} : handler'[g] = handler[g]
      BY <3>1, Holding
    <3>3. Grounded(result)'
      BY <1>1 DEF Grounded, Verdict, derivedVars
    <3> SUFFICES ASSUME NEW w \in Work, handler'[h] = w
                 PROVE  WorkSound(w)'
      BY <3>2
    <3>4. Grounded(w.draft)'
      BY <3>2, <3>3
    <3> QED
      BY <3>2, <3>4, SoundByVerb
  <2>7. ASSUME NEW from \in Components, NEW to \in Components,
               NEW key \in KeysFor[<<"semantic-impact", "analyze">>], BeginImpact(h, from, to, key)
        PROVE  <1>3!:
    <3> DEFINE report == [from |-> from, to |-> to, installations |-> {}, locks |-> {}]
    <3>1. Hold(h, "scan", <<"semantic-impact", "analyze">>, key, report, report, {from, to})
      BY <2>7 DEF BeginImpact
    <3>2. /\ handler'[h] = [step |-> "scan", operation |-> <<"semantic-impact", "analyze">>,
                            key |-> key, request |-> report, draft |-> report,
                            pending |-> {from, to}]
          /\ \A g \in Handlers \ {h} : handler'[g] = handler[g]
      BY <3>1, Holding
    <3> QED
      BY <3>2, SoundByVerb
  <2> QED
    BY <2>1, <2>2, <2>3, <2>4, <2>5, <2>6, <2>7 DEF Receive
<1>4. HandlersSound'
  BY <1>2, <1>3, HandlersLast
<1> QED
  BY <1>1, <1>2, <1>4, RowsLast DEF governedVars

LEMMA Lasting ==
  ASSUME IInv, Typed', Grows
  PROVE  /\ contents' = contents => ContentsSound' /\ ObjectsPrecedeVersions'
         /\ \A manifest \in manifests : \A e \in manifest.included : Traceable(e, manifest)'
         /\ manifests' = manifests => ContextIsTraceable' /\ OneManifestPerRequest'
         /\ results' = results => ResultsSound'
         /\ audit' = audit => AuditSound'
         /\ \A k \in keys : KeyTells(k)'
         /\ \A operation, resource :
              Recorded(operation, resource) => Recorded(operation, resource)'
<1> USE DEF IInv, Typed
<1>1. contents' = contents => ContentsSound' /\ ObjectsPrecedeVersions'
  BY DEF ContentsSound, ObjectsPrecedeVersions, Grows
<1>2. ASSUME NEW manifest \in manifests, NEW e \in manifest.included
      PROVE  Traceable(e, manifest)'
  <2>1. manifest.lock \in Locks /\ e \in Entries
    BY DEF TypeOK, Manifests
  <2> QED
    BY <2>1, TraceableLasts DEF ContextIsTraceable
<1>3. manifests' = manifests => ContextIsTraceable' /\ OneManifestPerRequest'
  BY <1>2 DEF ContextIsTraceable, OneManifestPerRequest
<1>4. \A result : Grounded(result) => Grounded(result)'
  BY DEF Grounded, Grows
<1>5. results' = results => ResultsSound'
  BY <1>4 DEF ResultsSound
<1>6. \A operation, resource : Recorded(operation, resource) => Recorded(operation, resource)'
  BY DEF Recorded, Grows
<1>7. audit' = audit => AuditSound'
  BY <1>6 DEF AuditSound
<1>8. ASSUME NEW k \in keys
      PROVE  KeyTells(k)'
  <2>1. KeyTells(k)
    BY DEF KeysSound
  <2>2. ASSUME IfMatchAhead = 0, NEW c \in Components, contents[c] # None,
               contents[c].status = "WITHDRAWN"
        PROVE  contents'[c] # None /\ contents'[c].status = "WITHDRAWN"
    BY <2>2, RowMoves DEF Grows
  <2> QED
    BY <2>1, <2>2 DEF KeyTells, Grows
<1> QED
  BY <1>1, <1>2, <1>3, <1>5, <1>6, <1>7, <1>8

(* What spending a key does to what is said of keys. *)
LEMMA Spending ==
  ASSUME IInv, Typed', Grows, NEW w, NEW resource, Fresh(w.operation, w.key),
         AddKey(w, resource),
         KeyTells([operation |-> w.operation, key |-> w.key, request |-> w.request,
                   resource |-> resource])'
  PROVE  /\ \A k, other \in keys' :
              k.operation = other.operation /\ k.key = other.key => k = other
         /\ Recorded(w.operation, resource)'
         /\ KeysSound'
<1> USE DEF IInv
<1> DEFINE new == [operation |-> w.operation, key |-> w.key, request |-> w.request,
                   resource |-> resource]
<1>1. keys' = keys \cup {new}
  BY DEF AddKey
<1>2. \A k \in keys : ~(k.operation = new.operation /\ k.key = new.key)
  BY DEF Fresh, Found
<1>3. \A k, other \in keys : k.operation = other.operation /\ k.key = other.key => k = other
  BY DEF EffectsAreKeyed
<1>4. \A k, other \in keys' : k.operation = other.operation /\ k.key = other.key => k = other
  BY <1>1, <1>2, <1>3
<1>5. Recorded(w.operation, resource)'
  BY <1>1 DEF Recorded
<1>6. KeysSound'
  BY <1>1, Lasting DEF KeysSound
<1> QED
  BY <1>4, <1>5, <1>6

(* A thread that has done its work tells of something a key records.          *)
LEMMA ReportSound ==
  ASSUME IInv, Typed', Grows, NEW h \in Handlers, NEW w \in Work, handler[h] = w,
         w.step # "audit", NEW resource, Report(h, resource),
         Recorded(w.operation, resource)'
  PROVE  HandlersSound'
<1> USE DEF IInv, Typed
<1> DEFINE event == [operation |-> w.operation, resource |-> resource]
<1>1. /\ handler'[h] = [step |-> "audit", event |-> event]
      /\ \A g \in Handlers \ {h} : handler'[g] = handler[g]
  BY DEF Report, TypeOK
<1>2. ASSUME NEW next \in Work, handler'[h] = next
      PROVE  WorkSound(next)'
  <2>1. next.step = "audit" /\ next.event = event
    BY <1>1, <1>2
  <2>2. Recorded(next.event.operation, next.event.resource)'
    BY <2>1
  <2> QED
    BY <2>1, <2>2, WorkFacts DEF WorkSound
<1> QED
  BY <1>1, <1>2, HandlersLast

LEMMA FinishSound ==
  ASSUME IInv, Typed', Grows, NEW h \in Handlers, Finish(h)
  PROVE  HandlersSound'
<1> USE DEF IInv, Typed
<1>1. handler'[h] = Idle /\ \A g \in Handlers \ {h} : handler'[g] = handler[g]
  BY Finishes
<1>2. \A w \in Work : handler'[h] = w => WorkSound(w)'
  BY <1>1, BoundsAssumption
<1> QED
  BY <1>1, <1>2, HandlersLast

(* Effects other than the one of the step stay recorded. *)
LEMMA KeyedLasts ==
  ASSUME IInv, Typed', Grows,
         \A k, other \in keys' :
           k.operation = other.operation /\ k.key = other.key => k = other,
         \A c \in Components : contents'[c] # contents[c] =>
           /\ Recorded(<<KindOf(c), "register">>, [component |-> c])'
           /\ \A verb \in Transitions : contents'[c].status = TargetOf[verb] =>
                Recorded(<<KindOf(c), verb>>, [component |-> c])',
         \A manifest \in manifests' \ manifests :
           Recorded(<<"context", "compile">>, [manifest |-> manifest])',
         \A result \in results' \ results :
           Recorded(<<"grounding", "validate">>, [result |-> result])',
         \A report \in reports' \ reports :
           Recorded(<<"semantic-impact", "analyze">>, [report |-> report])'
  PROVE  EffectsAreKeyed'
<1> USE DEF IInv
<1>1. \A operation, resource : Recorded(operation, resource) => Recorded(operation, resource)'
  BY Lasting
<1>2. ASSUME NEW c \in Components, contents'[c] # None
      PROVE  /\ Recorded(<<KindOf(c), "register">>, [component |-> c])'
             /\ \A verb \in Transitions : contents'[c].status = TargetOf[verb] =>
                  Recorded(<<KindOf(c), verb>>, [component |-> c])'
  <2>1. CASE contents'[c] # contents[c]
    BY <2>1
  <2>2. CASE contents'[c] = contents[c]
    BY <1>1, <1>2, <2>2 DEF EffectsAreKeyed
  <2> QED
    BY <2>1, <2>2
<1>3. \A manifest \in manifests' : Recorded(<<"context", "compile">>, [manifest |-> manifest])'
  BY <1>1 DEF EffectsAreKeyed
<1>4. \A result \in results' : Recorded(<<"grounding", "validate">>, [result |-> result])'
  BY <1>1 DEF EffectsAreKeyed
<1>5. \A report \in reports' : Recorded(<<"semantic-impact", "analyze">>, [report |-> report])'
  BY <1>1 DEF EffectsAreKeyed
<1> QED
  BY <1>2, <1>3, <1>4, <1>5 DEF EffectsAreKeyed

-------------------------------------------------------------------------------
(* The steps of a thread that has begun.                                      *)

LEMMA UsableTraceable ==
  ASSUME IInv, NEW e \in Entries, NEW draft, Exists(draft.lock),
         Usable(e, draft.lock, draft.context)
  PROVE  Traceable(e, draft)
<1>1. e.component \in Components
  BY RequestAssumption
<1> QED
  BY <1>1 DEF IInv, Usable, Published, Traceable, OncePublished, ObjectsPrecedeVersions

LEMMA PutObjectSound ==
  ASSUME IInv, Typed', NEW h \in Handlers, NEW w \in Work, handler[h] = w, PutObject(h)
  PROVE  IInv'
<1> USE DEF IInv, Typed
<1> DEFINE c == w.request.component
           next == [step |-> "commit", operation |-> w.operation, key |-> w.key,
                    request |-> w.request, draft |-> w.draft, pending |-> {}]
<1>1. /\ w.step = "store" /\ objects' = objects \cup {c}
      /\ UNCHANGED <<registryVars, contents, derivedVars, keys, audit>>
      /\ Hold(h, "commit", w.operation, w.key, w.request, w.draft, {})
  BY DEF PutObject, At, Redraft
<1>2. w \in ContentWork
  BY <1>1, WorkByVerb
<1>3. Grows
  BY <1>1, LocksStay DEF Grows, Moved, derivedVars
<1>4. ContentSound(w) /\ w.operation[2] \in {"register"} \cup Transitions
  BY <1>2, WorkFacts DEF HandlersSound, WorkSound
<1>5. w.operation[2] = "register" /\ RegisterSound(w)
  BY <1>1, <1>4 DEF ContentSound, TransitionSound
<1>6. handler'[h] = next /\ \A g \in Handlers \ {h} : handler'[g] = handler[g]
  BY <1>1, Holding
<1>7. ASSUME NEW v \in Work, handler'[h] = v
      PROVE  WorkSound(v)'
  <2>1. /\ v.request = w.request /\ v.draft = w.draft /\ v.operation = w.operation
        /\ v.step = "commit"
    BY <1>6, <1>7
  <2>2. RegisterSound(v)'
    BY <1>1, <1>5, <2>1 DEF RegisterSound
  <2>3. ContentSound(v)'
    BY <1>4, <1>5, <2>1, <2>2 DEF ContentSound, Transitions
  <2> QED
    BY <1>5, <2>1, <2>3, SoundByVerb
<1>8. HandlersSound'
  BY <1>3, <1>6, <1>7, HandlersLast
<1> QED
  BY <1>1, <1>3, <1>8, RowsLast

LEMMA ReadSound ==
  ASSUME IInv, Typed', NEW h \in Handlers, NEW w \in Work, handler[h] = w,
         NEW item \in Items, Read(h, item)
  PROVE  IInv'
<1> USE DEF IInv, Typed
<1> DEFINE draft == w.draft
           matches == Matches(item, draft.lock, draft.context)
           rest == w.pending \ {item}
<1>1. /\ w.step = "read"
      /\ UNCHANGED <<registryVars, archived, governedVars, derivedVars, keys, audit>>
  BY DEF Read, At
<1>2. w \in ContextWork
  BY <1>1, WorkByVerb
<1>3. w.operation = <<"context", "compile">> /\ draft \in Manifests
  BY <1>2 DEF ContextWork, Held
<1>4. ContextSound(w)
  BY <1>2 DEF HandlersSound, WorkSound
<1>5. Grows
  BY <1>1, LocksStay, RowsStay DEF governedVars, derivedVars
<1>6. \A e \in matches : e \in Entries /\ Traceable(e, draft)
  BY <1>4, UsableTraceable DEF Matches, ContextSound
<1>7. \E step \in {"read", "commit"}, included \in SUBSET (draft.included \cup matches) :
        \E unclear, pending :
          Hold(h, step, w.operation, w.key, w.request,
               [actor |-> draft.actor, lock |-> draft.lock, context |-> draft.context,
                included |-> included, unclear |-> unclear], pending)
  <2> DEFINE Holds(step, included, unclear, pending) ==
         Hold(h, step, w.operation, w.key, w.request,
              [actor |-> draft.actor, lock |-> draft.lock, context |-> draft.context,
               included |-> included, unclear |-> unclear], pending)
  <2>1. Onward(rest) \in {"read", "commit"}
    BY DEF Onward
  <2>2. CASE Redraft(h, Onward(rest), [draft EXCEPT !.included = @ \cup matches], rest)
    <3>1. [draft EXCEPT !.included = @ \cup matches] =
            [actor |-> draft.actor, lock |-> draft.lock, context |-> draft.context,
             included |-> draft.included \cup matches, unclear |-> draft.unclear]
      BY <1>3 DEF Manifests
    <3>2. Holds(Onward(rest), draft.included \cup matches, draft.unclear, rest)
      BY <2>2, <3>1 DEF Redraft
    <3> QED
      BY <2>1, <3>2
  <2>3. ASSUME NEW e \in matches,
               Redraft(h, "read", [draft EXCEPT !.included = @ \cup {e}],
                       rest \cup {[type |-> "CONCEPT", token |-> e.concept]})
        PROVE  <1>7!:
    <3>1. [draft EXCEPT !.included = @ \cup {e}] =
            [actor |-> draft.actor, lock |-> draft.lock, context |-> draft.context,
             included |-> draft.included \cup {e}, unclear |-> draft.unclear]
      BY <1>3 DEF Manifests
    <3>2. Holds("read", draft.included \cup {e}, draft.unclear,
                rest \cup {[type |-> "CONCEPT", token |-> e.concept]})
      BY <2>3, <3>1 DEF Redraft
    <3> QED
      BY <3>2
  <2>4. CASE Redraft(h, Onward(rest), [draft EXCEPT !.unclear = @ \cup {item}], rest)
    <3> DEFINE all == draft.unclear \cup {item}
    <3> HIDE DEF all
    <3>1. [draft EXCEPT !.unclear = all] =
            [actor |-> draft.actor, lock |-> draft.lock, context |-> draft.context,
             included |-> draft.included, unclear |-> all]
      BY <1>3 DEF Manifests
    <3>2. Holds(Onward(rest), draft.included, draft.unclear \cup {item}, rest)
      BY <2>4, <3>1 DEF Redraft, all
    <3> QED
      BY <2>1, <3>2 DEF all
  <2> QED
    BY <2>2, <2>3, <2>4 DEF Read
<1>8. PICK step \in {"read", "commit"}, included \in SUBSET (draft.included \cup matches) :
        \E unclear, pending :
          Hold(h, step, w.operation, w.key, w.request,
               [actor |-> draft.actor, lock |-> draft.lock, context |-> draft.context,
                included |-> included, unclear |-> unclear], pending)
  BY <1>7
<1>9. PICK unclear, pending :
        Hold(h, step, w.operation, w.key, w.request,
             [actor |-> draft.actor, lock |-> draft.lock, context |-> draft.context,
              included |-> included, unclear |-> unclear], pending)
  BY <1>8
<1> DEFINE next == [actor |-> draft.actor, lock |-> draft.lock, context |-> draft.context,
                    included |-> included, unclear |-> unclear]
<1>10. /\ handler'[h] = [step |-> step, operation |-> w.operation, key |-> w.key,
                        request |-> w.request, draft |-> next, pending |-> pending]
      /\ \A g \in Handlers \ {h} : handler'[g] = handler[g]
  BY <1>9, Holding
<1>11. ASSUME NEW v \in Work, handler'[h] = v
      PROVE  WorkSound(v)'
  <2>1. v.step # "audit" /\ v.operation[2] = "compile" /\ v.draft = next
    BY <1>3, <1>10, <1>11
  <2>2. draft.lock \in Locks /\ Exists(draft.lock)
    BY <1>3, <1>4 DEF ContextSound, Manifests
  <2>3. Exists(draft.lock)'
    BY <1>5, <2>2 DEF Grows, PinsLast
  <2>4. \A e \in next.included : e \in Entries /\ Traceable(e, draft)
    BY <1>3, <1>4, <1>6 DEF ContextSound, Manifests
  <2>5. \A e \in next.included : Traceable(e, draft)'
    BY <1>5, <2>2, <2>4, TraceableLasts
  <2>6. \A e \in next.included : Traceable(e, next)'
    BY <2>5 DEF Traceable
  <2>7. ContextSound(v)'
    BY <2>1, <2>3, <2>6 DEF ContextSound
  <2> QED
    BY <2>1, <2>7, SoundByVerb
<1>12. HandlersSound'
  BY <1>5, <1>10, <1>11, HandlersLast
<1> QED
  BY <1>1, <1>5, <1>12, RowsLast DEF governedVars

LEMMA ScanSound ==
  ASSUME IInv, Typed', NEW h \in Handlers, NEW w \in Work, handler[h] = w,
         NEW c \in Components, Scan(h, c)
  PROVE  IInv'
<1> USE DEF IInv, Typed
<1>1. /\ w.step = "scan"
      /\ UNCHANGED <<registryVars, archived, governedVars, derivedVars, keys, audit>>
  BY DEF Scan, At
<1>2. \E step \in {"scan", "commit"} : \E report, rest :
        Hold(h, step, w.operation, w.key, report, report, rest)
  BY DEF Scan
<1>3. PICK step \in {"scan", "commit"} : \E report, rest :
        Hold(h, step, w.operation, w.key, report, report, rest)
  BY <1>2
<1>4. PICK report, rest : Hold(h, step, w.operation, w.key, report, report, rest)
  BY <1>3
<1>5. w.operation = <<"semantic-impact", "analyze">>
  BY <1>1, WorkByVerb DEF ImpactWork, Held
<1>6. Grows
  BY <1>1, LocksStay, RowsStay DEF governedVars, derivedVars
<1>7. /\ handler'[h] = [step |-> step, operation |-> w.operation, key |-> w.key,
                        request |-> report, draft |-> report, pending |-> rest]
      /\ \A g \in Handlers \ {h} : handler'[g] = handler[g]
  BY <1>4, Holding
<1>8. \A v \in Work : handler'[h] = v => WorkSound(v)'
  BY <1>5, <1>7, SoundByVerb
<1>9. HandlersSound'
  BY <1>6, <1>7, <1>8, HandlersLast
<1> QED
  BY <1>1, <1>6, <1>9, RowsLast DEF governedVars

(* What every step that spends a key does. *)
LEMMA CommitSound ==
  ASSUME IInv, Typed', Grows, NEW h \in Handlers, NEW w \in Work, handler[h] = w,
         w.step # "audit", NEW resource, Fresh(w.operation, w.key), AddKey(w, resource),
         Report(h, resource) \/ Finish(h),
         KeyTells([operation |-> w.operation, key |-> w.key, request |-> w.request,
                   resource |-> resource])'
  PROVE  /\ \A k, other \in keys' :
              k.operation = other.operation /\ k.key = other.key => k = other
         /\ Recorded(w.operation, resource)'
         /\ KeysSound'
         /\ HandlersSound'
<1>1. /\ \A k, other \in keys' :
           k.operation = other.operation /\ k.key = other.key => k = other
      /\ Recorded(w.operation, resource)'
      /\ KeysSound'
  BY Spending
<1>2. CASE Report(h, resource)
  BY <1>1, <1>2, ReportSound
<1>3. CASE Finish(h)
  BY <1>1, <1>3, FinishSound
<1> QED
  BY <1>1, <1>2, <1>3

LEMMA AddAssetSound ==
  ASSUME IInv, Typed', NEW h \in Handlers, NEW w \in Work, handler[h] = w,
         NEW a \in Assets, AddAsset(h, a)
  PROVE  IInv'
<1> USE DEF IInv
<1> DEFINE resource == [asset |-> a]
<1>1. /\ w.step = "commit" /\ w.operation[2] = "create"
      /\ Fresh(w.operation, w.key) /\ AddKey(w, resource) /\ Report(h, resource)
      /\ UNCHANGED <<registryVars, contents, objects, derivedVars, audit>>
  BY DEF AddAsset, Ready, At
<1>2. keys \subseteq keys'
  BY <1>1 DEF AddKey
<1>3. Grows
  BY <1>1, <1>2, LocksStay DEF Grows, Moved, derivedVars
<1>4. KeyTells([operation |-> w.operation, key |-> w.key, request |-> w.request,
                resource |-> resource])'
  BY <1>1 DEF KeyTells
<1> HIDE DEF resource
<1>5. /\ \A k, other \in keys' :
           k.operation = other.operation /\ k.key = other.key => k = other
      /\ KeysSound' /\ HandlersSound'
  BY <1>1, <1>3, <1>4, CommitSound
<1>6. EffectsAreKeyed'
  BY <1>1, <1>3, <1>5, KeyedLasts DEF derivedVars
<1> QED
  BY <1>1, <1>3, <1>5, <1>6, Lasting DEF derivedVars

LEMMA BindSound ==
  ASSUME IInv, Typed', NEW h \in Handlers, NEW w \in Work, handler[h] = w, Bind(h)
  PROVE  IInv'
<1> USE DEF IInv
<1> DEFINE c == w.request.component
           resource == [component |-> c]
<1>1. /\ w.step = "bind"
      /\ Fresh(w.operation, w.key) /\ AddKey(w, resource) /\ Finish(h)
      /\ UNCHANGED <<registryVars, governedVars, derivedVars, audit>>
  BY DEF Bind, At
<1>2. w \in ContentWork
  BY <1>1, WorkByVerb
<1>3. c \in Components /\ w.operation[2] \in {"register"} \cup Transitions
  BY <1>2, WorkFacts DEF ContentWork, Held, ContentRequests
<1>4. ContentSound(w)
  BY <1>2 DEF HandlersSound, WorkSound
<1>5. keys \subseteq keys'
  BY <1>1 DEF AddKey
<1>6. Grows
  BY <1>1, <1>5, LocksStay DEF Grows, Moved, derivedVars, governedVars
<1>7. KeyTells([operation |-> w.operation, key |-> w.key, request |-> w.request,
                resource |-> resource])'
  <2>1. w.operation[2] = "withdraw" => TransitionSound(w) /\ w.draft.status = "WITHDRAWN"
    BY <1>4 DEF ContentSound, Transitions, TransitionSound, TargetOf
  <2>2. w.operation[2] = "withdraw" =>
          contents[c] # None /\ (IfMatchAhead = 0 => contents[c].status = "WITHDRAWN")
    BY <1>1, <2>1 DEF TransitionSound
  <2>3. w.operation[2] # "compile"
    BY <1>3 DEF Transitions
  <2> QED
    BY <1>1, <1>3, <2>2, <2>3 DEF KeyTells, governedVars
<1>8. /\ \A k, other \in keys' :
           k.operation = other.operation /\ k.key = other.key => k = other
      /\ KeysSound' /\ HandlersSound'
  BY <1>1, <1>6, <1>7, CommitSound
<1>9. EffectsAreKeyed'
  BY <1>1, <1>6, <1>8, KeyedLasts DEF derivedVars, governedVars
<1> QED
  BY <1>1, <1>6, <1>8, <1>9, Lasting DEF derivedVars, governedVars

LEMMA AddContentSound ==
  ASSUME IInv, Typed', NEW h \in Handlers, NEW w \in Work, handler[h] = w, AddContent(h)
  PROVE  IInv'
<1> USE DEF IInv, Typed
<1> DEFINE c == w.request.component
           resource == [component |-> c]
<1>1. /\ w.step = "commit" /\ w.operation[2] = "register" /\ contents[c] = None
      /\ contents' = [contents EXCEPT ![c] = w.draft]
      /\ Fresh(w.operation, w.key) /\ AddKey(w, resource) /\ Report(h, resource)
      /\ UNCHANGED <<registryVars, assets, objects, derivedVars, audit>>
  BY DEF AddContent, Ready, At
<1>2. w \in ContentWork
  BY <1>1, WorkByVerb
<1>3. c \in Components /\ w.draft \in Rows
  BY <1>2 DEF ContentWork, Held, ContentRequests
<1>4. ContentSound(w) /\ RegisterSound(w)
  BY <1>1, <1>2 DEF HandlersSound, WorkSound, ContentSound
<1>5. keys \subseteq keys'
  BY <1>1 DEF AddKey
<1>6. /\ contents'[c] = w.draft /\ w.draft # None
      /\ \A d \in Components \ {c} : contents'[d] = contents[d]
  BY <1>1, <1>3, BoundsAssumption DEF TypeOK
<1>7. Grows
  BY <1>1, <1>5, <1>6, LocksStay DEF Grows, Moved, derivedVars
<1>8. KeyTells([operation |-> w.operation, key |-> w.key, request |-> w.request,
                resource |-> resource])'
  BY <1>1 DEF KeyTells
<1>9. /\ \A k, other \in keys' :
           k.operation = other.operation /\ k.key = other.key => k = other
      /\ Recorded(w.operation, resource)'
      /\ KeysSound' /\ HandlersSound'
  BY <1>1, <1>7, <1>8, CommitSound
<1>10. ContentsSound'
  BY <1>4, <1>6 DEF ContentsSound, RegisterSound
<1>11. ObjectsPrecedeVersions'
  BY <1>1, <1>4, <1>6, ContentAssumption DEF ObjectsPrecedeVersions, RegisterSound
<1>12. w.operation = <<KindOf(c), "register">>
  BY <1>1, <1>4 DEF ContentSound
<1>13. \A verb \in Transitions : TargetOf[verb] # w.draft.status
  BY <1>4 DEF TargetOf, Transitions, RegisterSound
<1>14. ASSUME NEW d \in Components, contents'[d] # contents[d]
       PROVE  /\ Recorded(<<KindOf(d), "register">>, [component |-> d])'
              /\ \A verb \in Transitions : contents'[d].status = TargetOf[verb] =>
                   Recorded(<<KindOf(d), verb>>, [component |-> d])'
  <2>1. d = c
    BY <1>6, <1>14
  <2>2. Recorded(<<KindOf(c), "register">>, [component |-> c])'
    BY <1>9, <1>12
  <2> QED
    BY <1>6, <1>13, <2>1, <2>2
<1>15. EffectsAreKeyed'
  BY <1>1, <1>7, <1>9, <1>14, KeyedLasts DEF derivedVars
<1> QED
  BY <1>1, <1>7, <1>9, <1>10, <1>11, <1>15, Lasting DEF derivedVars

LEMMA SaveContentSound ==
  ASSUME IInv, Typed', NEW h \in Handlers, NEW w \in Work, handler[h] = w, SaveContent(h)
  PROVE  IInv'
<1> USE DEF IInv, Typed
<1> DEFINE c == w.request.component
           resource == [component |-> c]
<1>1. /\ w.step = "commit" /\ w.operation[2] \in Transitions
      /\ contents[c].version + 1 = w.draft.version
      /\ contents' = [contents EXCEPT ![c] = w.draft]
      /\ Fresh(w.operation, w.key) /\ AddKey(w, resource) /\ Report(h, resource)
      /\ UNCHANGED <<registryVars, assets, objects, derivedVars, audit>>
  BY DEF SaveContent, Ready, At, Unmoved
<1>2. w \in ContentWork
  BY <1>1, WorkByVerb
<1>3. c \in Components /\ w.draft \in Rows
  BY <1>2 DEF ContentWork, Held, ContentRequests
<1>4. ContentSound(w) /\ TransitionSound(w)
  BY <1>1, <1>2 DEF HandlersSound, WorkSound, ContentSound
<1>5. /\ contents[c] # None /\ contents[c] \in Rows
      /\ w.draft.status = TargetOf[w.operation[2]]
      /\ w.draft.organization = contents[c].organization
      /\ w.draft.version = contents[c].version + 1
      /\ IfMatchAhead = 0 => <<contents[c].status, w.draft.status>> \in LifecycleTransitions
  BY <1>1, <1>3, <1>4 DEF TransitionSound, Judged, TypeOK
<1>6. keys \subseteq keys'
  BY <1>1 DEF AddKey
<1>7. /\ contents'[c] = w.draft /\ w.draft # None
      /\ \A d \in Components \ {c} : contents'[d] = contents[d]
  BY <1>1, <1>3, BoundsAssumption DEF TypeOK
<1>8. Moved(contents[c], w.draft)
  BY <1>5 DEF Moved
<1>9. Grows
  BY <1>1, <1>6, <1>7, <1>8, LocksStay DEF Grows, Moved, derivedVars
<1>10. KeyTells([operation |-> w.operation, key |-> w.key, request |-> w.request,
                 resource |-> resource])'
  <2>1. w.operation[2] = "withdraw" => w.draft.status = "WITHDRAWN"
    BY <1>5 DEF TargetOf, Transitions
  <2>2. w.operation[2] # "compile"
    BY <1>1 DEF Transitions
  <2> QED
    BY <1>3, <1>7, <2>1, <2>2 DEF KeyTells
<1>11. /\ \A k, other \in keys' :
            k.operation = other.operation /\ k.key = other.key => k = other
       /\ Recorded(w.operation, resource)'
       /\ KeysSound' /\ HandlersSound'
  BY <1>1, <1>9, <1>10, CommitSound
<1>12. ContentsSound'
  <2>1. w.draft.version > 1
    BY <1>5 DEF Rows
  <2> QED
    BY <1>7, <2>1 DEF ContentsSound
<1>13. ObjectsPrecedeVersions'
  BY <1>1, <1>5, <1>7, ContentAssumption DEF ObjectsPrecedeVersions
<1>14. w.operation = <<KindOf(c), w.operation[2]>>
  BY <1>4 DEF ContentSound
<1>15. \A verb \in Transitions : TargetOf[verb] = w.draft.status => verb = w.operation[2]
  BY <1>1, <1>5 DEF TargetOf, Transitions
<1>16. ASSUME NEW d \in Components, contents'[d] # contents[d]
       PROVE  /\ Recorded(<<KindOf(d), "register">>, [component |-> d])'
              /\ \A verb \in Transitions : contents'[d].status = TargetOf[verb] =>
                   Recorded(<<KindOf(d), verb>>, [component |-> d])'
  <2>1. d = c
    BY <1>7, <1>16
  <2>2. Recorded(<<KindOf(c), "register">>, [component |-> c])
    BY <1>3, <1>5 DEF EffectsAreKeyed
  <2>3. Recorded(<<KindOf(c), "register">>, [component |-> c])'
    BY <1>9, <2>2, Lasting
  <2>4. ASSUME NEW verb \in Transitions, contents'[c].status = TargetOf[verb]
        PROVE  Recorded(<<KindOf(c), verb>>, [component |-> c])'
    <3>1. verb = w.operation[2]
      BY <1>7, <1>15, <2>4
    <3>2. Recorded(<<KindOf(c), w.operation[2]>>, [component |-> c])'
      BY <1>11, <1>14
    <3> QED
      BY <3>1, <3>2
  <2> QED
    BY <2>1, <2>3, <2>4
<1>17. EffectsAreKeyed'
  BY <1>1, <1>9, <1>11, <1>16, KeyedLasts DEF derivedVars
<1> QED
  BY <1>1, <1>9, <1>11, <1>12, <1>13, <1>17, Lasting DEF derivedVars

LEMMA AddManifestSound ==
  ASSUME IInv, Typed', NEW h \in Handlers, NEW w \in Work, handler[h] = w, AddManifest(h)
  PROVE  IInv'
<1> USE DEF IInv, Typed
<1>1. /\ w.step = "commit" /\ w.operation[2] = "compile"
      /\ Fresh(w.operation, w.key)
      /\ UNCHANGED <<registryVars, archived, governedVars, results, reports, audit>>
  BY DEF AddManifest, Ready, At
<1>2. w \in ContextWork
  BY <1>1, WorkByVerb
<1>3. w.operation = <<"context", "compile">> /\ w.draft \in Manifests
  BY <1>2 DEF ContextWork, Held
<1>4. ContextSound(w)
  BY <1>2 DEF HandlersSound, WorkSound
<1>5. PICK included \in SUBSET w.draft.included :
        LET manifest == [w.draft EXCEPT !.included = included] IN
        /\ \A other \in manifests : ~Same(other, manifest)
        /\ manifests' = manifests \cup {manifest}
        /\ AddKey(w, [manifest |-> manifest])
        /\ Report(h, [manifest |-> manifest])
  BY DEF AddManifest
<1> DEFINE manifest == [w.draft EXCEPT !.included = included]
           resource == [manifest |-> manifest]
<1>6. /\ \A other \in manifests : ~Same(other, manifest)
      /\ manifests' = manifests \cup {manifest}
      /\ AddKey(w, resource)
      /\ Report(h, resource)
  BY <1>5
<1>7. /\ manifest.included = included /\ manifest.lock = w.draft.lock
      /\ manifest.context = w.draft.context
  BY <1>3 DEF Manifests
<1> HIDE DEF manifest
<1>8. keys \subseteq keys'
  BY <1>6 DEF AddKey
<1>9. Grows
  BY <1>1, <1>6, <1>8, LocksStay DEF Grows, Moved, governedVars
<1>10. KeyTells([operation |-> w.operation, key |-> w.key, request |-> w.request,
                 resource |-> resource])'
  BY <1>1, <1>6 DEF KeyTells
<1>11. /\ \A k, other \in keys' :
            k.operation = other.operation /\ k.key = other.key => k = other
       /\ Recorded(w.operation, resource)'
       /\ KeysSound' /\ HandlersSound'
  BY <1>1, <1>6, <1>9, <1>10, CommitSound
<1>12. ContextIsTraceable'
  <2>1. w.draft.lock \in Locks /\ w.draft.included \subseteq Entries
    BY <1>3 DEF Manifests
  <2>2. \A e \in included : Traceable(e, w.draft)'
    BY <1>4, <1>9, <2>1, TraceableLasts DEF ContextSound
  <2>3. \A e \in included : Traceable(e, manifest)'
    BY <1>7, <2>2 DEF Traceable
  <2>4. \A m \in manifests : \A e \in m.included : Traceable(e, m)'
    BY <1>9, Lasting
  <2> QED
    BY <1>6, <1>7, <2>3, <2>4 DEF ContextIsTraceable
<1>13. OneManifestPerRequest'
  BY <1>6 DEF OneManifestPerRequest, Same
<1>14. Recorded(<<"context", "compile">>, [manifest |-> manifest])'
  BY <1>3, <1>11
<1>15. EffectsAreKeyed'
  BY <1>1, <1>6, <1>9, <1>11, <1>14, KeyedLasts DEF governedVars
<1> QED
  BY <1>1, <1>9, <1>11, <1>12, <1>13, <1>15, Lasting DEF governedVars

LEMMA ReuseManifestSound ==
  ASSUME IInv, Typed', NEW h \in Handlers, NEW w \in Work, handler[h] = w, ReuseManifest(h)
  PROVE  IInv'
<1> USE DEF IInv
<1>1. /\ w.step = "commit" /\ w.operation[2] = "compile"
      /\ Fresh(w.operation, w.key)
      /\ UNCHANGED <<registryVars, archived, governedVars, derivedVars, audit>>
  BY DEF ReuseManifest, Ready, At
<1>2. PICK manifest \in manifests :
        AddKey(w, [manifest |-> manifest]) /\ Report(h, [manifest |-> manifest])
  BY DEF ReuseManifest
<1> DEFINE resource == [manifest |-> manifest]
<1>3. AddKey(w, resource) /\ Report(h, resource)
  BY <1>2
<1>4. keys \subseteq keys'
  BY <1>3 DEF AddKey
<1>5. Grows
  BY <1>1, <1>4, LocksStay DEF Grows, Moved, governedVars, derivedVars
<1>6. KeyTells([operation |-> w.operation, key |-> w.key, request |-> w.request,
                resource |-> resource])'
  BY <1>1 DEF KeyTells, derivedVars
<1> HIDE DEF resource
<1>7. /\ \A k, other \in keys' :
           k.operation = other.operation /\ k.key = other.key => k = other
      /\ KeysSound' /\ HandlersSound'
  BY <1>1, <1>3, <1>5, <1>6, CommitSound
<1>8. EffectsAreKeyed'
  BY <1>1, <1>5, <1>7, KeyedLasts DEF governedVars, derivedVars
<1> QED
  BY <1>1, <1>5, <1>7, <1>8, Lasting DEF governedVars, derivedVars

LEMMA AddResultSound ==
  ASSUME IInv, Typed', NEW h \in Handlers, NEW w \in Work, handler[h] = w, AddResult(h)
  PROVE  IInv'
<1> USE DEF IInv
<1> DEFINE resource == [result |-> w.draft]
<1>1. /\ w.step = "commit" /\ w.operation[2] = "validate"
      /\ results' = results \cup {w.draft}
      /\ Fresh(w.operation, w.key) /\ AddKey(w, resource) /\ Report(h, resource)
      /\ UNCHANGED <<registryVars, archived, governedVars, manifests, reports, audit>>
  BY DEF AddResult, Ready, At
<1>2. w \in GroundingWork
  BY <1>1, WorkByVerb
<1>3. w.operation = <<"grounding", "validate">>
  BY <1>2 DEF GroundingWork, Held
<1>4. Grounded(w.draft)
  BY <1>2 DEF HandlersSound, WorkSound
<1>5. keys \subseteq keys'
  BY <1>1 DEF AddKey
<1>6. Grows
  BY <1>1, <1>5, LocksStay DEF Grows, Moved, governedVars
<1>7. KeyTells([operation |-> w.operation, key |-> w.key, request |-> w.request,
                resource |-> resource])'
  BY <1>1 DEF KeyTells
<1> HIDE DEF resource
<1>8. /\ \A k, other \in keys' :
           k.operation = other.operation /\ k.key = other.key => k = other
      /\ Recorded(w.operation, resource)'
      /\ KeysSound' /\ HandlersSound'
  BY <1>1, <1>6, <1>7, CommitSound
<1>9. ResultsSound'
  <2>1. \A result : Grounded(result) => Grounded(result)'
    BY <1>1 DEF Grounded
  <2> QED
    BY <1>1, <1>4, <2>1 DEF ResultsSound
<1>10. Recorded(<<"grounding", "validate">>, [result |-> w.draft])'
  BY <1>3, <1>8 DEF resource
<1>11. EffectsAreKeyed'
  BY <1>1, <1>6, <1>8, <1>10, KeyedLasts DEF governedVars
<1> QED
  BY <1>1, <1>6, <1>8, <1>9, <1>11, Lasting DEF governedVars

LEMMA AddReportSound ==
  ASSUME IInv, Typed', NEW h \in Handlers, NEW w \in Work, handler[h] = w, AddReport(h)
  PROVE  IInv'
<1> USE DEF IInv
<1> DEFINE resource == [report |-> w.draft]
<1>1. /\ w.step = "commit" /\ w.operation[2] = "analyze"
      /\ reports' = reports \cup {w.draft}
      /\ Fresh(w.operation, w.key) /\ AddKey(w, resource) /\ Report(h, resource)
      /\ UNCHANGED <<registryVars, archived, governedVars, manifests, results, audit>>
  BY DEF AddReport, Ready, At
<1>2. w.operation = <<"semantic-impact", "analyze">>
  BY <1>1, WorkByVerb DEF ImpactWork, Held
<1>3. keys \subseteq keys'
  BY <1>1 DEF AddKey
<1>4. Grows
  BY <1>1, <1>3, LocksStay DEF Grows, Moved, governedVars
<1>5. KeyTells([operation |-> w.operation, key |-> w.key, request |-> w.request,
                resource |-> resource])'
  BY <1>1 DEF KeyTells
<1> HIDE DEF resource
<1>6. /\ \A k, other \in keys' :
           k.operation = other.operation /\ k.key = other.key => k = other
      /\ Recorded(w.operation, resource)'
      /\ KeysSound' /\ HandlersSound'
  BY <1>1, <1>4, <1>5, CommitSound
<1>7. Recorded(<<"semantic-impact", "analyze">>, [report |-> w.draft])'
  BY <1>2, <1>6 DEF resource
<1>8. EffectsAreKeyed'
  BY <1>1, <1>4, <1>6, <1>7, KeyedLasts DEF governedVars
<1> QED
  BY <1>1, <1>4, <1>6, <1>8, Lasting DEF governedVars

LEMMA ReplaySound ==
  ASSUME IInv, Typed', NEW h \in Handlers, NEW w \in Work, handler[h] = w, Replay(h)
  PROVE  IInv'
<1> USE DEF IInv, Typed
<1>1. /\ w.step = "commit"
      /\ UNCHANGED <<registryVars, archived, governedVars, derivedVars, keys, audit>>
  BY DEF Replay, Ready, At
<1>2. PICK k \in keys : k.operation = w.operation /\ Report(h, k.resource)
  BY DEF Replay, Found
<1>3. Grows
  BY <1>1, LocksStay, RowsStay DEF governedVars, derivedVars
<1>4. PICK resource : resource = k.resource
  OBVIOUS
<1>5. Recorded(w.operation, resource)'
  BY <1>1, <1>2, <1>4 DEF Recorded
<1>6. HandlersSound'
  BY <1>1, <1>2, <1>3, <1>4, <1>5, ReportSound
<1> QED
  BY <1>1, <1>3, <1>6, RowsLast DEF governedVars

LEMMA AppendAuditSound ==
  ASSUME IInv, Typed', NEW h \in Handlers, NEW w \in Work, handler[h] = w, AppendAudit(h)
  PROVE  IInv'
<1> USE DEF IInv, Typed
<1>1. /\ w.step = "audit" /\ audit' \subseteq audit \cup {w.event} /\ Finish(h)
      /\ UNCHANGED <<registryVars, archived, governedVars, derivedVars, keys>>
  BY DEF AppendAudit, At
<1>2. w \in AuditWork
  BY <1>1, WorkFacts DEF Work
<1>3. Recorded(w.event.operation, w.event.resource)
  BY <1>2 DEF HandlersSound, WorkSound
<1>4. Grows
  BY <1>1, LocksStay, RowsStay DEF governedVars, derivedVars
<1>5. AuditSound'
  BY <1>1, <1>3 DEF AuditSound, Recorded
<1>6. HandlersSound'
  BY <1>1, <1>4, FinishSound
<1>7. KeysSound'
  BY <1>1, <1>4, Lasting DEF KeysSound
<1>8. EffectsAreKeyed'
  BY <1>1 DEF EffectsAreKeyed, Recorded, governedVars, derivedVars
<1> QED
  BY <1>1, <1>4, <1>5, <1>6, <1>7, <1>8, Lasting DEF governedVars, derivedVars

LEMMA AbandonSound ==
  ASSUME IInv, Typed', NEW h \in Handlers, Abandon(h)
  PROVE  IInv'
<1> USE DEF IInv, Typed
<1>1. /\ Finish(h)
      /\ UNCHANGED <<registryVars, archived, governedVars, derivedVars, keys, audit>>
  BY DEF Abandon
<1>2. Grows
  BY <1>1, LocksStay, RowsStay DEF governedVars, derivedVars
<1>3. HandlersSound'
  BY <1>1, <1>2, FinishSound
<1> QED
  BY <1>1, <1>2, <1>3, RowsLast DEF governedVars

-------------------------------------------------------------------------------
(* The invariant.                                                             *)

LEMMA InitInvariant == Init => IInv
<1> SUFFICES ASSUME Init PROVE IInv
  OBVIOUS
<1>1. Typed
  BY InitTyped
<1>2. HandlersSound
  BY BoundsAssumption DEF Init, HandlersSound
<1>3. /\ ContentsSound /\ ObjectsPrecedeVersions /\ ContextIsTraceable
      /\ OneManifestPerRequest /\ ResultsSound /\ KeysSound /\ AuditSound
  BY ContentAssumption DEF Init, ContentsSound, ObjectsPrecedeVersions, ContextIsTraceable,
       OneManifestPerRequest, ResultsSound, KeysSound, AuditSound
<1>4. EffectsAreKeyed
  BY DEF Init, EffectsAreKeyed
<1> QED
  BY <1>1, <1>2, <1>3, <1>4 DEF IInv

LEMMA ContinueSound ==
  ASSUME IInv, Typed', NEW h \in Handlers, Continue(h)
  PROVE  IInv'
<1>1. CASE Abandon(h)
  BY <1>1, AbandonSound
<1>2. CASE ~Abandon(h)
  <2>1. handler[h] # Idle
    BY <1>2 DEF Continue, Commit, PutObject, Read, Scan, AddAsset, AddContent, Bind, SaveContent,
         AddManifest, ReuseManifest, AddResult, AddReport, Replay, AppendAudit, Ready, At
  <2>2. PICK w \in Work : handler[h] = w
    BY <2>1, Busy DEF IInv, Typed
  <2>3. CASE PutObject(h)
    BY <2>2, <2>3, PutObjectSound
  <2>4. ASSUME NEW item \in Items, Read(h, item) PROVE IInv'
    BY <2>2, <2>4, ReadSound
  <2>5. ASSUME NEW c \in Components, Scan(h, c) PROVE IInv'
    BY <2>2, <2>5, ScanSound
  <2>6. ASSUME NEW a \in Assets, AddAsset(h, a) PROVE IInv'
    BY <2>2, <2>6, AddAssetSound
  <2>7. CASE AddContent(h)
    BY <2>2, <2>7, AddContentSound
  <2>8. CASE Bind(h)
    BY <2>2, <2>8, BindSound
  <2>9. CASE SaveContent(h)
    BY <2>2, <2>9, SaveContentSound
  <2>10. CASE AddManifest(h)
    BY <2>2, <2>10, AddManifestSound
  <2>11. CASE ReuseManifest(h)
    BY <2>2, <2>11, ReuseManifestSound
  <2>12. CASE AddResult(h)
    BY <2>2, <2>12, AddResultSound
  <2>13. CASE AddReport(h)
    BY <2>2, <2>13, AddReportSound
  <2>14. CASE Replay(h)
    BY <2>2, <2>14, ReplaySound
  <2>15. CASE AppendAudit(h)
    BY <2>2, <2>15, AppendAuditSound
  <2> QED
    BY <1>2, <2>3, <2>4, <2>5, <2>6, <2>7, <2>8, <2>9, <2>10, <2>11, <2>12, <2>13, <2>14, <2>15
       DEF Continue, Commit
<1> QED
  BY <1>1, <1>2

LEMMA StepInvariant == IInv /\ [Next]_vars => IInv'
<1> SUFFICES ASSUME IInv, [Next]_vars PROVE IInv'
  OBVIOUS
<1>1. Typed'
  BY StepTyped DEF IInv
<1>2. CASE Environment
  BY <1>1, <1>2, EnvironmentSound
<1>3. ASSUME NEW h \in Handlers, Receive(h)
      PROVE  IInv'
  BY <1>1, <1>3, ReceiveSound
<1>4. ASSUME NEW h \in Handlers, Continue(h)
      PROVE  IInv'
  BY <1>1, <1>4, ContinueSound
<1>5. CASE UNCHANGED vars
  <2>1. UNCHANGED <<registryVars, archived, governedVars, derivedVars, keys, audit, handler>>
    BY <1>5 DEF vars
  <2>2. Grows
    BY <2>1, LocksStay, RowsStay DEF governedVars, derivedVars
  <2>3. HandlersSound'
    <3> SUFFICES ASSUME NEW h \in Handlers, NEW w \in Work, handler[h] = w
                 PROVE  WorkSound(w)'
      BY <2>1 DEF HandlersSound
    <3> QED
      BY <1>1, <2>2, WorkLasts DEF HandlersSound, IInv, Typed
  <2> QED
    BY <1>1, <2>1, <2>2, <2>3, RowsLast DEF IInv, Typed, governedVars
<1> QED
  BY <1>2, <1>3, <1>4, <1>5 DEF Next

LEMMA Invariance == Spec => []IInv
  BY InitInvariant, StepInvariant, PTL DEF Spec

(* All that a ContextManifest contains is content its DomainLock pins, that   *)
(* was published once, of the tenant, in its period and for its purpose,      *)
(* whatever happened while it was compiled and afterwards.                    *)
THEOREM ContextStaysTraceable == Spec => []ContextIsTraceable
<1>1. IInv => ContextIsTraceable
  BY DEF IInv
<1> QED
  BY Invariance, <1>1, PTL

(* What a VALID answer names is such content of one stored manifest.          *)
THEOREM AnswersStayGrounded == Spec => []GroundedAnswersAreTraceable
<1>1. IInv => GroundedAnswersAreTraceable
  <2> SUFFICES ASSUME IInv, NEW result \in results, result.status = "VALID"
               PROVE  /\ result.manifest \in manifests
                      /\ result.manifest.unclear = {}
                      /\ \A e \in result.candidate.cites : Traceable(e, result.manifest)
                      /\ \A id \in result.candidate.ids :
                           \E e \in result.manifest.included :
                             e.concept = id /\ Traceable(e, result.manifest)
    BY DEF GroundedAnswersAreTraceable
  <2>1. /\ result.manifest \in manifests
        /\ result.manifest.unclear = {}
        /\ Named(result.candidate, result.manifest)
    BY DEF IInv, ResultsSound, Grounded
  <2>2. \A e \in result.manifest.included : Traceable(e, result.manifest)
    BY <2>1 DEF IInv, ContextIsTraceable
  <2> QED
    BY <2>1, <2>2 DEF Named
<1> QED
  BY Invariance, <1>1, PTL

(* No actor's request ever has two manifests for one lock.                    *)
THEOREM ManifestsAreUnique == Spec => []OneManifestPerRequest
<1>1. IInv => OneManifestPerRequest
  BY DEF IInv
<1> QED
  BY Invariance, <1>1, PTL

(* A key stands for one request, and no effect is without its key.            *)
THEOREM EffectsStayKeyed == Spec => []EffectsAreKeyed
<1>1. IInv => EffectsAreKeyed
  BY DEF IInv
<1> QED
  BY Invariance, <1>1, PTL

(* No knowledge version is ever without its object. *)
THEOREM ObjectsComeFirst == Spec => []ObjectsPrecedeVersions
<1>1. IInv => ObjectsPrecedeVersions
  BY DEF IInv
<1> QED
  BY Invariance, <1>1, PTL

(* What the audit says has happened: an audited withdrawal lasts.  That needs *)
(* clients whose If-Match is a version they were given: the route compares it *)
(* at the commit only, and takes one that does not exist yet.                 *)
THEOREM AuditIsTrue == IfMatchAhead = 0 => (Spec => []AuditTellsWhatHappened)
<1> SUFFICES ASSUME IfMatchAhead = 0 PROVE Spec => []AuditTellsWhatHappened
  OBVIOUS
<1>1. IInv => AuditTellsWhatHappened
  <2> SUFFICES ASSUME IInv, NEW event \in audit
               PROVE  /\ Recorded(event.operation, event.resource)
                      /\ event.operation[2] = "withdraw" =>
                           contents[event.resource.component].status = "WITHDRAWN"
                      /\ event.operation[2] = "compile" => event.resource.manifest \in manifests
    BY DEF AuditTellsWhatHappened
  <2>1. PICK k \in keys : k.operation = event.operation /\ k.resource = event.resource
    BY DEF IInv, AuditSound, Recorded
  <2>2. KeyTells(k)
    BY DEF IInv, KeysSound
  <2> QED
    BY <2>1, <2>2 DEF KeyTells, Recorded
<1> QED
  BY Invariance, <1>1, PTL

-------------------------------------------------------------------------------
(* What no step does. *)

(* What was withdrawn is never published again, if If-Match is, again, a      *)
(* version the client was given: a publish judged on the row before the       *)
(* withdrawal, with the version after it, would be saved.                     *)
THEOREM WithdrawalStaysFinal == IfMatchAhead = 0 => (Spec => WithdrawalIsFinal)
<1> SUFFICES ASSUME IfMatchAhead = 0 PROVE Spec => WithdrawalIsFinal
  OBVIOUS
<1>1. IInv /\ [Next]_vars =>
        [\A c \in Components :
           contents[c] # None /\ contents[c].status = "WITHDRAWN" => contents'[c] = contents[c]]_vars
  <2> SUFFICES ASSUME IInv, Next, NEW c \in Components, contents[c] # None,
                      contents[c].status = "WITHDRAWN"
               PROVE  contents'[c] = contents[c]
    OBVIOUS
  <2> USE DEF IInv, Typed
  <2>1. CASE Environment
    BY <2>1 DEF Environment, GovernPackageVersion, GovernInstallation, SelectLock, Archive,
         governedVars
  <2>2. ASSUME NEW h \in Handlers, Receive(h)
        PROVE  contents'[c] = contents[c]
    BY <2>2 DEF Receive, BeginAsset, BeginPayload, BeginVersion, BeginTransition, BeginCompile,
         BeginGrounding, BeginImpact, governedVars
  <2>3. ASSUME NEW h \in Handlers, AddContent(h)
        PROVE  contents'[c] = contents[c]
    BY <2>3 DEF AddContent, TypeOK
  <2>4. ASSUME NEW h \in Handlers, SaveContent(h)
        PROVE  contents'[c] = contents[c]
    <3>1. PICK w \in Work : handler[h] = w
      BY <2>4, Busy DEF SaveContent, Ready, At
    <3> DEFINE d == w.request.component
    <3>2. /\ w.step = "commit" /\ w.operation[2] \in Transitions
          /\ Unmoved(contents[d], w.draft) /\ contents' = [contents EXCEPT ![d] = w.draft]
      BY <2>4, <3>1 DEF SaveContent, Ready, At
    <3>3. w \in ContentWork
      BY <3>2, WorkByVerb
    <3>4. Judged(d, w.draft) /\ d \in Components /\ contents[d] \in Rows
      BY <3>1, <3>2, <3>3 DEF HandlersSound, WorkSound, ContentSound, TransitionSound,
           ContentWork, Held, ContentRequests, TypeOK
    <3>5. contents[d].status # "WITHDRAWN"
      BY <3>2, <3>4 DEF Judged, Unmoved, LifecycleTransitions, Rows
    <3> QED
      BY <3>2, <3>5 DEF TypeOK
  <2>5. ASSUME NEW h \in Handlers, Continue(h), ~AddContent(h), ~SaveContent(h)
        PROVE  contents'[c] = contents[c]
    BY <2>5 DEF Continue, Commit, PutObject, Read, Scan, AddAsset, Bind, AddManifest,
         ReuseManifest, AddResult, AddReport, Replay, AppendAudit, Abandon, governedVars
  <2> QED
    BY <2>1, <2>2, <2>3, <2>4, <2>5 DEF Next
<1> QED
  BY Invariance, <1>1, PTL DEF Spec, WithdrawalIsFinal

LEMMA AtRiskIs ==
  ASSUME NEW lock
  PROVE  AtRisk(lock) <=> Exists(lock) /\ ~Healthy(lock) /\ ~Compiling(lock)
  BY DEF AtRisk, Healthy

(* Nothing heals a lock. *)
LEMMA EnvironmentHealsNothing ==
  ASSUME Typed, Environment, NEW lock \in Locks, Exists(lock), ~Healthy(lock)
  PROVE  ~Healthy(lock)'
<1> USE DEF Typed
<1>1. Pins(lock)' = Pins(lock)
  BY EnvironmentPins DEF PinsLast
<1>2. lock.project \in Projects /\ lock.number \in 1..MaxLocks
  BY DEF Locks
<1> DEFINE i == selections[lock.project][lock.number]
<1>3. i \in InstallationIds /\ installed[i] # None
  <2>1. selections[lock.project] \in Seq(InstallationIds)
    BY <1>2 DEF TypeOK
  <2>2. lock.number \in 1..Len(selections[lock.project])
    BY <1>2, <2>1, BoundsAssumption DEF Exists
  <2> QED
    BY <1>2, <2>1, <2>2 DEF LocksSound
<1>4. CASE GovernPackageVersion
  <2>1. PICK pv \in PackageVersions, target \in {"QUARANTINED", "WITHDRAWN"} :
          Registry!Govern(pv, target)
    BY <1>4 DEF GovernPackageVersion
  <2>2. installed' = installed /\ selections' = selections
    BY <2>1 DEF Registry!Govern
  <2>3. \A v \in PackageVersions : ~Validated(v) => ~Validated(v)'
    BY <2>1 DEF Registry!Govern, Validated, TypeOK
  <2>4. Pins(lock) \subseteq PackageVersions
    BY <1>3 DEF Pins, InstallationOf, TypeOK, Installations
  <2> QED
    BY <1>1, <2>2, <2>3, <2>4 DEF Healthy, InstallationOf
<1>5. CASE GovernInstallation
  <2>1. PICK j \in InstallationIds, target \in {"DISABLED", "REVOKED", "LOGICALLY_UNINSTALLED"} :
          Registry!GovernInstallation(j, target)
    BY <1>5 DEF GovernInstallation
  <2>2. /\ selections' = selections /\ registry' = registry
        /\ installed[i].state # "INSTALLED_DISABLED" => installed'[i].state # "INSTALLED_DISABLED"
    BY <1>3, <2>1 DEF Registry!GovernInstallation, TypeOK
  <2> QED
    BY <1>1, <2>2 DEF Healthy, InstallationOf, Validated
<1>6. CASE SelectLock
  <2>1. PICK p \in Projects, j \in InstallationIds : Registry!Select(p, j)
    BY <1>6 DEF SelectLock
  <2>2. /\ selections' = [selections EXCEPT ![p] = Append(selections[p], j)]
        /\ installed' = installed /\ registry' = registry
    BY <2>1 DEF Registry!Select
  <2>3. selections \in [Projects -> Seq(InstallationIds)]
    BY DEF TypeOK
  <2>4. selections'[lock.project][lock.number] = i
    BY <1>2, <2>2, <2>3, BoundsAssumption DEF Exists
  <2> QED
    BY <1>1, <2>2, <2>4 DEF Healthy, InstallationOf, Validated
<1>7. ASSUME NEW scope \in Archivable, Archive(scope)
      PROVE  ~Healthy(lock)'
  BY <1>7 DEF Archive, registryVars, Healthy, Pins, InstallationOf, Validated
<1> QED
  BY <1>4, <1>5, <1>6, <1>7 DEF Environment

LEMMA NobodyStartsOn ==
  ASSUME Typed, NEW h \in Handlers, Receive(h) \/ Continue(h), NEW lock \in Locks, AtRisk(lock)
  PROVE  /\ ~Compiling(lock)'
         /\ \A manifest \in manifests' \ manifests : manifest.lock # lock
<1> USE DEF Typed
<1>1. /\ ~Compiling(lock)
      /\ ~Healthy(lock)
  BY AtRiskIs
<1>2. ASSUME \A g \in Handlers \ {h} : handler'[g] = handler[g],
             \/ handler'[h] = Idle
             \/ handler'[h].step = "audit"
             \/ handler'[h].operation # <<"context", "compile">>
             \/ handler'[h].draft.lock # lock
      PROVE  ~Compiling(lock)'
  BY <1>1, <1>2 DEF Compiling
<1>3. ASSUME NEW p \in Projects, NEW context, NEW key, BeginCompile(h, p, context, key)
      PROVE  ~Compiling(lock)'
  <2> DEFINE request == [lock |-> CurrentLock(p), context |-> context]
             draft == [actor |-> ActorOf[key], lock |-> CurrentLock(p), context |-> context,
                       included |-> {}, unclear |-> {}]
  <2>1. Hold(h, Onward(context.asks), <<"context", "compile">>, key, request, draft, context.asks)
    BY <1>3 DEF BeginCompile
  <2>2. /\ handler'[h] = [step |-> Onward(context.asks), operation |-> <<"context", "compile">>,
                          key |-> key, request |-> request, draft |-> draft,
                          pending |-> context.asks]
        /\ \A g \in Handlers \ {h} : handler'[g] = handler[g]
    BY <2>1, Holding
  <2>3. PICK found : found = CurrentLock(p)
    OBVIOUS
  <2>4. Healthy(found)
    BY <1>3, <2>3 DEF BeginCompile, Healthy, InstallationOf, Pins
  <2>5. found # lock
    BY <1>1, <2>4
  <2>6. handler'[h].draft.lock # lock
    BY <2>2, <2>3, <2>5
  <2> QED
    BY <1>2, <2>2, <2>6
<1>4. ASSUME NEW step, NEW operation, NEW key, NEW request, NEW draft, NEW pending,
             Hold(h, step, operation, key, request, draft, pending),
             operation # <<"context", "compile">> \/ draft.lock # lock
      PROVE  ~Compiling(lock)'
  <2>1. /\ handler'[h] = [step |-> step, operation |-> operation, key |-> key,
                          request |-> request, draft |-> draft, pending |-> pending]
        /\ \A g \in Handlers \ {h} : handler'[g] = handler[g]
    BY <1>4, Holding
  <2>2. handler'[h].operation = operation /\ handler'[h].draft = draft
    BY <2>1
  <2> QED
    BY <1>2, <1>4, <2>1, <2>2
<1>5. ASSUME NEW resource, Report(h, resource)
      PROVE  ~Compiling(lock)'
  BY <1>2, <1>5 DEF Report, TypeOK
<1>6. ASSUME Finish(h)
      PROVE  ~Compiling(lock)'
  BY <1>2, <1>6, Finishes
<1>7. \A c, verb : <<KindOf(c), verb>> # <<"context", "compile">>
  BY DEF KindOf
<1>8. CASE Receive(h)
  <2>1. manifests' = manifests
    BY <1>8 DEF Receive, BeginAsset, BeginPayload, BeginVersion, BeginTransition, BeginCompile,
         BeginGrounding, BeginImpact, derivedVars
  <2>2. (\E p \in Projects : \E context, key : BeginCompile(h, p, context, key)) \/
        (\E step, operation, key, request, draft, pending :
           /\ Hold(h, step, operation, key, request, draft, pending)
           /\ operation # <<"context", "compile">>)
    <3>1. ASSUME NEW organization, NEW key, BeginAsset(h, organization, key)
          PROVE  <2>2!2
      <4>1. Hold(h, "commit", <<"knowledge-asset", "create">>, key,
                 [organization |-> organization], organization, {})
        BY <3>1 DEF BeginAsset
      <4> QED
        BY <4>1
    <3>2. ASSUME NEW c, NEW key, BeginPayload(h, c, key)
          PROVE  <2>2!2
      BY <1>7, <3>2 DEF BeginPayload
    <3>3. ASSUME NEW c, NEW a, NEW key, BeginVersion(h, c, a, key)
          PROVE  <2>2!2
      BY <1>7, <3>3 DEF BeginVersion
    <3>4. ASSUME NEW c, NEW verb, NEW expected, NEW key,
                 BeginTransition(h, c, verb, expected, key)
          PROVE  <2>2!2
      BY <1>7, <3>4 DEF BeginTransition
    <3>5. ASSUME NEW manifest, NEW candidate, NEW key, BeginGrounding(h, manifest, candidate, key)
          PROVE  <2>2!2
      <4>1. \E result : Hold(h, "commit", <<"grounding", "validate">>, key, result, result, {})
        BY <3>5 DEF BeginGrounding
      <4> QED
        BY <4>1
    <3>6. ASSUME NEW from, NEW to, NEW key, BeginImpact(h, from, to, key)
          PROVE  <2>2!2
      <4>1. \E report :
              Hold(h, "scan", <<"semantic-impact", "analyze">>, key, report, report, {from, to})
        BY <3>6 DEF BeginImpact
      <4> QED
        BY <4>1
    <3> QED
      BY <1>8, <3>1, <3>2, <3>3, <3>4, <3>5, <3>6 DEF Receive
  <2> QED
    BY <1>3, <1>4, <2>1, <2>2
<1>9. CASE Continue(h)
  <2>1. CASE Abandon(h)
    BY <1>6, <2>1 DEF Abandon, derivedVars
  <2>2. CASE ~Abandon(h)
    <3>1. handler[h] # Idle
      BY <1>9, <2>2 DEF Continue, Commit, PutObject, Read, Scan, AddAsset, AddContent, Bind,
           SaveContent, AddManifest, ReuseManifest, AddResult, AddReport, Replay, AppendAudit,
           Ready, At
    <3>2. PICK w \in Work : handler[h] = w
      BY <3>1, Busy
    <3>3. /\ w.step # "audit" /\ w.operation = <<"context", "compile">> => w.draft.lock # lock
      BY <1>1, <3>1, <3>2 DEF Compiling
    <3>4. CASE PutObject(h)
      <4>1. Hold(h, "commit", w.operation, w.key, w.request, w.draft, {}) /\ w.step = "store"
        BY <3>2, <3>4 DEF PutObject, Redraft, At
      <4> QED
        BY <1>4, <3>3, <3>4, <4>1 DEF PutObject, derivedVars
    <3>5. ASSUME NEW item \in Items, Read(h, item)
          PROVE  ~Compiling(lock)' /\ manifests' = manifests
      <4>1. w.step = "read" /\ manifests' = manifests
        BY <3>2, <3>5 DEF Read, At, derivedVars
      <4>2. w.draft \in Manifests /\ w.operation = <<"context", "compile">>
        BY <4>1, WorkByVerb DEF ContextWork, Held
      <4>3. \E step, draft, pending : draft.lock = w.draft.lock /\ Redraft(h, step, draft, pending)
        <5>1. \A all : [w.draft EXCEPT !.included = all].lock = w.draft.lock
          BY <4>2 DEF Manifests
        <5>2. \A all : [w.draft EXCEPT !.unclear = all].lock = w.draft.lock
          BY <4>2 DEF Manifests
        <5>3. \/ \E step, all, pending :
                   Redraft(h, step, [w.draft EXCEPT !.included = all], pending)
              \/ \E step, all, pending :
                   Redraft(h, step, [w.draft EXCEPT !.unclear = all], pending)
          BY <3>2, <3>5 DEF Read
        <5> QED
          BY <5>1, <5>2, <5>3
      <4>4. PICK step, draft, pending :
              draft.lock = w.draft.lock /\ Redraft(h, step, draft, pending)
        BY <4>3
      <4>5. Hold(h, step, w.operation, w.key, w.request, draft, pending)
        BY <3>2, <4>4 DEF Redraft
      <4>6. draft.lock # lock
        BY <3>3, <4>1, <4>2, <4>4
      <4> QED
        BY <1>4, <4>1, <4>5, <4>6
    <3>6. ASSUME NEW c \in Components, Scan(h, c)
          PROVE  ~Compiling(lock)' /\ manifests' = manifests
      <4>1. w.step = "scan" /\ manifests' = manifests
        BY <3>2, <3>6 DEF Scan, At, derivedVars
      <4>2. w.operation = <<"semantic-impact", "analyze">>
        BY <4>1, WorkByVerb DEF ImpactWork, Held
      <4>3. \E step, report, rest : Hold(h, step, w.operation, w.key, report, report, rest)
        BY <3>2, <3>6 DEF Scan
      <4> QED
        BY <1>4, <4>1, <4>2, <4>3
    <3>7. ASSUME NEW a \in Assets, AddAsset(h, a)
          PROVE  ~Compiling(lock)' /\ manifests' = manifests
      BY <1>5, <3>7 DEF AddAsset, derivedVars
    <3>8. CASE AddContent(h)
      BY <1>5, <3>8 DEF AddContent, derivedVars
    <3>9. CASE Bind(h)
      BY <1>6, <3>9 DEF Bind, derivedVars
    <3>10. CASE SaveContent(h)
      BY <1>5, <3>10 DEF SaveContent, derivedVars
    <3>11. CASE AddManifest(h)
      <4>1. w.step = "commit" /\ w.operation[2] = "compile"
        BY <3>2, <3>11 DEF AddManifest, Ready, At
      <4>2. w.draft \in Manifests /\ w.operation = <<"context", "compile">>
        BY <4>1, WorkByVerb DEF ContextWork, Held
      <4>3. PICK included :
              /\ manifests' = manifests \cup {[w.draft EXCEPT !.included = included]}
              /\ Report(h, [manifest |-> [w.draft EXCEPT !.included = included]])
        BY <3>2, <3>11 DEF AddManifest
      <4>4. [w.draft EXCEPT !.included = included].lock = w.draft.lock
        BY <4>2 DEF Manifests
      <4>5. PICK resource : resource = [manifest |-> [w.draft EXCEPT !.included = included]]
        OBVIOUS
      <4>6. Report(h, resource)
        BY <4>3, <4>5
      <4> QED
        BY <1>5, <3>3, <4>1, <4>2, <4>3, <4>4, <4>6
    <3>12. CASE ReuseManifest(h)
      BY <1>5, <3>12 DEF ReuseManifest, derivedVars
    <3>13. CASE AddResult(h)
      BY <1>5, <3>13 DEF AddResult
    <3>14. CASE AddReport(h)
      BY <1>5, <3>14 DEF AddReport
    <3>15. CASE Replay(h)
      BY <1>5, <3>15 DEF Replay, derivedVars
    <3>16. CASE AppendAudit(h)
      BY <1>6, <3>16 DEF AppendAudit, derivedVars
    <3> QED
      BY <1>9, <2>2, <3>4, <3>5, <3>6, <3>7, <3>8, <3>9, <3>10, <3>11, <3>12, <3>13, <3>14,
         <3>15, <3>16 DEF Continue, Commit
  <2> QED
    BY <2>1, <2>2
<1> QED
  BY <1>8, <1>9

(* Once a lock is at risk and the compilations that had found it healthy are  *)
(* over, it stays so and gets no manifest any more.                           *)
THEOREM AtRiskLocksStayIdle == Spec => AtRiskLocksGetNoContext
<1>1. IInv /\ [Next]_vars =>
        [\A lock \in Locks : AtRisk(lock) =>
           AtRisk(lock)' /\ \A manifest \in manifests' \ manifests : manifest.lock # lock]_vars
  <2> SUFFICES ASSUME IInv, Next, NEW lock \in Locks, AtRisk(lock)
               PROVE  /\ AtRisk(lock)'
                      /\ \A manifest \in manifests' \ manifests : manifest.lock # lock
    OBVIOUS
  <2> USE DEF IInv
  <2>1. Exists(lock) /\ ~Healthy(lock) /\ ~Compiling(lock)
    BY AtRiskIs
  <2>2. Exists(lock)' /\ ~Healthy(lock)' /\ ~Compiling(lock)' => AtRisk(lock)'
    BY DEF AtRisk, Healthy
  <2>3. CASE Environment
    <3>1. Exists(lock)' /\ ~Healthy(lock)'
      BY <2>1, <2>3, EnvironmentPins, EnvironmentHealsNothing DEF PinsLast
    <3>2. handler' = handler /\ manifests' = manifests
      BY <2>3 DEF Environment, GovernPackageVersion, GovernInstallation, SelectLock, Archive,
           derivedVars
    <3>3. ~Compiling(lock)'
      BY <2>1, <3>2 DEF Compiling
    <3> QED
      BY <2>2, <3>1, <3>2, <3>3
  <2>4. ASSUME NEW h \in Handlers, Receive(h) \/ Continue(h)
        PROVE  /\ AtRisk(lock)'
               /\ \A manifest \in manifests' \ manifests : manifest.lock # lock
    <3>1. UNCHANGED registryVars
      BY <2>4 DEF Receive, BeginAsset, BeginPayload, BeginVersion, BeginTransition, BeginCompile,
           BeginGrounding, BeginImpact, Continue, Commit, PutObject, Read, Scan, AppendAudit,
           Abandon, AddAsset, AddContent, Bind, SaveContent, AddManifest, ReuseManifest, AddResult,
           AddReport, Replay
    <3>2. Exists(lock)' /\ ~Healthy(lock)'
      BY <2>1, <3>1 DEF registryVars, Exists, Healthy, Pins, InstallationOf, Validated
    <3> QED
      BY <2>2, <2>4, <3>2, NobodyStartsOn
  <2> QED
    BY <2>3, <2>4 DEF Next
<1> QED
  BY Invariance, <1>1, PTL DEF Spec, AtRiskLocksGetNoContext

===============================================================================
