------------------------- MODULE DomainRegistryProofs -------------------------
(***************************************************************************)
(* Proofs about DomainRegistry, for any number of package versions,        *)
(* installations, locks, Projects, handlers and keys.                      *)
(***************************************************************************)
EXTENDS DomainRegistry, SequenceTheorems, TLAPS

(* A handler that holds well-typed work leaves the handler table well-typed. *)
LEMMA HoldType ==
  ASSUME TypeOK, NEW h \in Handlers,
         NEW step \in {"lookup", "readCurrent", "checkLocks", "bind", "commit"},
         NEW request \in Requests, NEW key \in Keys, NEW expected \in Nat,
         NEW refs \in SUBSET PackageVersions, NEW resource \in Resources \cup {None},
         step = "bind" => resource \in Resources,
         Hold(h, step, request, key, expected, refs, resource)
  PROVE  handler' \in [Handlers -> Work \cup {Idle}]
  BY DEF TypeOK, Hold, Work

LEMMA FinishType ==
  ASSUME TypeOK, NEW h \in Handlers, Finish(h)
  PROVE  handler' \in [Handlers -> Work \cup {Idle}]
  BY DEF TypeOK, Finish

(* What a busy handler holds. *)
LEMMA BusyType ==
  ASSUME TypeOK, NEW h \in Handlers, handler[h] # Idle
  PROVE  /\ handler[h] \in Work
         /\ handler[h].request \in Requests
         /\ handler[h].key \in Keys
         /\ handler[h].expected \in Nat
         /\ handler[h].refs \in SUBSET PackageVersions
         /\ handler[h].resource \in Resources \cup {None}
         /\ handler[h].step = "bind" => handler[h].resource \in Resources
  BY DEF TypeOK, Work

LEMMA RequestType ==
  ASSUME NEW request \in Requests
  PROVE  /\ request.kind = "register" =>
              request.subject \in PackageVersions /\ request.argument \in Contents
         /\ request.kind = "governPackage" =>
              request.subject \in PackageVersions /\ request.argument \in RegistryTargets
         /\ request.kind = "install" =>
              request.subject \in PackageVersions /\ request.argument \in Organizations
         /\ request.kind = "governInstallation" =>
              request.subject \in InstallationIds /\ request.argument \in InstallationTargets
         /\ request.kind = "switch" =>
              request.subject \in Projects /\ request.argument \in InstallationIds
  BY DEF Requests

LEMMA AddIdempotencyType ==
  ASSUME TypeOK, NEW request \in Requests, NEW key \in Keys, NEW resource \in Resources,
         AddIdempotency(request, key, resource)
  PROVE  idempotency' \subseteq Bindings
  BY DEF TypeOK, AddIdempotency, Bindings

LEMMA AppendType ==
  ASSUME NEW S, NEW s \in Seq(S), NEW e \in S
  PROVE  Append(s, e) \in Seq(S)
  BY AppendProperties

-------------------------------------------------------------------------------
(* Type correctness.  One lemma per group of actions. *)

LEMMA BeginTypes ==
  ASSUME TypeOK, NEW h \in Handlers, Receive(h)
  PROVE  TypeOK'
<1> USE ConstantsAssumption
<1>1. PICK key \in Keys :
        \/ \E pv \in PackageVersions, content \in Contents : BeginRegister(h, pv, content, key)
        \/ \E pv \in PackageVersions, target \in RegistryTargets, expected \in Nat :
             BeginGovernPackage(h, pv, target, key, expected)
        \/ \E root \in PackageVersions, organization \in Organizations,
              refs \in SUBSET PackageVersions : BeginInstall(h, root, organization, key, refs)
        \/ \E i \in InstallationIds, target \in InstallationTargets, expected \in Nat :
             BeginGovernInstallation(h, i, target, key, expected)
        \/ \E p \in Projects, i \in InstallationIds : BeginSwitch(h, p, i, key)
  <2>1. \A pv \in PackageVersions : packages[pv] # None => packages[pv].version \in Nat
    BY DEF TypeOK, PackageRows
  <2>2. \A i \in InstallationIds : installations[i] # None => installations[i].version \in Nat
    BY DEF TypeOK, InstallationRows
  <2>3. \A v \in Nat : 1..(v + IfMatchAhead) \subseteq Nat
    OBVIOUS
  <2> QED BY <2>1, <2>2, <2>3 DEF Receive
<1>2. ASSUME NEW pv \in PackageVersions, NEW content \in Contents,
             BeginRegister(h, pv, content, key)
      PROVE  TypeOK'
  <2> DEFINE request == [kind |-> "register", subject |-> pv, argument |-> content]
  <2>1. request \in Requests  BY DEF Requests
  <2>2. pv \in Resources /\ {} \in SUBSET PackageVersions  BY DEF Resources
  <2>3. handler' \in [Handlers -> Work \cup {Idle}]
    BY <1>2, <2>1, <2>2, HoldType DEF BeginRegister
  <2> QED BY <1>2, <2>3 DEF BeginRegister, TypeOK
<1>3. ASSUME NEW pv \in PackageVersions, NEW target \in RegistryTargets, NEW expected \in Nat,
             BeginGovernPackage(h, pv, target, key, expected)
      PROVE  TypeOK'
  <2> DEFINE request == [kind |-> "governPackage", subject |-> pv, argument |-> target]
  <2>1. request \in Requests  BY DEF Requests
  <2>2. pv \in Resources /\ {} \in SUBSET PackageVersions  BY DEF Resources
  <2>3. handler' \in [Handlers -> Work \cup {Idle}]
    BY <1>3, <2>1, <2>2, HoldType DEF BeginGovernPackage
  <2> QED BY <1>3, <2>3 DEF BeginGovernPackage, TypeOK
<1>4. ASSUME NEW root \in PackageVersions, NEW organization \in Organizations,
             NEW refs \in SUBSET PackageVersions,
             BeginInstall(h, root, organization, key, refs)
      PROVE  TypeOK'
  <2> DEFINE request == [kind |-> "install", subject |-> root, argument |-> organization]
  <2>1. request \in Requests  BY DEF Requests
  <2>3. handler' \in [Handlers -> Work \cup {Idle}]
    BY <1>4, <2>1, HoldType DEF BeginInstall
  <2> QED BY <1>4, <2>3 DEF BeginInstall, TypeOK
<1>5. ASSUME NEW i \in InstallationIds, NEW target \in InstallationTargets, NEW expected \in Nat,
             BeginGovernInstallation(h, i, target, key, expected)
      PROVE  TypeOK'
  <2> DEFINE request == [kind |-> "governInstallation", subject |-> i, argument |-> target]
  <2>1. request \in Requests  BY DEF Requests
  <2>2. i \in Resources /\ {} \in SUBSET PackageVersions  BY DEF Resources
  <2>3. handler' \in [Handlers -> Work \cup {Idle}]
    BY <1>5, <2>1, <2>2, HoldType DEF BeginGovernInstallation
  <2> QED BY <1>5, <2>3 DEF BeginGovernInstallation, TypeOK
<1>6. ASSUME NEW p \in Projects, NEW i \in InstallationIds, BeginSwitch(h, p, i, key)
      PROVE  TypeOK'
  <2> DEFINE request == [kind |-> "switch", subject |-> p, argument |-> i]
  <2>1. request \in Requests  BY DEF Requests
  <2>2. {} \in SUBSET PackageVersions  OBVIOUS
  <2>3. handler' \in [Handlers -> Work \cup {Idle}]
    BY <1>6, <2>1, <2>2, HoldType DEF BeginSwitch
  <2> QED BY <1>6, <2>3 DEF BeginSwitch, TypeOK
<1> QED BY <1>1, <1>2, <1>3, <1>4, <1>5, <1>6

LEMMA ReadTypes ==
  ASSUME TypeOK, NEW h \in Handlers,
         LookUpInstallation(h) \/ CheckNoCurrentLock(h) \/ ReadCurrentLock(h)
  PROVE  TypeOK'
<1>1. handler[h] # Idle
  BY DEF LookUpInstallation, CheckNoCurrentLock, ReadCurrentLock, At
<1>2. /\ InstallationIds \cup LockIds \subseteq Resources
      /\ {} \in SUBSET PackageVersions
      /\ 0 \in Nat
  BY DEF Resources
<1>3. CASE LookUpInstallation(h)
  <2>1. handler' \in [Handlers -> Work \cup {Idle}]
    BY <1>1, <1>2, <1>3, BusyType, HoldType DEF LookUpInstallation
  <2> QED BY <1>3, <2>1 DEF LookUpInstallation, TypeOK
<1>4. CASE CheckNoCurrentLock(h)
  <2>1. handler' \in [Handlers -> Work \cup {Idle}]
    BY <1>1, <1>2, <1>4, BusyType, HoldType DEF CheckNoCurrentLock
  <2> QED BY <1>4, <2>1 DEF CheckNoCurrentLock, TypeOK
<1>5. CASE ReadCurrentLock(h)
  <2>1. CurrentLocks(handler[h].request.subject) \subseteq LockIds
    BY DEF CurrentLocks
  <2>2. handler' \in [Handlers -> Work \cup {Idle}]
    BY <1>1, <1>2, <1>5, <2>1, BusyType, HoldType DEF ReadCurrentLock
  <2> QED BY <1>5, <2>2 DEF ReadCurrentLock, TypeOK
<1> QED BY <1>3, <1>4, <1>5

LEMMA CommitTypes ==
  ASSUME TypeOK, NEW h \in Handlers,
         \/ Bind(h)
         \/ AddPackageVersion(h)
         \/ SavePackageVersion(h)
         \/ \E i \in InstallationIds : AddInstallation(h, i)
         \/ SaveInstallation(h)
         \/ \E l \in LockIds : SwitchProjectDomainLock(h, l)
  PROVE  TypeOK'
<1> USE ConstantsAssumption
<1>1. handler[h] # Idle
  BY DEF Bind, AddPackageVersion, SavePackageVersion, AddInstallation, SaveInstallation,
         SwitchProjectDomainLock, At
<1>2. handler' \in [Handlers -> Work \cup {Idle}]
  BY FinishType DEF Bind, AddPackageVersion, SavePackageVersion, AddInstallation,
                    SaveInstallation, SwitchProjectDomainLock
<1> DEFINE work == handler[h]
           request == handler[h].request
<1>3. /\ work \in Work
      /\ request \in Requests
      /\ work.key \in Keys
      /\ work.expected \in Nat
      /\ work.refs \in SUBSET PackageVersions
      /\ work.resource \in Resources \cup {None}
      /\ work.step = "bind" => work.resource \in Resources
  BY <1>1, BusyType
<1>4. CASE Bind(h)
  <2>1. idempotency' \subseteq Bindings
    <3>1. work.resource \in Resources
      BY <1>3, <1>4 DEF Bind
    <3> QED BY <1>3, <1>4, <3>1, AddIdempotencyType DEF Bind
  <2> QED BY <1>2, <1>4, <2>1 DEF Bind, TypeOK
<1>5. CASE AddPackageVersion(h)
  <2>1. request.subject \in PackageVersions /\ request.argument \in Contents
    BY <1>3, <1>5, RequestType DEF AddPackageVersion, At
  <2>2. idempotency' \subseteq Bindings
    BY <1>3, <1>5, <2>1, AddIdempotencyType DEF AddPackageVersion, Resources
  <2>3. packages' \in [PackageVersions -> PackageRows \cup {None}]
    BY <1>5, <2>1 DEF AddPackageVersion, TypeOK, PackageRows, RegistryStates
  <2>4. packageAudit' \in [PackageVersions -> Seq(RegistryStates)]
    BY <1>5, <2>1, AppendType DEF AddPackageVersion, TypeOK, RegistryStates
  <2> QED BY <1>2, <1>5, <2>2, <2>3, <2>4 DEF AddPackageVersion, TypeOK
<1>6. CASE SavePackageVersion(h)
  <2>1. request.subject \in PackageVersions /\ request.argument \in RegistryStates
    BY <1>3, <1>6, RequestType DEF SavePackageVersion, At, RegistryStates
  <2>2. idempotency' \subseteq Bindings
    BY <1>3, <1>6, <2>1, AddIdempotencyType DEF SavePackageVersion, Resources
  <2>3. packages' \in [PackageVersions -> PackageRows \cup {None}]
    <3>1. packages[request.subject] \in PackageRows
      BY <1>6, <2>1 DEF SavePackageVersion, Unmoved, TypeOK
    <3> QED BY <1>3, <1>6, <2>1, <3>1 DEF SavePackageVersion, Unmoved, TypeOK, PackageRows
  <2>4. packageAudit' \in [PackageVersions -> Seq(RegistryStates)]
    BY <1>6, <2>1, AppendType DEF SavePackageVersion, Unmoved, TypeOK
  <2> QED BY <1>2, <1>6, <2>2, <2>3, <2>4 DEF SavePackageVersion, Unmoved, TypeOK
<1>7. ASSUME NEW i \in InstallationIds, AddInstallation(h, i)
      PROVE  TypeOK'
  <2>1. request.subject \in PackageVersions /\ request.argument \in Organizations
    BY <1>3, <1>7, RequestType DEF AddInstallation, At
  <2>2. idempotency' \subseteq Bindings
    BY <1>3, <1>7, AddIdempotencyType DEF AddInstallation, Resources
  <2>3. installations' \in [InstallationIds -> InstallationRows \cup {None}]
    BY <1>3, <1>7, <2>1 DEF AddInstallation, TypeOK, InstallationRows, InstallationStates
  <2>4. installationAudit' \in [InstallationIds -> Seq(InstallationStates)]
    BY <1>7, AppendType DEF AddInstallation, TypeOK, InstallationStates
  <2> QED BY <1>2, <1>7, <2>2, <2>3, <2>4 DEF AddInstallation, TypeOK
<1>8. CASE SaveInstallation(h)
  <2>1. request.subject \in InstallationIds /\ request.argument \in InstallationStates
    BY <1>3, <1>8, RequestType DEF SaveInstallation, At, InstallationStates
  <2>2. idempotency' \subseteq Bindings
    BY <1>3, <1>8, <2>1, AddIdempotencyType DEF SaveInstallation, Resources
  <2>3. installations' \in [InstallationIds -> InstallationRows \cup {None}]
    <3>1. installations[request.subject] \in InstallationRows
      BY <1>8, <2>1 DEF SaveInstallation, Unmoved, TypeOK
    <3> QED BY <1>3, <1>8, <2>1, <3>1 DEF SaveInstallation, Unmoved, TypeOK, InstallationRows
  <2>4. installationAudit' \in [InstallationIds -> Seq(InstallationStates)]
    BY <1>8, <2>1, AppendType DEF SaveInstallation, Unmoved, TypeOK
  <2> QED BY <1>2, <1>8, <2>2, <2>3, <2>4 DEF SaveInstallation, Unmoved, TypeOK
<1>9. ASSUME NEW l \in LockIds, SwitchProjectDomainLock(h, l)
      PROVE  TypeOK'
  <2>1. request.subject \in Projects /\ request.argument \in InstallationIds
    BY <1>3, <1>9, RequestType DEF SwitchProjectDomainLock, At
  <2>2. idempotency' \subseteq Bindings
    BY <1>3, <1>9, AddIdempotencyType DEF SwitchProjectDomainLock, Resources
  <2>3. locks' \in [LockIds -> LockRows \cup {None}]
    <3>1. work.resource = None \/ work.resource \in CurrentLocks(request.subject)
      BY <1>9 DEF SwitchProjectDomainLock, StillCurrent
    <3>2. work.resource \in LockIds \cup {None}
      BY <3>1 DEF CurrentLocks
    <3>3. \A k \in LockIds : k = work.resource =>
            Superseded(locks[k]) \in LockRows
      BY <3>1 DEF CurrentLocks, TypeOK, LockRows, Superseded
    <3> QED BY <1>9, <2>1, <3>2, <3>3 DEF SwitchProjectDomainLock, TypeOK, LockRows
  <2>4. lockAudit' \in [Projects -> Seq(LockIds)]
    BY <1>9, <2>1, AppendType DEF SwitchProjectDomainLock, TypeOK
  <2> QED BY <1>2, <1>9, <2>2, <2>3, <2>4 DEF SwitchProjectDomainLock, TypeOK
<1> QED BY <1>4, <1>5, <1>6, <1>7, <1>8, <1>9

LEMMA TypeStep ==
  ASSUME TypeOK, [Next]_vars
  PROVE  TypeOK'
<1>1. CASE UNCHANGED vars
  BY <1>1 DEF vars, TypeOK
<1>2. ASSUME NEW h \in Handlers, Receive(h) PROVE TypeOK'
  BY <1>2, BeginTypes
<1>3. ASSUME NEW h \in Handlers, Continue(h) PROVE TypeOK'
  BY <1>3, ReadTypes, CommitTypes DEF Continue
<1>4. ASSUME NEW h \in Handlers, Abandon(h) PROVE TypeOK'
  BY <1>4, FinishType DEF Abandon, TypeOK
<1>5. ASSUME NEW scope \in ArchivableScopes, ArchiveScope(scope) PROVE TypeOK'
  BY <1>5, ConstantsAssumption DEF ArchiveScope, TypeOK
<1> QED BY <1>1, <1>2, <1>3, <1>4, <1>5 DEF Next

(* Every reachable state is well-typed. *)
THEOREM TypeCorrect == Spec => []TypeOK
<1>1. Init => TypeOK
  <2>1. \A S : <<>> \in Seq(S)
    OBVIOUS
  <2> QED BY <2>1 DEF Init, TypeOK
<1>2. TypeOK /\ [Next]_vars => TypeOK'
  BY TypeStep
<1> QED BY <1>1, <1>2, PTL DEF Spec

-------------------------------------------------------------------------------
(* What the transactions may do to the tables and their audit events: only    *)
(* the five that commit a request touch them at all.                          *)

facts == <<packages, installations, locks, packageAudit, installationAudit, lockAudit>>

LEMMA BeginKeepsFacts ==
  ASSUME NEW h \in Handlers, Receive(h)
  PROVE  UNCHANGED facts
<1>1. \A pv, content, key : BeginRegister(h, pv, content, key) => UNCHANGED facts
  BY DEF BeginRegister, facts
<1>2. \A pv, target, key, expected :
        BeginGovernPackage(h, pv, target, key, expected) => UNCHANGED facts
  BY DEF BeginGovernPackage, facts
<1>3. \A root, organization, key, refs :
        BeginInstall(h, root, organization, key, refs) => UNCHANGED facts
  BY DEF BeginInstall, facts
<1>4. \A i, target, key, expected :
        BeginGovernInstallation(h, i, target, key, expected) => UNCHANGED facts
  BY DEF BeginGovernInstallation, facts
<1>5. \A p, i, key : BeginSwitch(h, p, i, key) => UNCHANGED facts
  BY DEF BeginSwitch, facts
<1> QED BY <1>1, <1>2, <1>3, <1>4, <1>5 DEF Receive

LEMMA OnlyCommitsMoveFacts ==
  ASSUME [Next]_vars
  PROVE  \/ UNCHANGED facts
         \/ \E h \in Handlers :
              \/ AddPackageVersion(h)
              \/ SavePackageVersion(h)
              \/ \E i \in InstallationIds : AddInstallation(h, i)
              \/ SaveInstallation(h)
              \/ \E l \in LockIds : SwitchProjectDomainLock(h, l)
<1>1. ASSUME NEW h \in Handlers, Receive(h) PROVE UNCHANGED facts
  BY <1>1, BeginKeepsFacts
<1>2. ASSUME NEW h \in Handlers,
             \/ Bind(h) \/ LookUpInstallation(h) \/ CheckNoCurrentLock(h)
             \/ ReadCurrentLock(h) \/ Abandon(h)
      PROVE  UNCHANGED facts
  BY <1>2 DEF Bind, LookUpInstallation, CheckNoCurrentLock, ReadCurrentLock, Abandon, facts
<1>3. ASSUME NEW scope \in ArchivableScopes, ArchiveScope(scope) PROVE UNCHANGED facts
  BY <1>3 DEF ArchiveScope, facts
<1>4. CASE UNCHANGED vars
  BY <1>4 DEF vars, facts
<1> QED BY <1>1, <1>2, <1>3, <1>4 DEF Next, Continue

(* A stored row is never lost.  It keeps what it pins, and its version either *)
(* stays with the whole row or goes up by one.                                *)
FactsOnlyAdvance ==
  /\ \A pv \in PackageVersions : packages[pv] # None =>
       /\ packages'[pv] # None
       /\ packages'[pv].content = packages[pv].content
       /\ \/ packages'[pv] = packages[pv]
          \/ packages'[pv].version = packages[pv].version + 1
  /\ \A i \in InstallationIds : installations[i] # None =>
       /\ installations'[i] # None
       /\ installations'[i].organization = installations[i].organization
       /\ installations'[i].root = installations[i].root
       /\ installations'[i].refs = installations[i].refs
       /\ \/ installations'[i] = installations[i]
          \/ installations'[i].version = installations[i].version + 1
  /\ \A l \in LockIds : locks[l] # None =>
       /\ locks'[l] # None
       /\ locks'[l] \in {locks[l], Superseded(locks[l])}
       /\ locks'[l].project = locks[l].project
       /\ locks'[l].installation = locks[l].installation
       /\ locks'[l].previous = locks[l].previous

LEMMA StepsOnlyAdvance ==
  ASSUME TypeOK, [Next]_vars
  PROVE  FactsOnlyAdvance
<1> USE ConstantsAssumption
<1>1. TypeOK'
  BY TypeStep
<1>2. CASE UNCHANGED facts
  BY <1>2 DEF facts, FactsOnlyAdvance
<1>3. ASSUME NEW h \in Handlers, AddPackageVersion(h) PROVE FactsOnlyAdvance
  BY <1>3 DEF AddPackageVersion, FactsOnlyAdvance, TypeOK
<1>4. ASSUME NEW h \in Handlers, SavePackageVersion(h) PROVE FactsOnlyAdvance
  <2> DEFINE subject == handler[h].request.subject
  <2>1. /\ packages[subject].version = handler[h].expected
        /\ packages' = [packages EXCEPT ![subject] =
              [content |-> packages[subject].content,
               state |-> handler[h].request.argument,
               version |-> handler[h].expected + 1]]
        /\ UNCHANGED <<installations, locks>>
    BY <1>4 DEF SavePackageVersion, Unmoved
  <2>2. ASSUME NEW pv \in PackageVersions, packages[pv] # None
        PROVE  /\ packages'[pv] # None
               /\ packages'[pv].content = packages[pv].content
               /\ \/ packages'[pv] = packages[pv]
                  \/ packages'[pv].version = packages[pv].version + 1
    <3>1. CASE pv = subject
      <4>1. packages'[pv] = [content |-> packages[pv].content,
                             state |-> handler[h].request.argument,
                             version |-> handler[h].expected + 1]
        BY <2>1, <3>1 DEF TypeOK
      <4>2. handler[h].request.argument \in RegistryStates
        <5>1. handler[h] # Idle /\ handler[h].request.kind = "governPackage"
          BY <1>4 DEF SavePackageVersion, At
        <5> QED BY <5>1, BusyType, RequestType DEF RegistryStates
      <4>3. packages[pv] \in PackageRows
        BY <2>2 DEF TypeOK
      <4>4. packages'[pv] \in PackageRows
        BY <2>1, <3>1, <4>1, <4>2, <4>3 DEF PackageRows
      <4> QED BY <2>1, <3>1, <4>1, <4>4
    <3>2. CASE pv # subject
      BY <2>1, <2>2, <3>2 DEF TypeOK
    <3> QED BY <3>1, <3>2
  <2> QED BY <2>1, <2>2 DEF FactsOnlyAdvance
<1>5. ASSUME NEW h \in Handlers, NEW i \in InstallationIds, AddInstallation(h, i)
      PROVE  FactsOnlyAdvance
  BY <1>5 DEF AddInstallation, FactsOnlyAdvance, TypeOK
<1>6. ASSUME NEW h \in Handlers, SaveInstallation(h) PROVE FactsOnlyAdvance
  <2> DEFINE subject == handler[h].request.subject
             saved == [organization |-> installations[subject].organization,
                       root |-> installations[subject].root,
                       refs |-> installations[subject].refs,
                       state |-> handler[h].request.argument,
                       version |-> handler[h].expected + 1]
  <2>1. /\ installations[subject].version = handler[h].expected
        /\ installations' = [installations EXCEPT ![subject] = saved]
        /\ UNCHANGED <<packages, locks>>
    BY <1>6 DEF SaveInstallation, Unmoved
  <2>2. ASSUME NEW i \in InstallationIds, installations[i] # None
        PROVE  /\ installations'[i] # None
               /\ installations'[i].organization = installations[i].organization
               /\ installations'[i].root = installations[i].root
               /\ installations'[i].refs = installations[i].refs
               /\ \/ installations'[i] = installations[i]
                  \/ installations'[i].version = installations[i].version + 1
    <3>1. CASE i = subject
      <4>1. installations'[i] = saved
        BY <2>1, <3>1 DEF TypeOK
      <4>2. handler[h].request.argument \in InstallationStates
        <5>1. handler[h] # Idle /\ handler[h].request.kind = "governInstallation"
          BY <1>6 DEF SaveInstallation, At
        <5> QED BY <5>1, BusyType, RequestType DEF InstallationStates
      <4>3. installations[i] \in InstallationRows
        BY <2>2 DEF TypeOK
      <4>4. saved \in InstallationRows
        BY <2>1, <3>1, <4>2, <4>3 DEF InstallationRows
      <4> QED BY <2>1, <3>1, <4>1, <4>4
    <3>2. CASE i # subject
      BY <2>1, <2>2, <3>2 DEF TypeOK
    <3> QED BY <3>1, <3>2
  <2> QED BY <2>1, <2>2 DEF FactsOnlyAdvance
<1>7. ASSUME NEW h \in Handlers, NEW l \in LockIds, SwitchProjectDomainLock(h, l)
      PROVE  FactsOnlyAdvance
  <2>1. ASSUME NEW k \in LockIds, locks[k] # None
        PROVE  /\ locks'[k] # None
               /\ locks'[k] \in {locks[k], Superseded(locks[k])}
               /\ locks'[k].project = locks[k].project
               /\ locks'[k].installation = locks[k].installation
               /\ locks'[k].previous = locks[k].previous
    <3>1. locks'[k] \in {locks[k], Superseded(locks[k])}
      BY <1>7, <2>1 DEF SwitchProjectDomainLock
    <3>2. Superseded(locks[k]) \in LockRows
      BY <2>1 DEF TypeOK, LockRows, Superseded
    <3> QED BY <2>1, <3>1, <3>2 DEF Superseded
  <2> QED BY <1>7, <2>1 DEF SwitchProjectDomainLock, FactsOnlyAdvance
<1> QED BY <1>2, <1>3, <1>4, <1>5, <1>6, <1>7, OnlyCommitsMoveFacts

(* Whatever a DomainLock pins is written once: no step rewrites the content   *)
(* of a package version, the resolution of an installation or the ancestry of *)
(* a lock, and no superseded lock becomes current again.                      *)
THEOREM PinnedFactsNeverChange == Spec => FactsAreImmutable
<1> DEFINE Fixed ==
      /\ \A pv \in PackageVersions : packages[pv] # None =>
           packages'[pv] # None /\ packages'[pv].content = packages[pv].content
      /\ \A i \in InstallationIds : installations[i] # None =>
           /\ installations'[i] # None
           /\ installations'[i].organization = installations[i].organization
           /\ installations'[i].root = installations[i].root
           /\ installations'[i].refs = installations[i].refs
      /\ \A l \in LockIds :
           locks[l] # None =>
           /\ locks'[l] # None
           /\ locks'[l].project = locks[l].project
           /\ locks'[l].installation = locks[l].installation
           /\ locks'[l].previous = locks[l].previous
           /\ locks[l].status = "SUPERSEDED" => locks'[l].status = "SUPERSEDED"
<1>1. TypeOK /\ [Next]_vars => [Fixed]_vars
  BY StepsOnlyAdvance DEF FactsOnlyAdvance, Superseded
<1>2. FactsAreImmutable <=> [][Fixed]_vars
  BY DEF FactsAreImmutable
<1> QED BY <1>1, <1>2, TypeCorrect, PTL DEF Spec

-------------------------------------------------------------------------------
(* DomainLocks.  Only a committing switch touches them.                       *)

(* The last lock of a Project's line is its only CURRENT one. *)
LEMMA ChainEndsInCurrent ==
  ASSUME TypeOK, LockAuditIsTheChain, NEW p \in Projects
  PROVE  /\ Len(lockAudit[p]) \in Nat
         /\ lockAudit[p] = <<>> => CurrentLocks(p) = {}
         /\ lockAudit[p] # <<>> => CurrentLocks(p) = {lockAudit[p][Len(lockAudit[p])]}
<1> DEFINE line == lockAudit[p]
<1>1. line \in Seq(LockIds)
  BY DEF TypeOK
<1>2. /\ Len(line) \in Nat
      /\ \A n \in 1..Len(line) : line[n] \in LockIds
      /\ line = <<>> <=> Len(line) = 0
  BY <1>1
<1>3. ASSUME NEW l \in CurrentLocks(p)
      PROVE  Len(line) # 0 /\ l = line[Len(line)]
  <2>1. l \in LockIds /\ locks[l] # None /\ locks[l].project = p /\ locks[l].status = "CURRENT"
    BY <1>3 DEF CurrentLocks
  <2>2. PICK n \in 1..Len(line) : line[n] = l
    BY <2>1 DEF LockAuditIsTheChain
  <2>3. n = Len(line)
    BY <2>1, <2>2 DEF LockAuditIsTheChain
  <2> QED BY <1>2, <2>2, <2>3
<1>4. ASSUME Len(line) # 0
      PROVE  line[Len(line)] \in CurrentLocks(p)
  <2>1. Len(line) \in 1..Len(line)
    BY <1>2, <1>4
  <2> QED BY <1>2, <2>1 DEF LockAuditIsTheChain, CurrentLocks
<1> QED BY <1>2, <1>3, <1>4

LEMMA SwitchKeepsTheChain ==
  ASSUME TypeOK, LockAuditIsTheChain,
         NEW h \in Handlers, NEW l \in LockIds, SwitchProjectDomainLock(h, l)
  PROVE  LockAuditIsTheChain'
<1> USE ConstantsAssumption
<1> DEFINE request == handler[h].request
           p == request.subject
           previous == handler[h].resource
           line == lockAudit[p]
<1>1. p \in Projects
  <2>1. handler[h] # Idle /\ request.kind = "switch"
    BY DEF SwitchProjectDomainLock, At
  <2> QED BY <2>1, BusyType, RequestType
<1>2. /\ StillCurrent(p, previous)
      /\ locks[l] = None
      /\ lockAudit' = [lockAudit EXCEPT ![p] = Append(line, l)]
  BY DEF SwitchProjectDomainLock
<1>3. \A k \in LockIds :
        locks'[k] = IF k = l
                    THEN [project |-> p, installation |-> request.argument,
                          previous |-> previous, status |-> "CURRENT"]
                    ELSE IF k = previous THEN Superseded(locks[k]) ELSE locks[k]
  BY DEF SwitchProjectDomainLock
<1>4. /\ \A q \in Projects : lockAudit[q] \in Seq(LockIds)
      /\ \A q \in Projects : q # p => lockAudit'[q] = lockAudit[q]
      /\ lockAudit'[p] = Append(line, l)
      /\ Len(line) \in Nat
  BY <1>1, <1>2 DEF TypeOK
<1>5. /\ Len(lockAudit'[p]) = Len(line) + 1
      /\ \A n \in 1..Len(line) : lockAudit'[p][n] = line[n]
      /\ lockAudit'[p][Len(line) + 1] = l
  BY <1>1, <1>4, AppendProperties
<1>6. \/ Len(line) = 0 /\ previous = None
      \/ /\ Len(line) # 0
         /\ previous = line[Len(line)]
         /\ previous \in LockIds
         /\ previous # l
         /\ locks[previous] # None
         /\ locks[previous].project = p
  <2>1. CASE Len(line) = 0
    <3>1. CurrentLocks(p) = {}
      BY <1>1, <1>4, <2>1, ChainEndsInCurrent
    <3> QED BY <1>2, <2>1, <3>1 DEF StillCurrent
  <2>2. CASE Len(line) # 0
    <3>1. line # <<>>
      BY <2>2
    <3>2. CurrentLocks(p) = {line[Len(line)]}
      BY <1>1, <3>1, ChainEndsInCurrent
    <3>3. previous = line[Len(line)] /\ previous \in CurrentLocks(p)
      BY <1>2, <3>2 DEF StillCurrent
    <3> QED BY <1>2, <2>2, <3>3 DEF CurrentLocks
  <2> QED BY <2>1, <2>2
<1>7. ASSUME NEW k \in LockIds, locks[k] # None
      PROVE  /\ locks'[k] # None
             /\ locks'[k].project = locks[k].project
             /\ locks'[k].previous = locks[k].previous
             /\ locks'[k].status = IF k = previous THEN "SUPERSEDED" ELSE locks[k].status
  <2>1. CASE k = previous
    <3>1. locks'[k] = Superseded(locks[k])
      BY <1>2, <1>3, <1>7, <2>1
    <3>2. Superseded(locks[k]) \in LockRows
      BY <1>7 DEF TypeOK, LockRows, Superseded
    <3> QED BY <2>1, <3>1, <3>2 DEF Superseded
  <2>2. CASE k # previous
    BY <1>2, <1>3, <1>7, <2>2
  <2> QED BY <2>1, <2>2
<1>8. /\ locks'[l] # None
      /\ locks'[l].project = p
      /\ locks'[l].previous = previous
      /\ locks'[l].status = "CURRENT"
  <2>1. locks'[l] \in LockRows \cup {None}
    BY CommitTypes DEF TypeOK
  <2>2. locks'[l] = [project |-> p, installation |-> request.argument,
                     previous |-> previous, status |-> "CURRENT"]
    BY <1>3
  <2>3. request.argument \in InstallationIds /\ previous \in LockIds \cup {None}
    <3>1. handler[h] # Idle /\ request.kind = "switch"
      BY DEF SwitchProjectDomainLock, At
    <3> QED BY <1>6, <3>1, BusyType, RequestType
  <2>4. locks'[l] \in LockRows
    BY <1>1, <2>2, <2>3 DEF LockRows
  <2> QED BY <2>2, <2>4
<1>9. ASSUME NEW q \in Projects, NEW n \in 1..Len(lockAudit'[q])
      PROVE  /\ locks'[lockAudit'[q][n]] # None
             /\ locks'[lockAudit'[q][n]].project = q
             /\ locks'[lockAudit'[q][n]].previous =
                  IF n = 1 THEN None ELSE lockAudit'[q][n - 1]
             /\ locks'[lockAudit'[q][n]].status =
                  IF n = Len(lockAudit'[q]) THEN "CURRENT" ELSE "SUPERSEDED"
  <2>1. CASE q = p /\ n = Len(line) + 1
    <3>1. lockAudit'[q][n] = l /\ n = Len(lockAudit'[q])
      BY <1>5, <2>1
    <3>2. previous = IF n = 1 THEN None ELSE lockAudit'[q][n - 1]
      <4>1. CASE Len(line) = 0
        BY <1>6, <2>1, <4>1
      <4>2. CASE Len(line) # 0
        <5>1. n # 1 /\ n - 1 = Len(line) /\ Len(line) \in 1..Len(line)
          BY <1>4, <2>1, <4>2
        <5> QED BY <1>5, <1>6, <2>1, <4>2, <5>1
      <4> QED BY <4>1, <4>2
    <3> QED BY <1>8, <2>1, <3>1, <3>2
  <2>2. CASE q = p /\ n \in 1..Len(line)
    <3> DEFINE k == line[n]
    <3>1. k \in LockIds /\ lockAudit'[q][n] = k
      BY <1>1, <1>4, <1>5, <2>2
    <3>2. /\ locks[k] # None
          /\ locks[k].project = p
          /\ locks[k].previous = IF n = 1 THEN None ELSE line[n - 1]
          /\ locks[k].status = IF n = Len(line) THEN "CURRENT" ELSE "SUPERSEDED"
      BY <1>1, <2>2 DEF LockAuditIsTheChain
    <3>3. locks'[k].status = "SUPERSEDED"
      BY <1>4, <1>6, <1>7, <2>2, <3>1, <3>2
    <3>4. n # Len(lockAudit'[q]) /\ (n # 1 => lockAudit'[q][n - 1] = line[n - 1])
      <4>1. n <= Len(line) /\ n # Len(line) + 1 /\ (n # 1 => n - 1 \in 1..Len(line))
        BY <1>4, <2>2
      <4>2. \A m \in 1..Len(line) : lockAudit'[q][m] = line[m]
        BY <1>5, <2>2
      <4>3. Len(lockAudit'[q]) = Len(line) + 1
        BY <1>5, <2>2
      <4> QED BY <4>1, <4>2, <4>3
    <3> QED BY <1>7, <2>2, <3>1, <3>2, <3>3, <3>4
  <2>3. CASE q # p
    <3> DEFINE k == lockAudit[q][n]
    <3>1. lockAudit'[q] = lockAudit[q] /\ n \in 1..Len(lockAudit[q]) /\ k \in LockIds
      BY <1>4, <1>9, <2>3
    <3>2. /\ locks[k] # None
          /\ locks[k].project = q
          /\ locks[k].previous = IF n = 1 THEN None ELSE lockAudit[q][n - 1]
          /\ locks[k].status = IF n = Len(lockAudit[q]) THEN "CURRENT" ELSE "SUPERSEDED"
      BY <3>1 DEF LockAuditIsTheChain
    <3>3. k # previous
      BY <1>6, <2>3, <3>1, <3>2
    <3> QED BY <1>7, <3>1, <3>2, <3>3
  <2> QED BY <1>4, <1>5, <1>9, <2>1, <2>2, <2>3
<1>10. ASSUME NEW k \in LockIds, locks'[k] # None
       PROVE  \E n \in 1..Len(lockAudit'[locks'[k].project]) :
                lockAudit'[locks'[k].project][n] = k
  <2>1. CASE k = l
    <3>1. Len(line) + 1 \in 1..Len(lockAudit'[p])
      BY <1>4, <1>5
    <3> QED BY <1>5, <1>8, <2>1, <3>1
  <2>2. CASE k # l
    <3>1. locks[k] # None /\ locks'[k].project = locks[k].project
      <4>1. locks[k] # None
        BY <1>3, <1>6, <1>10, <2>2
      <4> QED BY <1>7, <4>1
    <3>2. PICK n \in 1..Len(lockAudit[locks[k].project]) : lockAudit[locks[k].project][n] = k
      BY <3>1 DEF LockAuditIsTheChain
    <3>3. locks[k].project \in Projects
      BY <3>1 DEF TypeOK, LockRows
    <3> DEFINE q == locks[k].project
    <3>4. CASE q = p
      <4>1. n \in 1..Len(line) /\ n \in 1..Len(lockAudit'[p])
        BY <1>4, <1>5, <3>2, <3>4
      <4>2. lockAudit'[p][n] = k
        BY <1>5, <3>2, <3>4, <4>1
      <4> QED BY <3>1, <3>4, <4>1, <4>2
    <3>5. CASE q # p
      <4>1. lockAudit'[q] = lockAudit[q]
        BY <1>4, <3>3, <3>5
      <4> QED BY <3>1, <3>2, <4>1
    <3> QED BY <3>4, <3>5
  <2> QED BY <2>1, <2>2
<1> QED BY <1>9, <1>10 DEF LockAuditIsTheChain

(* However many switches race, the locks of a Project are one line of         *)
(* predecessors, as its audit events report them, and only the last is        *)
(* CURRENT.                                                                   *)
THEOREM DomainLocksFormAChain == Spec => [](LockAuditIsTheChain /\ OneCurrentLock)
<1>1. Init => LockAuditIsTheChain
  BY DEF Init, LockAuditIsTheChain
<1>2. TypeOK /\ LockAuditIsTheChain /\ [Next]_vars => LockAuditIsTheChain'
  <2> SUFFICES ASSUME TypeOK, LockAuditIsTheChain, [Next]_vars
               PROVE  LockAuditIsTheChain'
    OBVIOUS
  <2>1. CASE UNCHANGED <<locks, lockAudit>>
    BY <2>1 DEF LockAuditIsTheChain
  <2>2. \/ UNCHANGED <<locks, lockAudit>>
        \/ \E h \in Handlers, l \in LockIds : SwitchProjectDomainLock(h, l)
    BY OnlyCommitsMoveFacts DEF facts, AddPackageVersion, SavePackageVersion,
                                AddInstallation, SaveInstallation
  <2> QED BY <2>1, <2>2, SwitchKeepsTheChain
<1>3. TypeOK /\ LockAuditIsTheChain => OneCurrentLock
  <2> SUFFICES ASSUME TypeOK, LockAuditIsTheChain, NEW p \in Projects,
                      NEW k \in CurrentLocks(p), NEW l \in CurrentLocks(p)
               PROVE  k = l
    BY DEF OneCurrentLock
  <2> QED BY ChainEndsInCurrent
<1> QED BY <1>1, <1>2, <1>3, TypeCorrect, PTL DEF Spec

-------------------------------------------------------------------------------
(***************************************************************************)
(* DomainRegistry implements AtomicRegistry, and its audit events are the  *)
(* true history of the governed records, when no If-Match names a version  *)
(* that is yet to come (IfMatchAhead = 0).                                 *)
(***************************************************************************)

(* What a handler checked stays true, or its If-Match falls behind. *)
LEMMA BackedStays ==
  ASSUME TypeOK, [Next]_vars, NEW work \in Work, Backed(work)
  PROVE  Backed(work)'
<1> USE ConstantsAssumption
<1> DEFINE request == work.request
<1>1. FactsOnlyAdvance
  BY StepsOnlyAdvance
<1>2. TypeOK'
  BY TypeStep
<1>3. request \in Requests /\ work.expected \in Nat /\ work.refs \in SUBSET PackageVersions
  BY DEF Work
<1>4. BackedGovernPackage(work)'
  <2> SUFFICES ASSUME request.kind = "governPackage", work.step = "commit"
               PROVE  BackedGovernPackage(work)'
    BY DEF BackedGovernPackage
  <2>1. request.subject \in PackageVersions
    BY <1>3, RequestType
  <2>2. packages[request.subject] # None
    BY DEF Backed, BackedGovernPackage
  <2>3. packages[request.subject].version \in Nat
    BY <2>1, <2>2 DEF TypeOK, PackageRows
  <2> QED BY <1>1, <1>3, <2>1, <2>2, <2>3 DEF Backed, BackedGovernPackage, FactsOnlyAdvance
<1>5. BackedGovernInstallation(work)'
  <2> SUFFICES ASSUME request.kind = "governInstallation", work.step \in {"checkLocks", "commit"}
               PROVE  BackedGovernInstallation(work)'
    BY DEF BackedGovernInstallation
  <2>1. request.subject \in InstallationIds
    BY <1>3, RequestType
  <2>2. installations[request.subject] # None
    BY DEF Backed, BackedGovernInstallation
  <2>3. installations[request.subject].version \in Nat
    BY <2>1, <2>2 DEF TypeOK, InstallationRows
  <2> QED BY <1>1, <1>3, <2>1, <2>2, <2>3
          DEF Backed, BackedGovernInstallation, FactsOnlyAdvance
<1>6. BackedInstall(work)'
  BY <1>1, <1>3 DEF Backed, BackedInstall, FactsOnlyAdvance, VisibleForOrganization
<1>7. BackedSwitch(work)'
  <2> SUFFICES ASSUME request.kind = "switch" PROVE BackedSwitch(work)'
    BY DEF BackedSwitch
  <2>1. request.argument \in InstallationIds
    BY <1>3, RequestType
  <2> QED BY <1>1, <2>1 DEF Backed, BackedSwitch, FactsOnlyAdvance
<1> QED BY <1>4, <1>5, <1>6, <1>7 DEF Backed

(* A handler that takes work which is backed holds nothing unbacked. *)
HoldsBacked(h) ==
  /\ \A work : work = handler'[h] => Backed(work)
  /\ \A g \in Handlers : g # h => handler'[g] = handler[g]

LEMMA HoldBacked ==
  ASSUME TypeOK, NEW h \in Handlers, NEW step, NEW request, NEW key, NEW expected,
         NEW refs, NEW resource, Hold(h, step, request, key, expected, refs, resource),
         Backed([step |-> step, request |-> request, key |-> key,
                 expected |-> expected, refs |-> refs, resource |-> resource])
  PROVE  HoldsBacked(h)
  BY DEF TypeOK, Hold, HoldsBacked

(* What each kind of request needs in order to be backed. *)
LEMMA BackedWork ==
  ASSUME NEW step, NEW subject, NEW argument, NEW key, NEW expected, NEW refs, NEW resource
  PROVE
    LET Of(kind) == [step |-> step,
                     request |-> [kind |-> kind, subject |-> subject, argument |-> argument],
                     key |-> key, expected |-> expected, refs |-> refs, resource |-> resource]
    IN
    /\ Backed(Of("register"))
    /\ \/ step # "commit"
       \/ /\ packages[subject] # None
          /\ expected <= packages[subject].version
          /\ RegistryTransitionAllowed(packages[subject].state, argument)
       => Backed(Of("governPackage"))
    /\ \/ step \notin {"checkLocks", "commit"}
       \/ /\ installations[subject] # None
          /\ expected <= installations[subject].version
          /\ InstallationTransitionAllowed(installations[subject].state, argument)
       => Backed(Of("governInstallation"))
    /\ (\A pv \in refs : packages[pv] # None /\ VisibleForOrganization(pv, argument))
       => Backed(Of("install"))
    /\ /\ installations[argument] # None
       /\ installations[argument].organization = OrganizationOf[subject]
       /\ step # "commit"
       => Backed(Of("switch"))
  BY DEF Backed, BackedGovernPackage, BackedGovernInstallation, BackedInstall, BackedSwitch

LEMMA BeginsAreBacked ==
  ASSUME IfMatchAhead = 0, TypeOK, NEW h \in Handlers, Receive(h)
  PROVE  HoldsBacked(h)
<1> USE ConstantsAssumption
<1>1. ASSUME NEW pv \in PackageVersions, NEW content, NEW key, BeginRegister(h, pv, content, key)
      PROVE  HoldsBacked(h)
  BY <1>1, HoldBacked, BackedWork DEF BeginRegister
<1>2. ASSUME NEW pv \in PackageVersions, NEW target, NEW key,
             packages[pv] # None, NEW expected \in 1..(packages[pv].version + IfMatchAhead),
             BeginGovernPackage(h, pv, target, key, expected)
      PROVE  HoldsBacked(h)
  <2>1. packages[pv].version \in Nat /\ expected <= packages[pv].version
    BY <1>2 DEF TypeOK, PackageRows
  <2> QED BY <1>2, <2>1, HoldBacked, BackedWork DEF BeginGovernPackage
<1>3. ASSUME NEW root, NEW organization, NEW key, NEW refs,
             BeginInstall(h, root, organization, key, refs)
      PROVE  HoldsBacked(h)
  BY <1>3, HoldBacked, BackedWork DEF BeginInstall, Registered
<1>4. ASSUME NEW i \in InstallationIds, NEW target, NEW key,
             installations[i] # None,
             NEW expected \in 1..(installations[i].version + IfMatchAhead),
             BeginGovernInstallation(h, i, target, key, expected)
      PROVE  HoldsBacked(h)
  <2>1. installations[i].version \in Nat /\ expected <= installations[i].version
    BY <1>4 DEF TypeOK, InstallationRows
  <2> QED BY <1>4, <2>1, HoldBacked, BackedWork DEF BeginGovernInstallation
<1>5. ASSUME NEW p \in Projects, NEW i, NEW key, BeginSwitch(h, p, i, key)
      PROVE  HoldsBacked(h)
  BY <1>5, HoldBacked, BackedWork DEF BeginSwitch
<1> QED BY <1>1, <1>2, <1>3, <1>4, <1>5 DEF Receive

LEMMA ReadsAreBacked ==
  ASSUME TypeOK, NEW h \in Handlers, Backed(handler[h]),
         LookUpInstallation(h) \/ CheckNoCurrentLock(h) \/ ReadCurrentLock(h)
  PROVE  HoldsBacked(h)
<1> USE DEF Backed, BackedGovernPackage, BackedGovernInstallation, BackedInstall, BackedSwitch
<1> DEFINE work == handler[h]
<1>1. CASE LookUpInstallation(h)
  <2>1. work.request.kind = "install"
    BY <1>1 DEF LookUpInstallation, At
  <2>2. \A step, resource :
          Backed([step |-> step, request |-> work.request, key |-> work.key,
                  expected |-> 0, refs |-> work.refs, resource |-> resource])
    BY <2>1
  <2> HIDE DEF Backed
  <2> QED BY <1>1, <2>2, HoldBacked DEF LookUpInstallation
<1>2. CASE CheckNoCurrentLock(h)
  <2>1. work.request.kind = "governInstallation" /\ work.step = "checkLocks"
    BY <1>2 DEF CheckNoCurrentLock, At
  <2>2. Backed([step |-> "commit", request |-> work.request, key |-> work.key,
                expected |-> work.expected, refs |-> {}, resource |-> work.resource])
    BY <2>1
  <2> HIDE DEF Backed
  <2> QED BY <1>2, <2>2, HoldBacked DEF CheckNoCurrentLock
<1>3. CASE ReadCurrentLock(h)
  <2>1. work.request.kind = "switch"
    BY <1>3 DEF ReadCurrentLock, At
  <2> DEFINE Read(step, resource) ==
        [step |-> step, request |-> work.request, key |-> work.key,
         expected |-> 0, refs |-> {}, resource |-> resource]
  <2>2. \A l : Backed(Read("bind", l))
    BY <2>1
  <2>3. Backed(Read("commit", None))
    BY <2>1
  <2>4. \A l \in CurrentLocks(work.request.subject) :
          locks[l].installation # work.request.argument => Backed(Read("commit", l))
    BY <2>1 DEF CurrentLocks
  <2> HIDE DEF Backed
  <2> QED BY <1>3, <2>2, <2>3, <2>4, HoldBacked DEF ReadCurrentLock
<1> QED BY <1>1, <1>2, <1>3

LEMMA ChecksStep ==
  ASSUME IfMatchAhead = 0, TypeOK, ChecksOutliveTheirRead, [Next]_vars
  PROVE  ChecksOutliveTheirRead'
<1>1. TypeOK'
  BY TypeStep
<1>2. ASSUME NEW g \in Handlers, handler'[g] # Idle
      PROVE  \A work : work = handler'[g] => Backed(work)
  <2>1. CASE handler'[g] = handler[g]
    BY <1>2, <2>1 DEF ChecksOutliveTheirRead
  <2>2. ASSUME NEW h \in Handlers, Receive(h)
        PROVE  \A work : work = handler'[g] => Backed(work)
    BY <2>1, <2>2, BeginsAreBacked DEF HoldsBacked
  <2>3. ASSUME NEW h \in Handlers,
               LookUpInstallation(h) \/ CheckNoCurrentLock(h) \/ ReadCurrentLock(h)
        PROVE  \A work : work = handler'[g] => Backed(work)
    <3>1. Backed(handler[h])
      BY <2>3 DEF ChecksOutliveTheirRead, LookUpInstallation, CheckNoCurrentLock,
                  ReadCurrentLock, At
    <3> QED BY <2>1, <2>3, <3>1, ReadsAreBacked DEF HoldsBacked
  <2>4. ASSUME NEW h \in Handlers, Finish(h)
        PROVE  \A work : work = handler'[g] => Backed(work)
    BY <1>2, <2>1, <2>4 DEF Finish, TypeOK
  <2>5. ASSUME NEW scope \in ArchivableScopes, ArchiveScope(scope)
        PROVE  handler'[g] = handler[g]
    BY <2>5 DEF ArchiveScope
  <2>6. \A h \in Handlers :
          \/ Bind(h) \/ AddPackageVersion(h) \/ SavePackageVersion(h)
          \/ (\E i \in InstallationIds : AddInstallation(h, i)) \/ SaveInstallation(h)
          \/ (\E l \in LockIds : SwitchProjectDomainLock(h, l)) \/ Abandon(h)
          => Finish(h)
    BY DEF Bind, AddPackageVersion, SavePackageVersion, AddInstallation, SaveInstallation,
           SwitchProjectDomainLock, Abandon
  <2>7. CASE UNCHANGED vars
    BY <2>1, <2>7 DEF vars
  <2> QED BY <2>1, <2>2, <2>3, <2>4, <2>5, <2>6, <2>7 DEF Next, Continue
<1> SUFFICES ASSUME NEW g \in Handlers, NEW work, work = handler'[g], work # Idle
             PROVE  Backed(work)'
  BY DEF ChecksOutliveTheirRead
<1>3. work \in Work
  BY <1>1 DEF TypeOK
<1> QED BY <1>2, <1>3, BackedStays

-------------------------------------------------------------------------------
(* The audit events are the history. *)

(* A committing governance step follows a legal transition. *)
LEMMA CommittedTransitions ==
  ASSUME TypeOK, ChecksOutliveTheirRead, NEW h \in Handlers
  PROVE  LET request == handler[h].request IN
         /\ SavePackageVersion(h) =>
              /\ request.subject \in PackageVersions
              /\ request.argument \in RegistryTargets
              /\ packages[request.subject] # None
              /\ packages[request.subject].version = handler[h].expected
              /\ RegistryTransitionAllowed(packages[request.subject].state, request.argument)
         /\ SaveInstallation(h) =>
              /\ request.subject \in InstallationIds
              /\ request.argument \in InstallationTargets
              /\ installations[request.subject] # None
              /\ installations[request.subject].version = handler[h].expected
              /\ InstallationTransitionAllowed(installations[request.subject].state,
                                               request.argument)
<1>1. CASE SavePackageVersion(h)
  <2>1. handler[h] # Idle /\ handler[h].step = "commit"
                          /\ handler[h].request.kind = "governPackage"
    BY <1>1 DEF SavePackageVersion, At
  <2>2. Backed(handler[h])
    BY <2>1 DEF ChecksOutliveTheirRead
  <2> QED BY <1>1, <2>1, <2>2, BusyType, RequestType
          DEF SavePackageVersion, SaveInstallation, Unmoved, At, Backed, BackedGovernPackage
<1>2. CASE SaveInstallation(h)
  <2>1. handler[h] # Idle /\ handler[h].step = "commit"
                          /\ handler[h].request.kind = "governInstallation"
    BY <1>2 DEF SaveInstallation, At
  <2>2. Backed(handler[h])
    BY <2>1 DEF ChecksOutliveTheirRead
  <2> QED BY <1>2, <2>1, <2>2, BusyType, RequestType
          DEF SavePackageVersion, SaveInstallation, Unmoved, At, Backed, BackedGovernInstallation
<1> QED BY <1>1, <1>2

LEMMA HistoryGrows ==
  ASSUME NEW S, NEW audit \in Seq(S), NEW version \in Nat \ {0}, NEW state,
         NEW first, NEW legal, IsHistory(audit, version, state, first, legal),
         NEW target \in S, <<state, target>> \in legal
  PROVE  IsHistory(Append(audit, target), version + 1, target, first, legal)
<1> DEFINE longer == Append(audit, target)
<1>1. /\ Len(audit) = version
      /\ audit[version] = state
      /\ audit[1] = first
      /\ \A n \in 1..(version - 1) : <<audit[n], audit[n + 1]>> \in legal
  BY DEF IsHistory
<1>2. /\ Len(longer) = version + 1
      /\ \A n \in 1..version : longer[n] = audit[n]
      /\ longer[version + 1] = target
  BY <1>1, AppendProperties
<1>3. ASSUME NEW n \in 1..version
      PROVE  <<longer[n], longer[n + 1]>> \in legal
  <2>1. CASE n = version
    BY <1>1, <1>2, <2>1
  <2>2. CASE n # version
    <3>1. n \in 1..(version - 1) /\ n + 1 \in 1..version
      BY <2>2
    <3> QED BY <1>1, <1>2, <3>1
  <2> QED BY <2>1, <2>2
<1>4. longer[1] = first /\ (version + 1) - 1 = version
  BY <1>1, <1>2
<1> HIDE DEF longer
<1> QED BY <1>2, <1>3, <1>4 DEF IsHistory

LEMMA HistoryStarts ==
  ASSUME NEW first, NEW legal
  PROVE  IsHistory(<<first>>, 1, first, first, legal)
  BY DEF IsHistory

LEMMA PackageHistoryStep ==
  ASSUME TypeOK, ChecksOutliveTheirRead, PackageAuditIsHistory, [Next]_vars
  PROVE  PackageAuditIsHistory'
<1> USE ConstantsAssumption
<1>1. CASE UNCHANGED <<packages, packageAudit>>
  BY <1>1 DEF PackageAuditIsHistory
<1>2. ASSUME NEW h \in Handlers, AddPackageVersion(h) PROVE PackageAuditIsHistory'
  <2> DEFINE subject == handler[h].request.subject
             row == [content |-> handler[h].request.argument,
                     state |-> "REGISTERED_VALIDATED", version |-> 1]
  <2>1. subject \in PackageVersions /\ handler[h].request.argument \in Contents
    BY <1>2, BusyType, RequestType DEF AddPackageVersion, At
  <2>2. packageAudit[subject] = <<>>
    BY <1>2, <2>1 DEF AddPackageVersion, PackageAuditIsHistory
  <2>3. packageAudit'[subject] = <<"REGISTERED_VALIDATED">>
    <3>1. packageAudit'[subject] = Append(<<>>, "REGISTERED_VALIDATED")
      BY <1>2, <2>1, <2>2 DEF AddPackageVersion, TypeOK
    <3> QED BY <3>1
  <2>4. packages'[subject] = row /\ row \in PackageRows
    BY <1>2, <2>1 DEF AddPackageVersion, TypeOK, PackageRows, RegistryStates
  <2>5. \A pv \in PackageVersions : pv # subject =>
          packages'[pv] = packages[pv] /\ packageAudit'[pv] = packageAudit[pv]
    BY <1>2 DEF AddPackageVersion, TypeOK
  <2>6. row # None /\ row.version = 1 /\ row.state = "REGISTERED_VALIDATED"
    BY <2>4
  <2>7. IsHistory(packageAudit'[subject], packages'[subject].version, packages'[subject].state,
                  "REGISTERED_VALIDATED", RegistryTransitions)
    BY <2>3, <2>4, <2>6, HistoryStarts
  <2>8. packages'[subject] # None
    BY <2>4, <2>6
  <2> QED BY <2>5, <2>7, <2>8 DEF PackageAuditIsHistory
<1>3. ASSUME NEW h \in Handlers, SavePackageVersion(h) PROVE PackageAuditIsHistory'
  <2> DEFINE subject == handler[h].request.subject
             target == handler[h].request.argument
             v == packages[subject].version
             row == [content |-> packages[subject].content, state |-> target,
                     version |-> v + 1]
  <2>1. /\ subject \in PackageVersions
        /\ target \in RegistryStates
        /\ packages[subject] # None
        /\ packages[subject] \in PackageRows
        /\ v = handler[h].expected
        /\ <<packages[subject].state, target>> \in RegistryTransitions
    BY <1>3, CommittedTransitions DEF TypeOK, RegistryStates, RegistryTransitionAllowed
  <2>2. v \in Nat \ {0} /\ packageAudit[subject] \in Seq(RegistryStates)
    BY <2>1 DEF TypeOK, PackageRows
  <2>3. packageAudit'[subject] = Append(packageAudit[subject], target)
    BY <1>3, <2>1 DEF SavePackageVersion, TypeOK
  <2>4. packages'[subject] = row /\ row \in PackageRows
    BY <1>3, <2>1, <2>2 DEF SavePackageVersion, TypeOK, PackageRows
  <2>5. IsHistory(packageAudit'[subject], v + 1, target,
                  "REGISTERED_VALIDATED", RegistryTransitions)
    BY <2>1, <2>2, <2>3, HistoryGrows DEF PackageAuditIsHistory
  <2>6. row # None /\ row.version = v + 1 /\ row.state = target
    BY <2>4
  <2>7. \A pv \in PackageVersions : pv # subject =>
          packages'[pv] = packages[pv] /\ packageAudit'[pv] = packageAudit[pv]
    BY <1>3 DEF SavePackageVersion, TypeOK
  <2> QED BY <2>4, <2>5, <2>6, <2>7 DEF PackageAuditIsHistory
<1> QED BY <1>1, <1>2, <1>3, OnlyCommitsMoveFacts
        DEF facts, AddInstallation, SaveInstallation, SwitchProjectDomainLock

LEMMA InstallationHistoryStep ==
  ASSUME TypeOK, ChecksOutliveTheirRead, InstallationAuditIsHistory, [Next]_vars
  PROVE  InstallationAuditIsHistory'
<1> USE ConstantsAssumption
<1>1. CASE UNCHANGED <<installations, installationAudit>>
  BY <1>1 DEF InstallationAuditIsHistory
<1>2. ASSUME NEW h \in Handlers, NEW i \in InstallationIds, AddInstallation(h, i)
      PROVE  InstallationAuditIsHistory'
  <2> DEFINE work == handler[h]
             row == [organization |-> work.request.argument, root |-> work.request.subject,
                     refs |-> work.refs, state |-> "INSTALLED_DISABLED", version |-> 1]
  <2>1. /\ work.request.subject \in PackageVersions
        /\ work.request.argument \in Organizations
        /\ work.refs \in SUBSET PackageVersions
    BY <1>2, BusyType, RequestType DEF AddInstallation, At
  <2>2. installationAudit[i] = <<>>
    BY <1>2 DEF AddInstallation, InstallationAuditIsHistory
  <2>3. installationAudit'[i] = <<"INSTALLED_DISABLED">>
    <3>1. installationAudit'[i] = Append(<<>>, "INSTALLED_DISABLED")
      BY <1>2, <2>2 DEF AddInstallation, TypeOK
    <3> QED BY <3>1
  <2>4. installations'[i] = row /\ row \in InstallationRows
    BY <1>2, <2>1 DEF AddInstallation, TypeOK, InstallationRows, InstallationStates
  <2>5. row # None /\ row.version = 1 /\ row.state = "INSTALLED_DISABLED"
    BY <2>4
  <2>6. \A j \in InstallationIds : j # i =>
          installations'[j] = installations[j] /\ installationAudit'[j] = installationAudit[j]
    BY <1>2 DEF AddInstallation, TypeOK
  <2>7. IsHistory(installationAudit'[i], installations'[i].version, installations'[i].state,
                  "INSTALLED_DISABLED", InstallationTransitions)
    BY <2>3, <2>4, <2>5, HistoryStarts
  <2>8. installations'[i] # None
    BY <2>4, <2>5
  <2> QED BY <2>6, <2>7, <2>8 DEF InstallationAuditIsHistory
<1>3. ASSUME NEW h \in Handlers, SaveInstallation(h) PROVE InstallationAuditIsHistory'
  <2> DEFINE subject == handler[h].request.subject
             target == handler[h].request.argument
             v == installations[subject].version
             row == [organization |-> installations[subject].organization,
                     root |-> installations[subject].root,
                     refs |-> installations[subject].refs,
                     state |-> target, version |-> v + 1]
  <2>1. /\ subject \in InstallationIds
        /\ target \in InstallationStates
        /\ installations[subject] # None
        /\ installations[subject] \in InstallationRows
        /\ v = handler[h].expected
        /\ <<installations[subject].state, target>> \in InstallationTransitions
    BY <1>3, CommittedTransitions
       DEF TypeOK, InstallationStates, InstallationTransitionAllowed
  <2>2. v \in Nat \ {0} /\ installationAudit[subject] \in Seq(InstallationStates)
    BY <2>1 DEF TypeOK, InstallationRows
  <2>3. installationAudit'[subject] = Append(installationAudit[subject], target)
    BY <1>3, <2>1 DEF SaveInstallation, TypeOK
  <2>4. installations'[subject] = row /\ row \in InstallationRows
    BY <1>3, <2>1, <2>2 DEF SaveInstallation, TypeOK, InstallationRows
  <2>5. IsHistory(installationAudit'[subject], v + 1, target,
                  "INSTALLED_DISABLED", InstallationTransitions)
    BY <2>1, <2>2, <2>3, HistoryGrows DEF InstallationAuditIsHistory
  <2>6. row # None /\ row.version = v + 1 /\ row.state = target
    BY <2>4
  <2>7. \A j \in InstallationIds : j # subject =>
          installations'[j] = installations[j] /\ installationAudit'[j] = installationAudit[j]
    BY <1>3 DEF SaveInstallation, TypeOK
  <2> QED BY <2>4, <2>5, <2>6, <2>7 DEF InstallationAuditIsHistory
<1> QED BY <1>1, <1>2, <1>3, OnlyCommitsMoveFacts
        DEF facts, AddPackageVersion, SavePackageVersion, SwitchProjectDomainLock

(* Together the invariant is inductive.                                       *)
RegistryInv ==
  TypeOK /\ ChecksOutliveTheirRead /\ PackageAuditIsHistory /\ InstallationAuditIsHistory

LEMMA RegistryInvariant ==
  ASSUME IfMatchAhead = 0
  PROVE  Spec => []RegistryInv
<1>1. Init => RegistryInv
  <2>1. \A S : <<>> \in Seq(S)
    OBVIOUS
  <2> QED BY <2>1 DEF Init, RegistryInv, TypeOK, ChecksOutliveTheirRead,
                      PackageAuditIsHistory, InstallationAuditIsHistory
<1>2. RegistryInv /\ [Next]_vars => RegistryInv'
  BY TypeStep, ChecksStep, PackageHistoryStep, InstallationHistoryStep DEF RegistryInv
<1> QED BY <1>1, <1>2, PTL DEF Spec

(* Provided no If-Match runs ahead, no interleaving of governance requests    *)
(* commits an illegal transition, and the audit events of every record retell *)
(* exactly the states it has been in.                                         *)
THEOREM AuditIsHistory ==
  ASSUME IfMatchAhead = 0
  PROVE  Spec => []AuditsAreHistories
<1>1. RegistryInv => AuditsAreHistories
  BY DEF RegistryInv, AuditsAreHistories
<1> QED BY <1>1, RegistryInvariant, PTL

(* What a handler checked at its first read is still so when it commits.      *)
THEOREM ChecksOutliveReads ==
  ASSUME IfMatchAhead = 0
  PROVE  Spec => []ChecksOutliveTheirRead
<1>1. RegistryInv => ChecksOutliveTheirRead
  BY DEF RegistryInv
<1> QED BY <1>1, RegistryInvariant, PTL

-------------------------------------------------------------------------------
(* Refinement.  Each committing transaction is one atomic step, everything    *)
(* else a stutter.                                                            *)

LEMMA UpdateAt ==
  ASSUME NEW S, NEW f, NEW g, f = [x \in S |-> f[x]], g = [x \in S |-> g[x]],
         NEW a \in S, NEW v, g[a] = v, \A x \in S : x # a => g[x] = f[x]
  PROVE  g = [f EXCEPT ![a] = v]
  OBVIOUS

LEMMA ViewsAreFunctions ==
  /\ RegistryView = [pv \in PackageVersions |-> RegistryView[pv]]
  /\ RegistryView' = [pv \in PackageVersions |-> RegistryView'[pv]]
  /\ InstalledView = [i \in InstallationIds |-> InstalledView[i]]
  /\ InstalledView' = [i \in InstallationIds |-> InstalledView'[i]]
  /\ SelectionsView = [p \in Projects |-> SelectionsView[p]]
  /\ SelectionsView' = [p \in Projects |-> SelectionsView'[p]]
  BY DEF RegistryView, InstalledView, SelectionsView

LEMMA RegisterIsAtomic ==
  ASSUME TypeOK, NEW h \in Handlers, AddPackageVersion(h)
  PROVE  \E pv \in PackageVersions, content \in Contents : Atomic!Register(pv, content)
<1> USE ConstantsAssumption
<1> DEFINE pv == handler[h].request.subject
           content == handler[h].request.argument
           row == [content |-> content, state |-> "REGISTERED_VALIDATED", version |-> 1]
<1>1. pv \in PackageVersions /\ content \in Contents
  BY BusyType, RequestType DEF AddPackageVersion, At
<1>2. packages' = [packages EXCEPT ![pv] = row] /\ packages[pv] = None /\ row \in PackageRows
  BY <1>1 DEF AddPackageVersion, PackageRows, RegistryStates
<1>3. RegistryView[pv] = None
  BY <1>1, <1>2 DEF RegistryView
<1>4. RegistryView' = [RegistryView EXCEPT ![pv] =
                         [content |-> content, state |-> "REGISTERED_VALIDATED"]]
  <2>1. row # None /\ packages'[pv] = row
    BY <1>1, <1>2 DEF TypeOK
  <2>2. \A q \in PackageVersions : q # pv => packages'[q] = packages[q]
    BY <1>2 DEF TypeOK
  <2>3. RegistryView'[pv] = [content |-> content, state |-> "REGISTERED_VALIDATED"]
    BY <1>1, <2>1 DEF RegistryView
  <2>4. \A q \in PackageVersions : q # pv => RegistryView'[q] = RegistryView[q]
    BY <2>2 DEF RegistryView
  <2> QED BY <1>1, <2>3, <2>4, UpdateAt, ViewsAreFunctions
<1>5. UNCHANGED <<InstalledView, SelectionsView>>
  BY DEF AddPackageVersion, InstalledView, SelectionsView
<1>6. Atomic!Register(pv, content)
  BY <1>3, <1>4, <1>5 DEF Atomic!Register
<1> QED BY <1>1, <1>6

LEMMA GovernIsAtomic ==
  ASSUME TypeOK, ChecksOutliveTheirRead, NEW h \in Handlers, SavePackageVersion(h)
  PROVE  \E pv \in PackageVersions, target \in {"QUARANTINED", "WITHDRAWN"} :
           Atomic!Govern(pv, target)
<1> USE ConstantsAssumption
<1> DEFINE pv == handler[h].request.subject
           target == handler[h].request.argument
           row == [content |-> packages[pv].content, state |-> target,
                   version |-> handler[h].expected + 1]
<1>1. /\ pv \in PackageVersions
      /\ target \in {"QUARANTINED", "WITHDRAWN"}
      /\ packages[pv] # None
      /\ packages[pv] \in PackageRows
      /\ packages[pv].version = handler[h].expected
      /\ <<packages[pv].state, target>> \in RegistryTransitions
  BY CommittedTransitions DEF TypeOK, RegistryTransitionAllowed
<1>2. packages' = [packages EXCEPT ![pv] = row] /\ row \in PackageRows
  BY <1>1 DEF SavePackageVersion, PackageRows, RegistryStates
<1>3. RegistryView[pv] = [content |-> packages[pv].content, state |-> packages[pv].state]
  BY <1>1 DEF RegistryView
<1>4. RegistryView[pv] # None
  <2>1. RegistryView[pv] \in PackageFacts
    BY <1>1, <1>3 DEF PackageRows, PackageFacts
  <2> QED BY <2>1
<1>5. RegistryView' = [RegistryView EXCEPT ![pv] =
                         [content |-> RegistryView[pv].content, state |-> target]]
  <2>1. row # None /\ packages'[pv] = row
    BY <1>1, <1>2 DEF TypeOK
  <2>2. \A q \in PackageVersions : q # pv => packages'[q] = packages[q]
    BY <1>2 DEF TypeOK
  <2>3. RegistryView'[pv] = [content |-> packages[pv].content, state |-> target]
    BY <1>1, <2>1 DEF RegistryView
  <2>4. \A q \in PackageVersions : q # pv => RegistryView'[q] = RegistryView[q]
    BY <2>2 DEF RegistryView
  <2> QED BY <1>1, <1>3, <2>3, <2>4, UpdateAt, ViewsAreFunctions
<1>6. UNCHANGED <<InstalledView, SelectionsView>>
  BY DEF SavePackageVersion, InstalledView, SelectionsView
<1>7. Atomic!Govern(pv, target)
  BY <1>1, <1>3, <1>4, <1>5, <1>6 DEF Atomic!Govern, RegistryTransitions
<1> QED BY <1>1, <1>7

LEMMA InstallIsAtomic ==
  ASSUME TypeOK, ChecksOutliveTheirRead,
         NEW h \in Handlers, NEW i \in InstallationIds, AddInstallation(h, i)
  PROVE  \E organization \in Organizations, root \in PackageVersions,
            refs \in SUBSET PackageVersions : Atomic!Install(i, organization, root, refs)
<1> USE ConstantsAssumption
<1> DEFINE work == handler[h]
           organization == work.request.argument
           root == work.request.subject
           refs == work.refs
           row == [organization |-> organization, root |-> root, refs |-> refs,
                   state |-> "INSTALLED_DISABLED", version |-> 1]
           seen == [organization |-> organization, root |-> root, refs |-> refs,
                    state |-> "INSTALLED_DISABLED"]
<1>1. work # Idle /\ work.request.kind = "install"
  BY DEF AddInstallation, At
<1>2. organization \in Organizations /\ root \in PackageVersions
                                     /\ refs \in SUBSET PackageVersions
  BY <1>1, BusyType, RequestType
<1>3. \A pv \in refs : packages[pv] # None /\ VisibleForOrganization(pv, organization)
  BY <1>1 DEF ChecksOutliveTheirRead, Backed, BackedInstall
<1>4. /\ installations[i] = None
      /\ installations' = [installations EXCEPT ![i] = row]
      /\ \A other \in InstallationIds : ~SameLock(other, work.request, refs)
  BY DEF AddInstallation
<1>5. row \in InstallationRows /\ seen \in InstallationFacts
  BY <1>2 DEF InstallationRows, InstallationFacts, InstallationStates
<1>6. InstalledView[i] = None
  BY <1>4 DEF InstalledView
<1>7. \A pv \in refs : RegistryView[pv] # None /\ Owner[pv] \in {Platform, organization}
  <2> TAKE pv \in refs
  <2>1. packages[pv] \in PackageRows
    BY <1>2, <1>3 DEF TypeOK
  <2>2. RegistryView[pv] \in PackageFacts
    BY <1>2, <1>3, <2>1 DEF RegistryView, PackageRows, PackageFacts
  <2> QED BY <1>3, <2>2 DEF VisibleForOrganization
<1>8. \A other \in InstallationIds :
        \/ InstalledView[other] = None
        \/ InstalledView[other].organization # organization
        \/ InstalledView[other].root # root
        \/ InstalledView[other].refs # refs
  BY <1>4 DEF InstalledView, SameLock
<1>9. InstalledView' = [InstalledView EXCEPT ![i] = seen]
  <2>1. installations'[i] = row /\ row # None
    BY <1>4, <1>5 DEF TypeOK
  <2>2. InstalledView'[i] = seen
    BY <2>1 DEF InstalledView
  <2>3. \A j \in InstallationIds : j # i => installations'[j] = installations[j]
    BY <1>4 DEF TypeOK
  <2>4. \A j \in InstallationIds : j # i => InstalledView'[j] = InstalledView[j]
    BY <2>3 DEF InstalledView
  <2> HIDE DEF seen
  <2> QED BY <2>2, <2>4, UpdateAt, ViewsAreFunctions
<1>10. UNCHANGED <<RegistryView, SelectionsView>>
  BY DEF AddInstallation, RegistryView, SelectionsView
<1>11. Atomic!Install(i, organization, root, refs)
  BY <1>6, <1>7, <1>8, <1>9, <1>10 DEF Atomic!Install
<1> QED BY <1>2, <1>11

LEMMA GovernInstallationIsAtomic ==
  ASSUME TypeOK, ChecksOutliveTheirRead, NEW h \in Handlers, SaveInstallation(h)
  PROVE  \E i \in InstallationIds,
            target \in {"DISABLED", "REVOKED", "LOGICALLY_UNINSTALLED"} :
           Atomic!GovernInstallation(i, target)
<1> USE ConstantsAssumption
<1> DEFINE i == handler[h].request.subject
           target == handler[h].request.argument
           row == [organization |-> installations[i].organization,
                   root |-> installations[i].root, refs |-> installations[i].refs,
                   state |-> target, version |-> handler[h].expected + 1]
           before == [organization |-> installations[i].organization,
                      root |-> installations[i].root, refs |-> installations[i].refs,
                      state |-> installations[i].state]
           after == [organization |-> installations[i].organization,
                     root |-> installations[i].root, refs |-> installations[i].refs,
                     state |-> target]
<1>1. /\ i \in InstallationIds
      /\ target \in {"DISABLED", "REVOKED", "LOGICALLY_UNINSTALLED"}
      /\ installations[i] # None
      /\ installations[i] \in InstallationRows
      /\ installations[i].version = handler[h].expected
      /\ <<installations[i].state, target>> \in InstallationTransitions
  BY CommittedTransitions DEF TypeOK, InstallationTransitionAllowed
<1>2. installations' = [installations EXCEPT ![i] = row] /\ row \in InstallationRows
  BY <1>1 DEF SaveInstallation, InstallationRows, InstallationStates
<1>3. InstalledView[i] = before
  BY <1>1 DEF InstalledView
<1>4. before \in InstallationFacts
  BY <1>1 DEF InstallationRows, InstallationFacts
<1>5. /\ InstalledView[i] # None
      /\ InstalledView[i].state = installations[i].state
      /\ after = [organization |-> InstalledView[i].organization,
                  root |-> InstalledView[i].root,
                  refs |-> InstalledView[i].refs, state |-> target]
  BY <1>3, <1>4
<1>6. InstalledView' = [InstalledView EXCEPT ![i] = after]
  <2>1. row # None /\ installations'[i] = row
    BY <1>1, <1>2 DEF TypeOK
  <2>2. InstalledView'[i] = after
    BY <1>1, <2>1 DEF InstalledView
  <2>3. \A j \in InstallationIds : j # i => installations'[j] = installations[j]
    BY <1>2 DEF TypeOK
  <2>4. \A j \in InstallationIds : j # i => InstalledView'[j] = InstalledView[j]
    BY <2>3 DEF InstalledView
  <2> HIDE DEF after
  <2> QED BY <1>1, <2>2, <2>4, UpdateAt, ViewsAreFunctions
<1>7. UNCHANGED <<RegistryView, SelectionsView>>
  BY DEF SaveInstallation, RegistryView, SelectionsView
<1>8. Atomic!GovernInstallation(i, target)
  <2> HIDE DEF after
  <2> QED BY <1>1, <1>5, <1>6, <1>7 DEF Atomic!GovernInstallation, InstallationTransitions
<1> QED BY <1>1, <1>8

LEMMA FunctionIsSeq ==
  ASSUME NEW S, NEW n \in Nat, NEW f \in [1..n -> S]
  PROVE  f \in Seq(S) /\ Len(f) = n
<1>1. f \in Seq(S)
  BY IsASeq
<1>2. f \in [1..Len(f) -> S] /\ Len(f) \in Nat
  BY <1>1, LenProperties
<1>3. DOMAIN f = 1..n /\ DOMAIN f = 1..Len(f)
  BY <1>2
<1> QED BY <1>2, <1>3

LEMMA ViewGrows ==
  ASSUME NEW T, NEW i \in T, NEW view \in Seq(T),
         NEW longer \in [1..(Len(view) + 1) -> T],
         \A m \in 1..Len(view) : longer[m] = view[m],
         longer[Len(view) + 1] = i
  PROVE  longer = Append(view, i)
<1> DEFINE n == Len(view)
<1>2. n \in Nat
  BY LenProperties
<1> DEFINE other == Append(view, i)
<1>1. /\ other \in Seq(T)
      /\ Len(other) = n + 1
      /\ \A m \in 1..n : other[m] = view[m]
      /\ other[n + 1] = i
  BY AppendProperties
<1>3. \A m \in 1..(n + 1) : m \in 1..n \/ m = n + 1
  BY <1>2
<1>5. longer \in Seq(T) /\ Len(longer) = n + 1
  BY <1>2, FunctionIsSeq
<1> HIDE DEF other
<1>6. \A m \in 1..Len(longer) : longer[m] = other[m]
  BY <1>1, <1>3, <1>5
<1>7. longer = other
  BY <1>1, <1>5, <1>6, SeqEqual
<1> QED BY <1>7 DEF other

LEMMA SwitchIsAtomic ==
  ASSUME TypeOK, ChecksOutliveTheirRead, LockAuditIsTheChain, FactsOnlyAdvance,
         NEW h \in Handlers, NEW l \in LockIds, SwitchProjectDomainLock(h, l)
  PROVE  \E p \in Projects, i \in InstallationIds : Atomic!Select(p, i)
<1> USE ConstantsAssumption
<1> DEFINE work == handler[h]
           p == work.request.subject
           i == work.request.argument
           line == lockAudit[p]
           new == [project |-> p, installation |-> i,
                   previous |-> work.resource, status |-> "CURRENT"]
<1>1. work # Idle /\ work.request.kind = "switch" /\ work.step = "commit"
  BY DEF SwitchProjectDomainLock, At
<1>2. p \in Projects /\ i \in InstallationIds
  BY <1>1, BusyType, RequestType
<1>3. /\ installations[i] # None
      /\ installations[i].organization = OrganizationOf[p]
      /\ work.resource # None => locks[work.resource].installation # i
  BY <1>1 DEF ChecksOutliveTheirRead, Backed, BackedSwitch
<1>4. /\ StillCurrent(p, work.resource)
      /\ locks[l] = None
      /\ lockAudit' = [lockAudit EXCEPT ![p] = Append(line, l)]
      /\ locks'[l] = new
      /\ UNCHANGED <<packages, installations>>
  BY DEF SwitchProjectDomainLock
<1>5. UNCHANGED <<RegistryView, InstalledView>>
  BY <1>4 DEF RegistryView, InstalledView
<1>6. /\ InstalledView[i] # None
      /\ InstalledView[i].organization = OrganizationOf[p]
  <2> DEFINE seen == [organization |-> installations[i].organization,
                      root |-> installations[i].root, refs |-> installations[i].refs,
                      state |-> installations[i].state]
  <2>1. installations[i] \in InstallationRows
    BY <1>2, <1>3 DEF TypeOK
  <2>2. InstalledView[i] = seen /\ seen \in InstallationFacts
    BY <1>2, <1>3, <2>1 DEF InstalledView, InstallationRows, InstallationFacts
  <2> QED BY <1>3, <2>2
<1>7. line \in Seq(LockIds) /\ Len(line) \in Nat
  BY <1>2 DEF TypeOK
<1>8. /\ Len(SelectionsView[p]) = Len(line)
      /\ \A n \in 1..Len(line) : SelectionsView[p][n] = locks[line[n]].installation
      /\ SelectionsView[p] \in Seq(InstallationIds)
  <2>1. SelectionsView[p] = [n \in 1..Len(line) |-> locks[line[n]].installation]
    BY <1>2 DEF SelectionsView
  <2>2. \A n \in 1..Len(line) : locks[line[n]].installation \in InstallationIds
    <3> TAKE n \in 1..Len(line)
    <3>1. line[n] \in LockIds /\ locks[line[n]] # None
      BY <1>2, <1>7 DEF LockAuditIsTheChain
    <3>2. locks[line[n]] \in LockRows
      BY <3>1 DEF TypeOK
    <3> QED BY <3>2 DEF LockRows
  <2>3. SelectionsView[p] \in [1..Len(line) -> InstallationIds]
    BY <2>1, <2>2
  <2>4. SelectionsView[p] \in Seq(InstallationIds) /\ Len(SelectionsView[p]) = Len(line)
    <3> HIDE DEF line, p
    <3> QED BY <1>7, <2>3, FunctionIsSeq
  <2> QED BY <2>1, <2>4
<1>9. SelectionsView[p] # <<>> => SelectionsView[p][Len(SelectionsView[p])] # i
  <2> SUFFICES ASSUME SelectionsView[p] # <<>>
               PROVE  SelectionsView[p][Len(line)] # i
    BY <1>8
  <2>1. Len(line) # 0 /\ line # <<>>
    BY <1>8
  <2>2. CurrentLocks(p) = {line[Len(line)]}
    BY <1>2, <2>1, ChainEndsInCurrent
  <2>3. work.resource = line[Len(line)] /\ work.resource # None
    BY <1>4, <2>2 DEF StillCurrent
  <2>4. locks[line[Len(line)]].installation # i
    BY <1>3, <2>3
  <2>5. Len(line) \in 1..Len(line)
    BY <1>7, <2>1
  <2> QED BY <1>8, <2>4, <2>5
<1>10. SelectionsView' = [SelectionsView EXCEPT ![p] = Append(SelectionsView[p], i)]
  <2>1. /\ lockAudit'[p] = Append(line, l)
        /\ \A q \in Projects : q # p => lockAudit'[q] = lockAudit[q]
    BY <1>2, <1>4 DEF TypeOK
  <2>2. /\ Len(lockAudit'[p]) = Len(line) + 1
        /\ \A n \in 1..Len(line) : lockAudit'[p][n] = line[n]
        /\ lockAudit'[p][Len(line) + 1] = l
    BY <1>7, <2>1, AppendProperties
  <2>3. \A q \in Projects : \A n \in 1..Len(lockAudit[q]) :
          locks'[lockAudit[q][n]].installation = locks[lockAudit[q][n]].installation
    <3> TAKE q \in Projects
    <3> TAKE n \in 1..Len(lockAudit[q])
    <3>1. lockAudit[q][n] \in LockIds
      BY DEF TypeOK
    <3>2. locks[lockAudit[q][n]] # None
      BY DEF LockAuditIsTheChain
    <3> QED BY <3>1, <3>2 DEF FactsOnlyAdvance
  <2>4. SelectionsView'[p] = Append(SelectionsView[p], i)
    <3>1. SelectionsView'[p] =
            [n \in 1..(Len(line) + 1) |-> locks'[lockAudit'[p][n]].installation]
      BY <1>2, <2>2 DEF SelectionsView
    <3>2. \A n \in 1..Len(line) : SelectionsView'[p][n] = SelectionsView[p][n]
      <4> TAKE n \in 1..Len(line)
      <4>1. n \in 1..(Len(line) + 1)
        BY <1>7
      <4>2. SelectionsView'[p][n] = locks'[line[n]].installation
        BY <2>2, <3>1, <4>1
      <4>3. locks'[line[n]].installation = locks[line[n]].installation
        BY <1>2, <2>3
      <4> QED BY <1>8, <4>2, <4>3
    <3>3. SelectionsView'[p][Len(line) + 1] = i
      <4>1. Len(line) + 1 \in 1..(Len(line) + 1)
        BY <1>7
      <4>2. SelectionsView'[p][Len(line) + 1] = locks'[l].installation
        BY <2>2, <3>1, <4>1
      <4>3. locks'[l].installation = i
        BY <1>4
      <4> QED BY <4>2, <4>3
    <3>4. SelectionsView'[p] = [n \in 1..(Len(line) + 1) |-> SelectionsView'[p][n]]
      BY <3>1
    <3> HIDE DEF line, p, i
    <3> DEFINE view == SelectionsView[p]
    <3> SUFFICES ASSUME NEW longer, longer = SelectionsView'[p]
                 PROVE  longer = Append(view, i)
      OBVIOUS
    <3>5. /\ longer = [n \in 1..(Len(view) + 1) |-> longer[n]]
          /\ \A n \in 1..Len(view) : longer[n] = view[n]
          /\ longer[Len(view) + 1] = i
      BY <1>8, <3>2, <3>3, <3>4
    <3>6. view \in Seq(InstallationIds) /\ Len(view) = Len(line)
      BY <1>8
    <3>7. \A n \in 1..Len(view) : view[n] \in InstallationIds
      BY <3>6, ElementOfSeq
    <3>8. \A n \in 1..(Len(view) + 1) : n \in 1..Len(view) \/ n = Len(view) + 1
      BY <1>7, <3>6
    <3>9. longer \in [1..(Len(view) + 1) -> InstallationIds]
      BY <1>2, <3>5, <3>7, <3>8
    <3> HIDE DEF view
    <3> QED BY <1>2, <3>5, <3>6, <3>9, ViewGrows
  <2>5. \A q \in Projects : q # p => SelectionsView'[q] = SelectionsView[q]
    BY <2>1, <2>3 DEF SelectionsView
  <2> QED BY <1>2, <2>4, <2>5, UpdateAt, ViewsAreFunctions
<1>11. Atomic!Select(p, i)
  BY <1>5, <1>6, <1>9, <1>10 DEF Atomic!Select
<1> QED BY <1>2, <1>11

(* Provided no If-Match runs ahead, the threads, transactions and keys of the *)
(* domain registry implement the registry that acts in single atomic steps.   *)
THEOREM RegistryIsAtomic ==
  ASSUME IfMatchAhead = 0
  PROVE  Spec => ImplementsAtomicRegistry
<1> DEFINE Inv == RegistryInv /\ LockAuditIsTheChain
<1>1. Init => Atomic!AtomicInit
  BY DEF Init, Atomic!AtomicInit, RegistryView, InstalledView, SelectionsView
<1>2. Inv /\ [Next]_vars => [Atomic!AtomicNext]_(Atomic!atomicVars)
  <2> SUFFICES ASSUME Inv, [Next]_vars
               PROVE  [Atomic!AtomicNext]_(Atomic!atomicVars)
    OBVIOUS
  <2>1. CASE UNCHANGED facts
    BY <2>1 DEF facts, Atomic!atomicVars, RegistryView, InstalledView, SelectionsView
  <2>2. FactsOnlyAdvance
    BY StepsOnlyAdvance DEF RegistryInv
  <2>3. ASSUME NEW h \in Handlers,
               \/ AddPackageVersion(h)
               \/ SavePackageVersion(h)
               \/ \E i \in InstallationIds : AddInstallation(h, i)
               \/ SaveInstallation(h)
               \/ \E l \in LockIds : SwitchProjectDomainLock(h, l)
        PROVE  Atomic!AtomicNext
    BY <2>2, <2>3, RegisterIsAtomic, GovernIsAtomic, InstallIsAtomic,
       GovernInstallationIsAtomic, SwitchIsAtomic DEF RegistryInv, Atomic!AtomicNext
  <2> QED BY <2>1, <2>3, OnlyCommitsMoveFacts
<1>3. Spec => []Inv
  <2>1. LockAuditIsTheChain /\ OneCurrentLock => LockAuditIsTheChain
    OBVIOUS
  <2> QED BY <2>1, RegistryInvariant, DomainLocksFormAChain, PTL
<1> QED BY <1>1, <1>2, <1>3, PTL DEF Spec, ImplementsAtomicRegistry, Atomic!AtomicSpec
===============================================================================
