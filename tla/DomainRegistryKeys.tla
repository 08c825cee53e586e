--------------------------- MODULE DomainRegistryKeys ---------------------------
(***************************************************************************)
(* Proofs about what DomainRegistry records: Idempotency-Keys answer for   *)
(* one request and no effect is without one, installations are not         *)
(* duplicated, nothing crosses the border of an Organization, and what the *)
(* guards of uninstall and against unhealthy content promise to any number *)
(* of requests at a time.                                                  *)
(***************************************************************************)
EXTENDS DomainRegistryProofs

(* A record that is not there has no audit events, and the last event of one  *)
(* that is there names its state.  Unlike AuditsAreHistories this needs no    *)
(* assumption on If-Match: event and row are written in one transaction.      *)
AuditsReachTheState ==
  /\ \A pv \in PackageVersions :
       IF packages[pv] = None
       THEN packageAudit[pv] = <<>>
       ELSE /\ packageAudit[pv] # <<>>
            /\ packageAudit[pv][Len(packageAudit[pv])] = packages[pv].state
  /\ \A i \in InstallationIds :
       IF installations[i] = None
       THEN installationAudit[i] = <<>>
       ELSE /\ installationAudit[i] # <<>>
            /\ installationAudit[i][Len(installationAudit[i])] = installations[i].state

(* A handler that is about to spend a key on what is there already.           *)
BindsCameAbout ==
  \A work \in {handler[h] : h \in Handlers} \ {Idle} :
    work.step = "bind" => CameAbout(work.request, work.resource)

(* The transactions that commit a request. *)
Commits(h) ==
  \/ AddPackageVersion(h)
  \/ SavePackageVersion(h)
  \/ \E i \in InstallationIds : AddInstallation(h, i)
  \/ SaveInstallation(h)
  \/ \E l \in LockIds : SwitchProjectDomainLock(h, l)

-------------------------------------------------------------------------------
(* Audit events are only appended.                                            *)

(* How a sequence of events may be after a step. *)
Extends(longer, audit) ==
  /\ Len(longer) \in {Len(audit), Len(audit) + 1}
  /\ \A n \in 1..Len(audit) : longer[n] = audit[n]

LEMMA AppendExtends ==
  ASSUME NEW S, NEW audit \in Seq(S), NEW event \in S
  PROVE  /\ Extends(Append(audit, event), audit)
         /\ Len(Append(audit, event)) = Len(audit) + 1
         /\ Append(audit, event) # <<>>
         /\ Append(audit, event)[Len(audit) + 1] = event
         /\ Len(audit) \in Nat
  BY AppendProperties, LenProperties DEF Extends

LEMMA SameExtends ==
  ASSUME NEW S, NEW audit \in Seq(S)
  PROVE  Extends(audit, audit)
  BY DEF Extends

(* Where a committing transaction writes, and what. *)
LEMMA SavedPackage ==
  ASSUME TypeOK, NEW h \in Handlers, SavePackageVersion(h)
  PROVE  \E subject \in PackageVersions, target \in RegistryStates :
           /\ handler[h] # Idle
           /\ handler[h].request = [kind |-> "governPackage", subject |-> subject,
                                    argument |-> target]
           /\ packages[subject] # None
           /\ packages'[subject] # None
           /\ packages'[subject].content = packages[subject].content
           /\ packages'[subject].state = target
           /\ packageAudit'[subject] = Append(packageAudit[subject], target)
           /\ packageAudit[subject] \in Seq(RegistryStates)
           /\ \A pv \in PackageVersions : pv # subject =>
                packages'[pv] = packages[pv] /\ packageAudit'[pv] = packageAudit[pv]
           /\ UNCHANGED <<installations, locks, installationAudit, lockAudit>>
<1>0. PICK subject, target :
        subject = handler[h].request.subject /\ target = handler[h].request.argument
  OBVIOUS
<1> USE ConstantsAssumption
<1>1. handler[h] # Idle /\ handler[h].request.kind = "governPackage"
  BY DEF SavePackageVersion, At
<1>2. /\ handler[h].request \in Requests
      /\ subject \in PackageVersions /\ target \in RegistryStates
  BY <1>0, <1>1, BusyType, RequestType DEF RegistryStates
<1>3. handler[h].request = [kind |-> "governPackage", subject |-> subject, argument |-> target]
  BY <1>0, <1>1, <1>2 DEF Requests
<1> DEFINE saved == [content |-> packages[subject].content, state |-> target,
                     version |-> handler[h].expected + 1]
<1>4. /\ packages[subject] # None
      /\ packages' = [packages EXCEPT ![subject] = saved]
      /\ packageAudit' = [packageAudit EXCEPT ![subject] =
                            Append(packageAudit[subject], target)]
      /\ UNCHANGED <<installations, locks, installationAudit, lockAudit>>
  BY <1>0 DEF SavePackageVersion, Unmoved
<1>5. packages[subject] \in PackageRows /\ handler[h].expected \in Nat
  BY <1>1, <1>2, <1>4, BusyType DEF TypeOK
<1>6. saved \in PackageRows
  BY <1>2, <1>5 DEF PackageRows
<1>7. saved # None /\ saved.content = packages[subject].content /\ saved.state = target
  BY <1>6
<1>8. packages'[subject] = saved
  BY <1>2, <1>4 DEF TypeOK
<1> HIDE DEF saved
<1> QED BY <1>1, <1>2, <1>3, <1>4, <1>7, <1>8 DEF TypeOK

LEMMA AddedPackage ==
  ASSUME TypeOK, NEW h \in Handlers, AddPackageVersion(h)
  PROVE  \E subject \in PackageVersions :
           /\ handler[h] # Idle
           /\ handler[h].request.kind = "register"
           /\ handler[h].request = [kind |-> "register", subject |-> subject,
                                    argument |-> packages'[subject].content]
           /\ packages[subject] = None
           /\ packages'[subject] # None
           /\ packages'[subject].content = handler[h].request.argument
           /\ packages'[subject].state = "REGISTERED_VALIDATED"
           /\ packageAudit'[subject] = Append(packageAudit[subject], "REGISTERED_VALIDATED")
           /\ packageAudit[subject] \in Seq(RegistryStates)
           /\ \A pv \in PackageVersions : pv # subject =>
                packages'[pv] = packages[pv] /\ packageAudit'[pv] = packageAudit[pv]
           /\ UNCHANGED <<installations, locks, installationAudit, lockAudit>>
<1>0. PICK subject :
        subject = handler[h].request.subject
  OBVIOUS
<1> USE ConstantsAssumption
<1>1. handler[h] # Idle /\ handler[h].request.kind = "register"
  BY DEF AddPackageVersion, At
<1> DEFINE content == handler[h].request.argument
           added == [content |-> content, state |-> "REGISTERED_VALIDATED", version |-> 1]
<1>2. /\ handler[h].request \in Requests
      /\ subject \in PackageVersions /\ content \in Contents
  BY <1>0, <1>1, BusyType, RequestType
<1>3. handler[h].request = [kind |-> "register", subject |-> subject, argument |-> content]
  BY <1>0, <1>1, <1>2 DEF Requests
<1>4. /\ packages[subject] = None
      /\ packages' = [packages EXCEPT ![subject] = added]
      /\ packageAudit' = [packageAudit EXCEPT ![subject] =
                            Append(packageAudit[subject], "REGISTERED_VALIDATED")]
      /\ UNCHANGED <<installations, locks, installationAudit, lockAudit>>
  BY <1>0 DEF AddPackageVersion
<1>5. added \in PackageRows
  BY <1>2 DEF PackageRows, RegistryStates
<1>6. added # None /\ added.content = content /\ added.state = "REGISTERED_VALIDATED"
  BY <1>5
<1>7. packages'[subject] = added
  BY <1>2, <1>4 DEF TypeOK
<1> HIDE DEF added
<1> QED BY <1>1, <1>2, <1>3, <1>4, <1>6, <1>7 DEF TypeOK

LEMMA SavedInstallation ==
  ASSUME TypeOK, NEW h \in Handlers, SaveInstallation(h)
  PROVE  \E subject \in InstallationIds, target \in InstallationStates :
           /\ handler[h] # Idle
           /\ handler[h].request = [kind |-> "governInstallation", subject |-> subject,
                                    argument |-> target]
           /\ installations[subject] # None
           /\ installations'[subject] # None
           /\ installations'[subject].root = installations[subject].root
           /\ installations'[subject].organization = installations[subject].organization
           /\ installations'[subject].refs = installations[subject].refs
           /\ installations'[subject].state = target
           /\ installationAudit'[subject] = Append(installationAudit[subject], target)
           /\ installationAudit[subject] \in Seq(InstallationStates)
           /\ \A i \in InstallationIds : i # subject =>
                /\ installations'[i] = installations[i]
                /\ installationAudit'[i] = installationAudit[i]
           /\ UNCHANGED <<packages, locks, packageAudit, lockAudit>>
<1>0. PICK subject, target :
        subject = handler[h].request.subject /\ target = handler[h].request.argument
  OBVIOUS
<1> USE ConstantsAssumption
<1>1. handler[h] # Idle /\ handler[h].request.kind = "governInstallation"
  BY DEF SaveInstallation, At
<1>2. /\ handler[h].request \in Requests
      /\ subject \in InstallationIds /\ target \in InstallationStates
  BY <1>0, <1>1, BusyType, RequestType DEF InstallationStates
<1>3. handler[h].request = [kind |-> "governInstallation", subject |-> subject,
                            argument |-> target]
  BY <1>0, <1>1, <1>2 DEF Requests
<1> DEFINE row == installations[subject]
           saved == [organization |-> row.organization, root |-> row.root,
                     refs |-> row.refs, state |-> target,
                     version |-> handler[h].expected + 1]
<1>4. /\ row # None
      /\ installations' = [installations EXCEPT ![subject] = saved]
      /\ installationAudit' = [installationAudit EXCEPT ![subject] =
                                 Append(installationAudit[subject], target)]
      /\ UNCHANGED <<packages, locks, packageAudit, lockAudit>>
  BY <1>0 DEF SaveInstallation, Unmoved
<1>5. row \in InstallationRows /\ handler[h].expected \in Nat
  BY <1>1, <1>2, <1>4, BusyType DEF TypeOK
<1>6. saved \in InstallationRows
  BY <1>2, <1>5 DEF InstallationRows
<1>7. /\ saved # None
      /\ saved.organization = row.organization
      /\ saved.root = row.root
      /\ saved.refs = row.refs
      /\ saved.state = target
  BY <1>6
<1>8. installations'[subject] = saved
  BY <1>2, <1>4 DEF TypeOK
<1> HIDE DEF saved
<1> QED BY <1>1, <1>2, <1>3, <1>4, <1>7, <1>8 DEF TypeOK

LEMMA AddedInstallation ==
  ASSUME TypeOK, NEW h \in Handlers, NEW i \in InstallationIds, AddInstallation(h, i)
  PROVE  /\ handler[h] # Idle
         /\ handler[h].request.kind = "install"
         /\ handler[h].request = [kind |-> "install", subject |-> installations'[i].root,
                                  argument |-> installations'[i].organization]
         /\ handler[h].refs \in SUBSET PackageVersions
         /\ installations[i] = None
         /\ installations'[i] # None
         /\ installations'[i].root = handler[h].request.subject
         /\ installations'[i].organization = handler[h].request.argument
         /\ installations'[i].refs = handler[h].refs
         /\ installations'[i].state = "INSTALLED_DISABLED"
         /\ installationAudit'[i] = Append(installationAudit[i], "INSTALLED_DISABLED")
         /\ installationAudit[i] \in Seq(InstallationStates)
         /\ \A other \in InstallationIds :
              ~SameLock(other, handler[h].request, handler[h].refs)
         /\ \A other \in InstallationIds : other # i =>
              /\ installations'[other] = installations[other]
              /\ installationAudit'[other] = installationAudit[other]
         /\ UNCHANGED <<packages, locks, packageAudit, lockAudit>>
<1> USE ConstantsAssumption
<1>1. handler[h] # Idle /\ handler[h].request.kind = "install"
  BY DEF AddInstallation, At
<1> DEFINE root == handler[h].request.subject
           organization == handler[h].request.argument
           added == [organization |-> organization, root |-> root, refs |-> handler[h].refs,
                     state |-> "INSTALLED_DISABLED", version |-> 1]
<1>2. /\ handler[h].request \in Requests
      /\ root \in PackageVersions /\ organization \in Organizations
      /\ handler[h].refs \in SUBSET PackageVersions
  BY <1>1, BusyType, RequestType
<1>3. handler[h].request = [kind |-> "install", subject |-> root, argument |-> organization]
  BY <1>1, <1>2 DEF Requests
<1>4. /\ installations[i] = None
      /\ installations' = [installations EXCEPT ![i] = added]
      /\ installationAudit' = [installationAudit EXCEPT ![i] =
                                 Append(installationAudit[i], "INSTALLED_DISABLED")]
      /\ \A other \in InstallationIds :
           ~SameLock(other, handler[h].request, handler[h].refs)
      /\ UNCHANGED <<packages, locks, packageAudit, lockAudit>>
  BY DEF AddInstallation
<1>5. added \in InstallationRows
  BY <1>2 DEF InstallationRows, InstallationStates
<1>6. /\ added # None
      /\ added.organization = organization
      /\ added.root = root
      /\ added.refs = handler[h].refs
      /\ added.state = "INSTALLED_DISABLED"
  BY <1>5
<1>7. installations'[i] = added
  BY <1>4 DEF TypeOK
<1> HIDE DEF added
<1> QED BY <1>1, <1>2, <1>3, <1>4, <1>6, <1>7 DEF TypeOK

LEMMA SwitchedLock ==
  ASSUME TypeOK, NEW h \in Handlers, NEW l \in LockIds, SwitchProjectDomainLock(h, l)
  PROVE  /\ handler[h] # Idle
         /\ handler[h].request.kind = "switch"
         /\ handler[h].request = [kind |-> "switch", subject |-> locks'[l].project,
                                  argument |-> locks'[l].installation]
         /\ locks[l] = None
         /\ locks'[l] # None
         /\ locks'[l].project = handler[h].request.subject
         /\ locks'[l].installation = handler[h].request.argument
         /\ \A k \in LockIds : k # l /\ locks'[k] # None => locks[k] # None
         /\ UNCHANGED <<packages, installations, packageAudit, installationAudit>>
<1> USE ConstantsAssumption
<1>1. handler[h] # Idle /\ handler[h].request.kind = "switch"
  BY DEF SwitchProjectDomainLock, At
<1> DEFINE p == handler[h].request.subject
           i == handler[h].request.argument
           previous == handler[h].resource
           new == [project |-> p, installation |-> i, previous |-> previous,
                   status |-> "CURRENT"]
<1>2. /\ handler[h].request \in Requests
      /\ p \in Projects /\ i \in InstallationIds
  BY <1>1, BusyType, RequestType
<1>3. handler[h].request = [kind |-> "switch", subject |-> p, argument |-> i]
  BY <1>1, <1>2 DEF Requests
<1>4. /\ StillCurrent(p, previous)
      /\ locks[l] = None
      /\ \A k \in LockIds :
           locks'[k] = IF k = l THEN new
                       ELSE IF k = previous THEN Superseded(locks[k]) ELSE locks[k]
      /\ UNCHANGED <<packages, installations, packageAudit, installationAudit>>
  BY DEF SwitchProjectDomainLock
<1>5. \/ previous = None
      \/ previous \in LockIds /\ locks[previous] # None
  BY <1>4 DEF StillCurrent, CurrentLocks
<1>6. new \in LockRows
  BY <1>2, <1>5 DEF LockRows
<1>7. new # None /\ new.project = p /\ new.installation = i
  BY <1>6
<1>8. locks'[l] = new
  BY <1>4
<1>9. \A k \in LockIds : k # l /\ locks'[k] # None => locks[k] # None
  BY <1>4, <1>5
<1> HIDE DEF new
<1> QED BY <1>1, <1>2, <1>3, <1>4, <1>7, <1>8, <1>9

LEMMA AuditsOnlyGrow ==
  ASSUME TypeOK, [Next]_vars
  PROVE  /\ \A pv \in PackageVersions : Extends(packageAudit'[pv], packageAudit[pv])
         /\ \A i \in InstallationIds : Extends(installationAudit'[i], installationAudit[i])
<1> DEFINE Grown ==
      /\ \A pv \in PackageVersions : Extends(packageAudit'[pv], packageAudit[pv])
      /\ \A i \in InstallationIds : Extends(installationAudit'[i], installationAudit[i])
<1>1. /\ \A pv \in PackageVersions : packageAudit[pv] \in Seq(RegistryStates)
      /\ \A i \in InstallationIds : installationAudit[i] \in Seq(InstallationStates)
  BY DEF TypeOK
<1>2. /\ \A pv \in PackageVersions : Extends(packageAudit[pv], packageAudit[pv])
      /\ \A i \in InstallationIds : Extends(installationAudit[i], installationAudit[i])
  BY <1>1, SameExtends
<1>3. ASSUME UNCHANGED <<packageAudit, installationAudit>> PROVE Grown
  BY <1>2, <1>3
<1>4. ASSUME NEW h \in Handlers, AddPackageVersion(h) PROVE Grown
  <2>1. PICK s \in PackageVersions :
          /\ packageAudit[s] \in Seq(RegistryStates)
          /\ packageAudit'[s] = Append(packageAudit[s], "REGISTERED_VALIDATED")
          /\ \A pv \in PackageVersions : pv # s => packageAudit'[pv] = packageAudit[pv]
          /\ UNCHANGED installationAudit
    BY <1>4, AddedPackage
  <2>2. Extends(packageAudit'[s], packageAudit[s])
    BY <2>1, AppendExtends DEF RegistryStates
  <2> QED BY <1>2, <2>1, <2>2
<1>5. ASSUME NEW h \in Handlers, SavePackageVersion(h) PROVE Grown
  <2>1. PICK s \in PackageVersions, t \in RegistryStates :
          /\ packageAudit[s] \in Seq(RegistryStates)
          /\ packageAudit'[s] = Append(packageAudit[s], t)
          /\ \A pv \in PackageVersions : pv # s => packageAudit'[pv] = packageAudit[pv]
          /\ UNCHANGED installationAudit
    BY <1>5, SavedPackage
  <2>2. Extends(packageAudit'[s], packageAudit[s])
    BY <2>1, AppendExtends
  <2> QED BY <1>2, <2>1, <2>2
<1>6. ASSUME NEW h \in Handlers, NEW i \in InstallationIds, AddInstallation(h, i)
      PROVE  Grown
  <2>1. /\ installationAudit[i] \in Seq(InstallationStates)
        /\ installationAudit'[i] = Append(installationAudit[i], "INSTALLED_DISABLED")
        /\ \A j \in InstallationIds : j # i => installationAudit'[j] = installationAudit[j]
        /\ UNCHANGED packageAudit
    BY <1>6, AddedInstallation
  <2>2. Extends(installationAudit'[i], installationAudit[i])
    BY <2>1, AppendExtends DEF InstallationStates
  <2> QED BY <1>2, <2>1, <2>2
<1>7. ASSUME NEW h \in Handlers, SaveInstallation(h) PROVE Grown
  <2>1. PICK s \in InstallationIds, t \in InstallationStates :
          /\ installationAudit[s] \in Seq(InstallationStates)
          /\ installationAudit'[s] = Append(installationAudit[s], t)
          /\ \A j \in InstallationIds :
               j # s => installationAudit'[j] = installationAudit[j]
          /\ UNCHANGED packageAudit
    BY <1>7, SavedInstallation
  <2>2. Extends(installationAudit'[s], installationAudit[s])
    BY <2>1, AppendExtends
  <2> QED BY <1>2, <2>1, <2>2
<1>8. ASSUME NEW h \in Handlers, NEW l \in LockIds, SwitchProjectDomainLock(h, l)
      PROVE  UNCHANGED <<packageAudit, installationAudit>>
  BY <1>8, SwitchedLock
<1> QED BY <1>3, <1>4, <1>5, <1>6, <1>7, <1>8, OnlyCommitsMoveFacts DEF facts

LEMMA AuditsReachStep ==
  ASSUME TypeOK, AuditsReachTheState, [Next]_vars
  PROVE  AuditsReachTheState'
<1>1. ASSUME UNCHANGED <<packages, installations, packageAudit, installationAudit>>
      PROVE  AuditsReachTheState'
  BY <1>1 DEF AuditsReachTheState
<1>2. ASSUME NEW h \in Handlers, AddPackageVersion(h) PROVE AuditsReachTheState'
  <2>1. PICK s \in PackageVersions :
          /\ packageAudit[s] \in Seq(RegistryStates)
          /\ packageAudit'[s] = Append(packageAudit[s], "REGISTERED_VALIDATED")
          /\ packages'[s] # None /\ packages'[s].state = "REGISTERED_VALIDATED"
          /\ \A pv \in PackageVersions : pv # s =>
               packages'[pv] = packages[pv] /\ packageAudit'[pv] = packageAudit[pv]
          /\ UNCHANGED <<installations, installationAudit>>
    BY <1>2, AddedPackage
  <2>2. packageAudit'[s] # <<>> /\ packageAudit'[s][Len(packageAudit'[s])] = packages'[s].state
    BY <2>1, AppendExtends DEF RegistryStates
  <2> QED BY <2>1, <2>2 DEF AuditsReachTheState
<1>3. ASSUME NEW h \in Handlers, SavePackageVersion(h) PROVE AuditsReachTheState'
  <2>1. PICK s \in PackageVersions, t \in RegistryStates :
          /\ packageAudit[s] \in Seq(RegistryStates)
          /\ packageAudit'[s] = Append(packageAudit[s], t)
          /\ packages'[s] # None /\ packages'[s].state = t
          /\ \A pv \in PackageVersions : pv # s =>
               packages'[pv] = packages[pv] /\ packageAudit'[pv] = packageAudit[pv]
          /\ UNCHANGED <<installations, installationAudit>>
    BY <1>3, SavedPackage
  <2>2. packageAudit'[s] # <<>> /\ packageAudit'[s][Len(packageAudit'[s])] = packages'[s].state
    BY <2>1, AppendExtends
  <2> QED BY <2>1, <2>2 DEF AuditsReachTheState
<1>4. ASSUME NEW h \in Handlers, NEW i \in InstallationIds, AddInstallation(h, i)
      PROVE  AuditsReachTheState'
  <2>1. /\ installationAudit[i] \in Seq(InstallationStates)
        /\ installationAudit'[i] = Append(installationAudit[i], "INSTALLED_DISABLED")
        /\ installations'[i] # None /\ installations'[i].state = "INSTALLED_DISABLED"
        /\ \A other \in InstallationIds : other # i =>
             /\ installations'[other] = installations[other]
             /\ installationAudit'[other] = installationAudit[other]
        /\ UNCHANGED <<packages, packageAudit>>
    BY <1>4, AddedInstallation
  <2>2. /\ installationAudit'[i] # <<>>
        /\ installationAudit'[i][Len(installationAudit'[i])] = installations'[i].state
    BY <2>1, AppendExtends DEF InstallationStates
  <2> QED BY <2>1, <2>2 DEF AuditsReachTheState
<1>5. ASSUME NEW h \in Handlers, SaveInstallation(h) PROVE AuditsReachTheState'
  <2>1. PICK s \in InstallationIds, t \in InstallationStates :
          /\ installationAudit[s] \in Seq(InstallationStates)
          /\ installationAudit'[s] = Append(installationAudit[s], t)
          /\ installations'[s] # None /\ installations'[s].state = t
          /\ \A i \in InstallationIds : i # s =>
               /\ installations'[i] = installations[i]
               /\ installationAudit'[i] = installationAudit[i]
          /\ UNCHANGED <<packages, packageAudit>>
    BY <1>5, SavedInstallation
  <2>2. /\ installationAudit'[s] # <<>>
        /\ installationAudit'[s][Len(installationAudit'[s])] = installations'[s].state
    BY <2>1, AppendExtends
  <2> QED BY <2>1, <2>2 DEF AuditsReachTheState
<1>6. ASSUME NEW h \in Handlers, NEW l \in LockIds, SwitchProjectDomainLock(h, l)
      PROVE  AuditsReachTheState'
  BY <1>1, <1>6, SwitchedLock
<1> QED BY <1>1, <1>2, <1>3, <1>4, <1>5, <1>6, OnlyCommitsMoveFacts DEF facts

-------------------------------------------------------------------------------
(* Keys. *)

(* What has come about stays so: facts are not rewritten, events not removed. *)
LEMMA CameAboutStays ==
  ASSUME TypeOK, [Next]_vars, NEW request \in Requests, NEW resource,
         CameAbout(request, resource)
  PROVE  CameAbout(request, resource)'
<1>1. FactsOnlyAdvance
  BY StepsOnlyAdvance
<1>2. /\ \A pv \in PackageVersions : Extends(packageAudit'[pv], packageAudit[pv])
      /\ \A i \in InstallationIds : Extends(installationAudit'[i], installationAudit[i])
  BY AuditsOnlyGrow
<1>3. CASE request.kind = "register"
  BY <1>1, <1>3, RequestType DEF CameAbout, FactsOnlyAdvance
<1>4. CASE request.kind = "governPackage"
  <2>1. resource \in PackageVersions /\ resource = request.subject
    BY <1>4, RequestType DEF CameAbout
  <2>2. PICK n \in 1..Len(packageAudit[resource]) :
          packageAudit[resource][n] = request.argument
    BY <1>4 DEF CameAbout
  <2>3. Len(packageAudit[resource]) \in Nat
    BY <2>1 DEF TypeOK
  <2>4. /\ n \in 1..Len(packageAudit'[resource])
        /\ packageAudit'[resource][n] = request.argument
    BY <1>2, <2>1, <2>2, <2>3 DEF Extends
  <2> QED BY <1>4, <2>1, <2>4 DEF CameAbout
<1>5. CASE request.kind = "install"
  BY <1>1, <1>5 DEF CameAbout, FactsOnlyAdvance
<1>6. CASE request.kind = "governInstallation"
  <2>1. resource \in InstallationIds /\ resource = request.subject
    BY <1>6, RequestType DEF CameAbout
  <2>2. PICK n \in 1..Len(installationAudit[resource]) :
          installationAudit[resource][n] = request.argument
    BY <1>6 DEF CameAbout
  <2>3. Len(installationAudit[resource]) \in Nat
    BY <2>1 DEF TypeOK
  <2>4. /\ n \in 1..Len(installationAudit'[resource])
        /\ installationAudit'[resource][n] = request.argument
    BY <1>2, <2>1, <2>2, <2>3 DEF Extends
  <2> QED BY <1>6, <2>1, <2>4 DEF CameAbout
<1>7. CASE request.kind = "switch"
  BY <1>1, <1>7 DEF CameAbout, FactsOnlyAdvance
<1> QED BY <1>3, <1>4, <1>5, <1>6, <1>7 DEF CameAbout

(* A transaction that commits records its key with a resource for which the   *)
(* request has come about, and only if the key is new.                        *)
Records(h) ==
  /\ handler[h] # Idle
  /\ Fresh(h)
  /\ \E resource \in Resources :
       /\ AddIdempotency(handler[h].request, handler[h].key, resource)
       /\ \A request : request = handler[h].request => CameAbout(request, resource)'

LEMMA CommitsRecord ==
  ASSUME TypeOK, AuditsReachTheState, BindsCameAbout, [Next]_vars,
         NEW h \in Handlers, Bind(h) \/ Commits(h)
  PROVE  Records(h)
<1> SUFFICES ASSUME NEW request, request = handler[h].request
             PROVE  /\ handler[h] # Idle
                    /\ Fresh(h)
                    /\ \E resource \in Resources :
                         /\ AddIdempotency(handler[h].request, handler[h].key, resource)
                         /\ CameAbout(request, resource)'
  BY DEF Records
<1>0. handler[h] # Idle /\ Fresh(h)
  BY DEF Commits, Bind, AddPackageVersion, SavePackageVersion, AddInstallation,
         SaveInstallation, SwitchProjectDomainLock, At
<1>1. request \in Requests
  BY <1>0, BusyType
<1>2. CASE Bind(h)
  <2>1. /\ handler[h].step = "bind"
        /\ AddIdempotency(handler[h].request, handler[h].key, handler[h].resource)
    BY <1>2 DEF Bind
  <2>2. handler[h].resource \in Resources
    BY <1>0, <2>1, BusyType
  <2>3. CameAbout(request, handler[h].resource)
    BY <1>0, <2>1 DEF BindsCameAbout
  <2>4. \E resource \in Resources :
          /\ AddIdempotency(handler[h].request, handler[h].key, resource)
          /\ CameAbout(request, resource)
    BY <2>1, <2>2, <2>3
  <2> QED BY <1>0, <1>1, <2>4, CameAboutStays
<1>3. CASE AddPackageVersion(h)
  <2>1. PICK s \in PackageVersions :
          /\ request = [kind |-> "register", subject |-> s,
                        argument |-> packages'[s].content]
          /\ packages'[s] # None
    BY <1>3, AddedPackage
  <2>2. AddIdempotency(handler[h].request, handler[h].key, s)
    BY <1>3, <2>1 DEF AddPackageVersion
  <2>3. CameAbout(request, s)'
    BY <2>1 DEF CameAbout
  <2> QED BY <1>0, <2>2, <2>3 DEF Resources
<1>4. CASE SavePackageVersion(h)
  <2>1. PICK s \in PackageVersions, t \in RegistryStates :
          /\ request = [kind |-> "governPackage", subject |-> s, argument |-> t]
          /\ packageAudit[s] \in Seq(RegistryStates)
          /\ packageAudit'[s] = Append(packageAudit[s], t)
    BY <1>4, SavedPackage
  <2>2. AddIdempotency(handler[h].request, handler[h].key, s)
    BY <1>4, <2>1 DEF SavePackageVersion
  <2>3. \E n \in 1..Len(packageAudit'[s]) : packageAudit'[s][n] = t
    <3>1. /\ Len(packageAudit[s]) + 1 \in 1..Len(packageAudit'[s])
          /\ packageAudit'[s][Len(packageAudit[s]) + 1] = t
      BY <2>1, AppendExtends
    <3> QED BY <3>1
  <2>4. CameAbout(request, s)'
    BY <2>1, <2>3 DEF CameAbout
  <2> QED BY <1>0, <2>2, <2>4 DEF Resources
<1>5. ASSUME NEW i \in InstallationIds, AddInstallation(h, i)
      PROVE  \E resource \in Resources :
               /\ AddIdempotency(handler[h].request, handler[h].key, resource)
               /\ CameAbout(request, resource)'
  <2>1. /\ request = [kind |-> "install", subject |-> installations'[i].root,
                      argument |-> installations'[i].organization]
        /\ installations'[i] # None
    BY <1>5, AddedInstallation
  <2>2. AddIdempotency(handler[h].request, handler[h].key, i)
    BY <1>5 DEF AddInstallation
  <2>3. CameAbout(request, i)'
    BY <2>1 DEF CameAbout
  <2> QED BY <2>2, <2>3 DEF Resources
<1>6. CASE SaveInstallation(h)
  <2>1. PICK s \in InstallationIds, t \in InstallationStates :
          /\ request = [kind |-> "governInstallation", subject |-> s, argument |-> t]
          /\ installationAudit[s] \in Seq(InstallationStates)
          /\ installationAudit'[s] = Append(installationAudit[s], t)
    BY <1>6, SavedInstallation
  <2>2. AddIdempotency(handler[h].request, handler[h].key, s)
    BY <1>6, <2>1 DEF SaveInstallation
  <2>3. \E n \in 1..Len(installationAudit'[s]) : installationAudit'[s][n] = t
    <3>1. /\ Len(installationAudit[s]) + 1 \in 1..Len(installationAudit'[s])
          /\ installationAudit'[s][Len(installationAudit[s]) + 1] = t
      BY <2>1, AppendExtends
    <3> QED BY <3>1
  <2>4. CameAbout(request, s)'
    BY <2>1, <2>3 DEF CameAbout
  <2> QED BY <1>0, <2>2, <2>4 DEF Resources
<1>7. ASSUME NEW l \in LockIds, SwitchProjectDomainLock(h, l)
      PROVE  \E resource \in Resources :
               /\ AddIdempotency(handler[h].request, handler[h].key, resource)
               /\ CameAbout(request, resource)'
  <2>1. /\ request = [kind |-> "switch", subject |-> locks'[l].project,
                      argument |-> locks'[l].installation]
        /\ locks'[l] # None
    BY <1>7, SwitchedLock
  <2>2. AddIdempotency(handler[h].request, handler[h].key, l)
    BY <1>7 DEF SwitchProjectDomainLock
  <2>3. CameAbout(request, l)'
    BY <2>1 DEF CameAbout
  <2> QED BY <2>2, <2>3 DEF Resources
<1> QED BY <1>0, <1>2, <1>3, <1>4, <1>5, <1>6, <1>7 DEF Commits

(* A handler that takes up the step "bind" holds what has come about.         *)
HoldsCameAbout(h) ==
  /\ \A work : work = handler'[h] /\ work.step = "bind"
       => CameAbout(work.request, work.resource)
  /\ \A g \in Handlers : g # h => handler'[g] = handler[g]

LEMMA HoldCameAbout ==
  ASSUME TypeOK, NEW h \in Handlers, NEW step, NEW request, NEW key, NEW expected,
         NEW refs, NEW resource, Hold(h, step, request, key, expected, refs, resource),
         step = "bind" => CameAbout(request, resource)
  PROVE  HoldsCameAbout(h)
<1> DEFINE held == [step |-> step, request |-> request, key |-> key,
                    expected |-> expected, refs |-> refs, resource |-> resource]
<1>1. handler'[h] = held /\ \A g \in Handlers : g # h => handler'[g] = handler[g]
  BY DEF TypeOK, Hold
<1>2. held.step = step /\ held.request = request /\ held.resource = resource
  OBVIOUS
<1> HIDE DEF held
<1> QED BY <1>1, <1>2 DEF HoldsCameAbout

LEMMA BeginsCameAbout ==
  ASSUME TypeOK, AuditsReachTheState, NEW h \in Handlers, Receive(h)
  PROVE  HoldsCameAbout(h)
<1>1. ASSUME NEW pv \in PackageVersions, NEW content, NEW key, BeginRegister(h, pv, content, key)
      PROVE  HoldsCameAbout(h)
  <2> DEFINE request == [kind |-> "register", subject |-> pv, argument |-> content]
  <2>1. CASE packages[pv] # None /\ packages[pv].content = content
    <3>1. CameAbout(request, pv)
      BY <2>1 DEF CameAbout
    <3> HIDE DEF request
    <3> QED BY <1>1, <2>1, <3>1, HoldCameAbout DEF BeginRegister, request
  <2>2. CASE Hold(h, "commit", request, key, 0, {}, None)
    BY <2>2, HoldCameAbout
  <2> QED BY <1>1, <2>1, <2>2 DEF BeginRegister
<1>2. ASSUME NEW pv \in PackageVersions, NEW target, NEW key, NEW expected,
             BeginGovernPackage(h, pv, target, key, expected)
      PROVE  HoldsCameAbout(h)
  <2> DEFINE request == [kind |-> "governPackage", subject |-> pv, argument |-> target]
  <2>1. CASE Hold(h, "commit", request, key, expected, {}, pv)
    BY <2>1, HoldCameAbout
  <2>2. CASE packages[pv].state = target /\ Hold(h, "bind", request, key, expected, {}, pv)
    <3>1. packages[pv] # None
      BY <1>2 DEF BeginGovernPackage
    <3>2. packageAudit[pv] # <<>> /\ packageAudit[pv][Len(packageAudit[pv])] = target
      BY <2>2, <3>1 DEF AuditsReachTheState
    <3>3. Len(packageAudit[pv]) \in 1..Len(packageAudit[pv])
      BY <3>2 DEF TypeOK
    <3>4. CameAbout(request, pv)
      BY <3>2, <3>3 DEF CameAbout
    <3> HIDE DEF request
    <3> QED BY <2>2, <3>4, HoldCameAbout
  <2> QED BY <1>2, <2>1, <2>2 DEF BeginGovernPackage
<1>3. ASSUME NEW root, NEW organization, NEW key, NEW refs,
             BeginInstall(h, root, organization, key, refs)
      PROVE  HoldsCameAbout(h)
  BY <1>3, HoldCameAbout DEF BeginInstall
<1>4. ASSUME NEW i \in InstallationIds, NEW target, NEW key, NEW expected,
             BeginGovernInstallation(h, i, target, key, expected)
      PROVE  HoldsCameAbout(h)
  <2> DEFINE request == [kind |-> "governInstallation", subject |-> i, argument |-> target]
  <2>1. CASE \/ Hold(h, "commit", request, key, expected, {}, i)
             \/ Hold(h, "checkLocks", request, key, expected, {}, i)
    BY <2>1, HoldCameAbout
  <2>2. CASE installations[i].state = target /\ Hold(h, "bind", request, key, expected, {}, i)
    <3>1. installations[i] # None
      BY <1>4 DEF BeginGovernInstallation
    <3>2. /\ installationAudit[i] # <<>>
          /\ installationAudit[i][Len(installationAudit[i])] = target
      BY <2>2, <3>1 DEF AuditsReachTheState
    <3>3. Len(installationAudit[i]) \in 1..Len(installationAudit[i])
      BY <3>2 DEF TypeOK
    <3>4. CameAbout(request, i)
      BY <3>2, <3>3 DEF CameAbout
    <3> HIDE DEF request
    <3> QED BY <2>2, <3>4, HoldCameAbout
  <2> QED BY <1>4, <2>1, <2>2 DEF BeginGovernInstallation
<1>5. ASSUME NEW p \in Projects, NEW i, NEW key, BeginSwitch(h, p, i, key)
      PROVE  HoldsCameAbout(h)
  BY <1>5, HoldCameAbout DEF BeginSwitch
<1> QED BY <1>1, <1>2, <1>3, <1>4, <1>5 DEF Receive

LEMMA ReadsCameAbout ==
  ASSUME TypeOK, NEW h \in Handlers,
         LookUpInstallation(h) \/ CheckNoCurrentLock(h) \/ ReadCurrentLock(h)
  PROVE  HoldsCameAbout(h)
<1> DEFINE work == handler[h]
<1>1. CASE LookUpInstallation(h)
  <2>1. \A i \in InstallationIds : SameLock(i, work.request, work.refs)
          => CameAbout(work.request, i)
    BY <1>1 DEF LookUpInstallation, At, SameLock, CameAbout
  <2> QED BY <1>1, <2>1, HoldCameAbout DEF LookUpInstallation
<1>2. CASE CheckNoCurrentLock(h)
  BY <1>2, HoldCameAbout DEF CheckNoCurrentLock
<1>3. CASE ReadCurrentLock(h)
  <2>1. \A l \in CurrentLocks(work.request.subject) :
          locks[l].installation = work.request.argument => CameAbout(work.request, l)
    BY <1>3 DEF ReadCurrentLock, At, CurrentLocks, CameAbout
  <2> QED BY <1>3, <2>1, HoldCameAbout DEF ReadCurrentLock
<1> QED BY <1>1, <1>2, <1>3

LEMMA BindsStep ==
  ASSUME TypeOK, AuditsReachTheState, BindsCameAbout, [Next]_vars
  PROVE  BindsCameAbout'
<1>1. TypeOK'
  BY TypeStep
<1> SUFFICES ASSUME NEW g \in Handlers, NEW work, work = handler'[g], work # Idle,
                    work.step = "bind"
             PROVE  CameAbout(work.request, work.resource)'
  BY DEF BindsCameAbout
<1>2. CameAbout(work.request, work.resource)
  <2>1. CASE handler'[g] = handler[g]
    BY <2>1 DEF BindsCameAbout
  <2>2. ASSUME NEW h \in Handlers, HoldsCameAbout(h)
        PROVE  CameAbout(work.request, work.resource)
    BY <2>1, <2>2 DEF HoldsCameAbout
  <2>3. ASSUME NEW h \in Handlers, Finish(h)
        PROVE  CameAbout(work.request, work.resource)
    BY <2>1, <2>3 DEF Finish, TypeOK
  <2>4. \A scope \in ArchivableScopes : ArchiveScope(scope) => handler'[g] = handler[g]
    BY DEF ArchiveScope
  <2>5. \A h \in Handlers : Bind(h) \/ Commits(h) \/ Abandon(h) => Finish(h)
    BY DEF Commits, Bind, AddPackageVersion, SavePackageVersion, AddInstallation,
           SaveInstallation, SwitchProjectDomainLock, Abandon
  <2>6. CASE UNCHANGED vars
    BY <2>1, <2>6 DEF vars
  <2> QED BY <2>1, <2>2, <2>3, <2>4, <2>5, <2>6, BeginsCameAbout, ReadsCameAbout
          DEF Next, Continue, Commits
<1>3. work \in Work /\ work.request \in Requests
  BY <1>1 DEF TypeOK, Work
<1> QED BY <1>2, <1>3, CameAboutStays

LEMMA OnlyCommitsMoveKeys ==
  ASSUME [Next]_vars
  PROVE  UNCHANGED idempotency \/ \E h \in Handlers : Bind(h) \/ Commits(h)
<1>1. ASSUME NEW h \in Handlers, Receive(h) PROVE UNCHANGED idempotency
  <2>1. \A pv, content, key : BeginRegister(h, pv, content, key) => UNCHANGED idempotency
    BY DEF BeginRegister
  <2>2. \A pv, target, key, expected :
          BeginGovernPackage(h, pv, target, key, expected) => UNCHANGED idempotency
    BY DEF BeginGovernPackage
  <2>3. \A root, organization, key, refs :
          BeginInstall(h, root, organization, key, refs) => UNCHANGED idempotency
    BY DEF BeginInstall
  <2>4. \A i, target, key, expected :
          BeginGovernInstallation(h, i, target, key, expected) => UNCHANGED idempotency
    BY DEF BeginGovernInstallation
  <2>5. \A p, i, key : BeginSwitch(h, p, i, key) => UNCHANGED idempotency
    BY DEF BeginSwitch
  <2> QED BY <1>1, <2>1, <2>2, <2>3, <2>4, <2>5 DEF Receive
<1>2. ASSUME NEW h \in Handlers, LookUpInstallation(h) \/ CheckNoCurrentLock(h)
                                 \/ ReadCurrentLock(h) \/ Abandon(h)
      PROVE  UNCHANGED idempotency
  BY <1>2 DEF LookUpInstallation, CheckNoCurrentLock, ReadCurrentLock, Abandon
<1>3. ASSUME NEW scope \in ArchivableScopes, ArchiveScope(scope)
      PROVE  UNCHANGED idempotency
  BY <1>3 DEF ArchiveScope
<1>4. CASE UNCHANGED vars
  BY <1>4 DEF vars
<1> QED BY <1>1, <1>2, <1>3, <1>4 DEF Next, Continue, Commits

LEMMA KeysStep ==
  ASSUME TypeOK, AuditsReachTheState, BindsCameAbout, KeysAnswerForOneRequest, [Next]_vars
  PROVE  KeysAnswerForOneRequest'
<1>1. \A b \in idempotency : CameAbout(b.request, b.resource)'
  <2> TAKE b \in idempotency
  <2> DEFINE request == b.request
             resource == b.resource
  <2>1. request \in Requests /\ CameAbout(request, resource)
    BY DEF TypeOK, Bindings, KeysAnswerForOneRequest
  <2> HIDE DEF request, resource
  <2>2. CameAbout(request, resource)'
    BY <2>1, CameAboutStays
  <2> QED BY <2>2 DEF request, resource
<1>2. CASE UNCHANGED idempotency
  BY <1>1, <1>2 DEF KeysAnswerForOneRequest
<1>3. ASSUME NEW h \in Handlers, Records(h) PROVE KeysAnswerForOneRequest'
  <2>1. PICK resource \in Resources :
          /\ AddIdempotency(handler[h].request, handler[h].key, resource)
          /\ \A request : request = handler[h].request => CameAbout(request, resource)'
    BY <1>3 DEF Records
  <2>2. PICK new : new = [request |-> handler[h].request, key |-> handler[h].key,
                          resource |-> resource]
    OBVIOUS
  <2>3. idempotency' = idempotency \cup {new}
    BY <2>1, <2>2 DEF AddIdempotency
  <2>4. CameAbout(new.request, new.resource)'
    <3>1. \A request : request = new.request => CameAbout(request, resource)'
      BY <2>1, <2>2
    <3>2. resource = new.resource
      BY <2>2
    <3> QED BY <3>1, <3>2
  <2>5. \A b \in idempotency :
          ~(b.key = new.key /\ ActionKey(b.request) = ActionKey(new.request))
    BY <1>3, <2>2 DEF Records, Fresh, Bound
  <2> QED BY <1>1, <2>3, <2>4, <2>5 DEF KeysAnswerForOneRequest
<1> QED BY <1>2, <1>3, CommitsRecord, OnlyCommitsMoveKeys

-------------------------------------------------------------------------------
(* Effects: a new row or a new event is in the same transaction as its key.   *)

LEMMA NewPackagesAreKeyed ==
  ASSUME TypeOK, [Next]_vars, NEW pv \in PackageVersions,
         packages[pv] = None, packages'[pv] # None
  PROVE  \E b \in idempotency' :
           /\ b.request = [kind |-> "register", subject |-> pv,
                           argument |-> packages'[pv].content]
           /\ b.resource = pv
<1>1. PICK h \in Handlers : AddPackageVersion(h) \/ SavePackageVersion(h)
  BY OnlyCommitsMoveFacts DEF facts, AddInstallation, SaveInstallation,
                              SwitchProjectDomainLock
<1>2. ~SavePackageVersion(h)
  <2> SUFFICES ASSUME SavePackageVersion(h) PROVE FALSE
    OBVIOUS
  <2>1. PICK s \in PackageVersions :
          /\ packages[s] # None
          /\ \A q \in PackageVersions : q # s => packages'[q] = packages[q]
    BY SavedPackage
  <2> QED BY <2>1
<1>3. PICK s \in PackageVersions :
        /\ handler[h].request = [kind |-> "register", subject |-> s,
                                 argument |-> packages'[s].content]
        /\ \A q \in PackageVersions : q # s => packages'[q] = packages[q]
  BY <1>1, <1>2, AddedPackage
<1>4. s = pv /\ s = handler[h].request.subject
  BY <1>3
<1>5. [request |-> handler[h].request, key |-> handler[h].key, resource |-> s]
        \in idempotency'
  BY <1>1, <1>2, <1>4 DEF AddPackageVersion, AddIdempotency
<1> QED BY <1>3, <1>4, <1>5

LEMMA PackageEventsAreKeyed ==
  ASSUME TypeOK, [Next]_vars, NEW pv \in PackageVersions, packages[pv] # None,
         NEW n \in 1..Len(packageAudit'[pv]), n \notin 1..Len(packageAudit[pv])
  PROVE  \E b \in idempotency' :
           /\ b.request = [kind |-> "governPackage", subject |-> pv,
                           argument |-> packageAudit'[pv][n]]
           /\ b.resource = pv
<1>1. PICK h \in Handlers : AddPackageVersion(h) \/ SavePackageVersion(h)
  BY OnlyCommitsMoveFacts DEF facts, AddInstallation, SaveInstallation,
                              SwitchProjectDomainLock
<1>2. ~AddPackageVersion(h)
  <2> SUFFICES ASSUME AddPackageVersion(h) PROVE FALSE
    OBVIOUS
  <2>1. PICK s \in PackageVersions :
          /\ packages[s] = None
          /\ \A q \in PackageVersions : q # s => packageAudit'[q] = packageAudit[q]
    BY AddedPackage
  <2> QED BY <2>1
<1>3. PICK s \in PackageVersions, t \in RegistryStates :
        /\ handler[h].request = [kind |-> "governPackage", subject |-> s, argument |-> t]
        /\ packageAudit[s] \in Seq(RegistryStates)
        /\ packageAudit'[s] = Append(packageAudit[s], t)
        /\ \A q \in PackageVersions : q # s => packageAudit'[q] = packageAudit[q]
  BY <1>1, <1>2, SavedPackage
<1>4. s = pv /\ s = handler[h].request.subject
  BY <1>3
<1>5. n = Len(packageAudit[s]) + 1 /\ packageAudit'[s][n] = t
  BY <1>3, <1>4, AppendExtends
<1>6. [request |-> handler[h].request, key |-> handler[h].key, resource |-> s]
        \in idempotency'
  BY <1>1, <1>2, <1>4 DEF SavePackageVersion, AddIdempotency
<1> QED BY <1>3, <1>4, <1>5, <1>6

LEMMA NewInstallationsAreKeyed ==
  ASSUME TypeOK, [Next]_vars, NEW i \in InstallationIds,
         installations[i] = None, installations'[i] # None
  PROVE  \E b \in idempotency' :
           /\ b.request = [kind |-> "install", subject |-> installations'[i].root,
                           argument |-> installations'[i].organization]
           /\ b.resource = i
<1>1. PICK h \in Handlers :
        SaveInstallation(h) \/ \E j \in InstallationIds : AddInstallation(h, j)
  BY OnlyCommitsMoveFacts DEF facts, AddPackageVersion, SavePackageVersion,
                              SwitchProjectDomainLock
<1>2. ~SaveInstallation(h)
  <2> SUFFICES ASSUME SaveInstallation(h) PROVE FALSE
    OBVIOUS
  <2>1. PICK s \in InstallationIds :
          /\ installations[s] # None
          /\ \A q \in InstallationIds : q # s => installations'[q] = installations[q]
    BY SavedInstallation
  <2> QED BY <2>1
<1>3. PICK j \in InstallationIds : AddInstallation(h, j)
  BY <1>1, <1>2
<1>4. /\ handler[h].request = [kind |-> "install", subject |-> installations'[j].root,
                               argument |-> installations'[j].organization]
      /\ \A q \in InstallationIds : q # j => installations'[q] = installations[q]
  BY <1>3, AddedInstallation
<1>5. j = i
  BY <1>4
<1>6. [request |-> handler[h].request, key |-> handler[h].key, resource |-> j]
        \in idempotency'
  BY <1>3 DEF AddInstallation, AddIdempotency
<1> QED BY <1>4, <1>5, <1>6

LEMMA InstallationEventsAreKeyed ==
  ASSUME TypeOK, [Next]_vars, NEW i \in InstallationIds, installations[i] # None,
         NEW n \in 1..Len(installationAudit'[i]), n \notin 1..Len(installationAudit[i])
  PROVE  \E b \in idempotency' :
           /\ b.request = [kind |-> "governInstallation", subject |-> i,
                           argument |-> installationAudit'[i][n]]
           /\ b.resource = i
<1>1. PICK h \in Handlers :
        SaveInstallation(h) \/ \E j \in InstallationIds : AddInstallation(h, j)
  BY OnlyCommitsMoveFacts DEF facts, AddPackageVersion, SavePackageVersion,
                              SwitchProjectDomainLock
<1>2. ASSUME NEW j \in InstallationIds, AddInstallation(h, j) PROVE FALSE
  <2>1. /\ installations[j] = None
        /\ \A q \in InstallationIds : q # j => installationAudit'[q] = installationAudit[q]
    BY <1>2, AddedInstallation
  <2> QED BY <2>1
<1>3. SaveInstallation(h)
  BY <1>1, <1>2
<1>4. PICK s \in InstallationIds, t \in InstallationStates :
        /\ handler[h].request = [kind |-> "governInstallation", subject |-> s,
                                 argument |-> t]
        /\ installationAudit[s] \in Seq(InstallationStates)
        /\ installationAudit'[s] = Append(installationAudit[s], t)
        /\ \A q \in InstallationIds : q # s => installationAudit'[q] = installationAudit[q]
  BY <1>3, SavedInstallation
<1>5. s = i /\ s = handler[h].request.subject
  BY <1>4
<1>6. n = Len(installationAudit[s]) + 1 /\ installationAudit'[s][n] = t
  BY <1>4, <1>5, AppendExtends
<1>7. [request |-> handler[h].request, key |-> handler[h].key, resource |-> s]
        \in idempotency'
  BY <1>3, <1>5 DEF SaveInstallation, AddIdempotency
<1> QED BY <1>4, <1>5, <1>6, <1>7

LEMMA NewLocksAreKeyed ==
  ASSUME TypeOK, [Next]_vars, NEW l \in LockIds, locks[l] = None, locks'[l] # None
  PROVE  \E b \in idempotency' :
           /\ b.request = [kind |-> "switch", subject |-> locks'[l].project,
                           argument |-> locks'[l].installation]
           /\ b.resource = l
<1>1. PICK h \in Handlers, k \in LockIds : SwitchProjectDomainLock(h, k)
  BY OnlyCommitsMoveFacts DEF facts, AddPackageVersion, SavePackageVersion,
                              AddInstallation, SaveInstallation
<1>2. /\ handler[h].request = [kind |-> "switch", subject |-> locks'[k].project,
                               argument |-> locks'[k].installation]
      /\ \A q \in LockIds : q # k /\ locks'[q] # None => locks[q] # None
  BY <1>1, SwitchedLock
<1>3. k = l
  BY <1>2
<1>4. [request |-> handler[h].request, key |-> handler[h].key, resource |-> k]
        \in idempotency'
  BY <1>1 DEF SwitchProjectDomainLock, AddIdempotency
<1> QED BY <1>2, <1>3, <1>4

LEMMA EffectsStep ==
  ASSUME TypeOK, AuditsReachTheState, BindsCameAbout, EffectsAreKeyed, [Next]_vars
  PROVE  EffectsAreKeyed'
<1>1. FactsOnlyAdvance
  BY StepsOnlyAdvance
<1>2. idempotency \subseteq idempotency'
  BY CommitsRecord, OnlyCommitsMoveKeys DEF Records, AddIdempotency
<1>3. /\ \A pv \in PackageVersions : Extends(packageAudit'[pv], packageAudit[pv])
      /\ \A i \in InstallationIds : Extends(installationAudit'[i], installationAudit[i])
  BY AuditsOnlyGrow
<1>4. ASSUME NEW pv \in PackageVersions, packages'[pv] # None
      PROVE  \E b \in idempotency' :
               /\ b.request = [kind |-> "register", subject |-> pv,
                               argument |-> packages'[pv].content]
               /\ b.resource = pv
  <2>1. CASE packages[pv] # None
    <3>1. packages'[pv].content = packages[pv].content
      BY <1>1, <2>1 DEF FactsOnlyAdvance
    <3>2. \E b \in idempotency :
            /\ b.request = [kind |-> "register", subject |-> pv,
                            argument |-> packages[pv].content]
            /\ b.resource = pv
      BY <2>1 DEF EffectsAreKeyed
    <3> QED BY <1>2, <3>1, <3>2
  <2> QED BY <1>4, <2>1, NewPackagesAreKeyed
<1>5. ASSUME NEW pv \in PackageVersions, packages'[pv] # None,
             NEW n \in 2..Len(packageAudit'[pv])
      PROVE  \E b \in idempotency' :
               /\ b.request = [kind |-> "governPackage", subject |-> pv,
                               argument |-> packageAudit'[pv][n]]
               /\ b.resource = pv
  <2>1. Len(packageAudit[pv]) \in Nat /\ Extends(packageAudit'[pv], packageAudit[pv])
    BY <1>3 DEF TypeOK
  <2>2. packages[pv] # None
    <3> SUFFICES ASSUME packages[pv] = None PROVE FALSE
      OBVIOUS
    <3>1. Len(packageAudit[pv]) = 0
      BY DEF AuditsReachTheState
    <3>2. Len(packageAudit'[pv]) \in {0, 1}
      BY <2>1, <3>1 DEF Extends
    <3>3. \A m \in {0, 1} : 2..m = {}
      OBVIOUS
    <3> QED BY <3>2, <3>3
  <2>3. CASE n \in 1..Len(packageAudit[pv])
    <3>1. packageAudit'[pv][n] = packageAudit[pv][n] /\ n \in 2..Len(packageAudit[pv])
      BY <2>1, <2>3 DEF Extends
    <3>2. \E b \in idempotency :
            /\ b.request = [kind |-> "governPackage", subject |-> pv,
                            argument |-> packageAudit[pv][n]]
            /\ b.resource = pv
      BY <2>2, <3>1 DEF EffectsAreKeyed
    <3> QED BY <1>2, <3>1, <3>2
  <2>4. CASE n \notin 1..Len(packageAudit[pv])
    <3>1. n \in 1..Len(packageAudit'[pv])
      BY <2>1 DEF Extends
    <3> QED BY <2>2, <2>4, <3>1, PackageEventsAreKeyed
  <2> QED BY <2>3, <2>4
<1>6. ASSUME NEW i \in InstallationIds, installations'[i] # None
      PROVE  \E b \in idempotency' :
               /\ b.request = [kind |-> "install", subject |-> installations'[i].root,
                               argument |-> installations'[i].organization]
               /\ b.resource = i
  <2>1. CASE installations[i] # None
    <3>1. /\ installations'[i].root = installations[i].root
          /\ installations'[i].organization = installations[i].organization
      BY <1>1, <2>1 DEF FactsOnlyAdvance
    <3>2. \E b \in idempotency :
            /\ b.request = [kind |-> "install", subject |-> installations[i].root,
                            argument |-> installations[i].organization]
            /\ b.resource = i
      BY <2>1 DEF EffectsAreKeyed
    <3> QED BY <1>2, <3>1, <3>2
  <2> QED BY <1>6, <2>1, NewInstallationsAreKeyed
<1>7. ASSUME NEW i \in InstallationIds, installations'[i] # None,
             NEW n \in 2..Len(installationAudit'[i])
      PROVE  \E b \in idempotency' :
               /\ b.request = [kind |-> "governInstallation", subject |-> i,
                               argument |-> installationAudit'[i][n]]
               /\ b.resource = i
  <2>1. /\ Len(installationAudit[i]) \in Nat
        /\ Extends(installationAudit'[i], installationAudit[i])
    BY <1>3 DEF TypeOK
  <2>2. installations[i] # None
    <3> SUFFICES ASSUME installations[i] = None PROVE FALSE
      OBVIOUS
    <3>1. Len(installationAudit[i]) = 0
      BY DEF AuditsReachTheState
    <3>2. Len(installationAudit'[i]) \in {0, 1}
      BY <2>1, <3>1 DEF Extends
    <3>3. \A m \in {0, 1} : 2..m = {}
      OBVIOUS
    <3> QED BY <3>2, <3>3
  <2>3. CASE n \in 1..Len(installationAudit[i])
    <3>1. /\ installationAudit'[i][n] = installationAudit[i][n]
          /\ n \in 2..Len(installationAudit[i])
      BY <2>1, <2>3 DEF Extends
    <3>2. \E b \in idempotency :
            /\ b.request = [kind |-> "governInstallation", subject |-> i,
                            argument |-> installationAudit[i][n]]
            /\ b.resource = i
      BY <2>2, <3>1 DEF EffectsAreKeyed
    <3> QED BY <1>2, <3>1, <3>2
  <2>4. CASE n \notin 1..Len(installationAudit[i])
    <3>1. n \in 1..Len(installationAudit'[i])
      BY <2>1 DEF Extends
    <3> QED BY <2>2, <2>4, <3>1, InstallationEventsAreKeyed
  <2> QED BY <2>3, <2>4
<1>8. ASSUME NEW l \in LockIds, locks'[l] # None
      PROVE  \E b \in idempotency' :
               /\ b.request = [kind |-> "switch", subject |-> locks'[l].project,
                               argument |-> locks'[l].installation]
               /\ b.resource = l
  <2>1. CASE locks[l] # None
    <3>1. /\ locks'[l].project = locks[l].project
          /\ locks'[l].installation = locks[l].installation
      BY <1>1, <2>1 DEF FactsOnlyAdvance
    <3>2. \E b \in idempotency :
            /\ b.request = [kind |-> "switch", subject |-> locks[l].project,
                            argument |-> locks[l].installation]
            /\ b.resource = l
      BY <2>1 DEF EffectsAreKeyed
    <3> QED BY <1>2, <3>1, <3>2
  <2> QED BY <1>8, <2>1, NewLocksAreKeyed
<1> QED BY <1>4, <1>5, <1>6, <1>7, <1>8 DEF EffectsAreKeyed

-------------------------------------------------------------------------------
(* Installations and Organizations. *)

LEMMA NoDuplicateStep ==
  ASSUME TypeOK, NoDuplicateInstallation, [Next]_vars
  PROVE  NoDuplicateInstallation'
<1>1. FactsOnlyAdvance
  BY StepsOnlyAdvance
<1>2. CASE \A i \in InstallationIds : installations'[i] # None => installations[i] # None
  BY <1>1, <1>2 DEF NoDuplicateInstallation, FactsOnlyAdvance
<1>3. ASSUME NEW h \in Handlers, NEW i \in InstallationIds, AddInstallation(h, i)
      PROVE  NoDuplicateInstallation'
  <2>1. /\ \A other \in InstallationIds : other # i =>
             installations'[other] = installations[other]
        /\ \A other \in InstallationIds :
             ~SameLock(other, handler[h].request, handler[h].refs)
        /\ installations'[i].organization = handler[h].request.argument
        /\ installations'[i].root = handler[h].request.subject
        /\ installations'[i].refs = handler[h].refs
    BY <1>3, AddedInstallation
  <2>2. \A other \in InstallationIds :
          \/ installations[other] = None
          \/ installations[other].organization # installations'[i].organization
          \/ installations[other].root # installations'[i].root
          \/ installations[other].refs # installations'[i].refs
    BY <2>1 DEF SameLock
  <2> QED BY <2>1, <2>2 DEF NoDuplicateInstallation
<1>4. ASSUME NEW h \in Handlers, SaveInstallation(h)
      PROVE  \A i \in InstallationIds : installations'[i] # None => installations[i] # None
  <2>1. PICK s \in InstallationIds :
          /\ installations[s] # None
          /\ \A i \in InstallationIds : i # s => installations'[i] = installations[i]
    BY <1>4, SavedInstallation
  <2> QED BY <2>1
<1>5. ASSUME UNCHANGED installations
      PROVE  \A i \in InstallationIds : installations'[i] # None => installations[i] # None
  BY <1>5
<1> QED BY <1>2, <1>3, <1>4, <1>5, OnlyCommitsMoveFacts
        DEF facts, AddPackageVersion, SavePackageVersion, SwitchProjectDomainLock

LEMMA TenantsStep ==
  ASSUME TypeOK, ChecksOutliveTheirRead, TenantsStayApart, [Next]_vars
  PROVE  TenantsStayApart'
<1>1. FactsOnlyAdvance /\ TypeOK'
  BY StepsOnlyAdvance, TypeStep
<1>2. ASSUME NEW i \in InstallationIds, installations'[i] # None,
             NEW pv \in installations'[i].refs
      PROVE  packages'[pv] # None /\ Owner[pv] \in {Platform, installations'[i].organization}
  <2>1. pv \in PackageVersions
    BY <1>1, <1>2 DEF TypeOK, InstallationRows
  <2>2. CASE installations[i] # None
    <3>1. packages[pv] # None /\ Owner[pv] \in {Platform, installations[i].organization}
      BY <1>1, <1>2, <2>2 DEF TenantsStayApart, FactsOnlyAdvance
    <3> QED BY <1>1, <2>1, <2>2, <3>1 DEF FactsOnlyAdvance
  <2>3. CASE installations[i] = None
    <3>1. \E h \in Handlers :
            SaveInstallation(h) \/ \E j \in InstallationIds : AddInstallation(h, j)
      BY <1>2, <2>3, OnlyCommitsMoveFacts
         DEF facts, AddPackageVersion, SavePackageVersion, SwitchProjectDomainLock
    <3>2. ASSUME NEW h \in Handlers, SaveInstallation(h) PROVE FALSE
      <4>1. PICK s \in InstallationIds :
              /\ installations[s] # None
              /\ \A j \in InstallationIds : j # s => installations'[j] = installations[j]
        BY <3>2, SavedInstallation
      <4> QED BY <1>2, <2>3, <4>1
    <3>3. ASSUME NEW h \in Handlers, NEW j \in InstallationIds, AddInstallation(h, j)
          PROVE  /\ packages'[pv] # None
                 /\ Owner[pv] \in {Platform, installations'[i].organization}
      <4>1. /\ handler[h] # Idle
            /\ handler[h].request.kind = "install"
            /\ installations'[j].refs = handler[h].refs
            /\ installations'[j].organization = handler[h].request.argument
            /\ \A q \in InstallationIds : q # j => installations'[q] = installations[q]
            /\ UNCHANGED packages
        BY <3>3, AddedInstallation
      <4>2. i = j
        BY <1>2, <2>3, <4>1
      <4>3. packages[pv] # None /\ VisibleForOrganization(pv, handler[h].request.argument)
        BY <1>2, <4>1, <4>2 DEF ChecksOutliveTheirRead, Backed, BackedInstall
      <4> QED BY <4>1, <4>2, <4>3 DEF VisibleForOrganization
    <3> QED BY <3>1, <3>2, <3>3
  <2> QED BY <2>2, <2>3
<1>3. ASSUME NEW l \in LockIds, locks'[l] # None
      PROVE  /\ installations'[locks'[l].installation] # None
             /\ installations'[locks'[l].installation].organization
                  = OrganizationOf[locks'[l].project]
  <2>1. locks'[l].installation \in InstallationIds
    BY <1>1, <1>3 DEF TypeOK, LockRows
  <2>2. CASE locks[l] # None
    <3>1. /\ locks'[l].installation = locks[l].installation
          /\ locks'[l].project = locks[l].project
      BY <1>1, <2>2 DEF FactsOnlyAdvance
    <3>2. /\ installations[locks[l].installation] # None
          /\ installations[locks[l].installation].organization
               = OrganizationOf[locks[l].project]
      BY <2>2 DEF TenantsStayApart
    <3> QED BY <1>1, <2>1, <3>1, <3>2 DEF FactsOnlyAdvance
  <2>3. CASE locks[l] = None
    <3>1. PICK h \in Handlers, k \in LockIds : SwitchProjectDomainLock(h, k)
      BY <1>3, <2>3, OnlyCommitsMoveFacts
         DEF facts, AddPackageVersion, SavePackageVersion, AddInstallation, SaveInstallation
    <3>2. /\ handler[h] # Idle
          /\ handler[h].request.kind = "switch"
          /\ locks'[k].project = handler[h].request.subject
          /\ locks'[k].installation = handler[h].request.argument
          /\ \A q \in LockIds : q # k /\ locks'[q] # None => locks[q] # None
          /\ UNCHANGED installations
      BY <3>1, SwitchedLock
    <3>3. k = l
      BY <1>3, <2>3, <3>2
    <3>4. /\ installations[handler[h].request.argument] # None
          /\ installations[handler[h].request.argument].organization
               = OrganizationOf[handler[h].request.subject]
      BY <3>2 DEF ChecksOutliveTheirRead, Backed, BackedSwitch
    <3> QED BY <3>2, <3>3, <3>4
  <2> QED BY <2>2, <2>3
<1> QED BY <1>2, <1>3 DEF TenantsStayApart

-------------------------------------------------------------------------------
(* What is new in a handler was good when it was read; whatever else it       *)
(* holds, it held before.                                                     *)

StillGood(work) ==
  /\ work.request.kind = "install" => \A pv \in work.refs : Registered(pv)
  /\ work.request.kind = "switch" =>
       /\ installations[work.request.argument].state = "INSTALLED_DISABLED"
       /\ Healthy(installations[work.request.argument].refs)
  /\ /\ work.request.kind = "governInstallation"
     /\ work.step = "commit"
     /\ work.request.argument = "LOGICALLY_UNINSTALLED"
     => ~CurrentLockExistsFor(work.request.subject)

LEMMA HoldStillGood ==
  ASSUME TypeOK, NEW h \in Handlers, NEW step, NEW kind, NEW subject, NEW argument,
         NEW key, NEW expected, NEW refs, NEW resource,
         Hold(h, step, [kind |-> kind, subject |-> subject, argument |-> argument],
              key, expected, refs, resource),
         kind = "install" => \A pv \in refs : Registered(pv),
         kind = "switch" =>
           /\ installations[argument].state = "INSTALLED_DISABLED"
           /\ Healthy(installations[argument].refs),
         kind = "governInstallation" /\ step = "commit" /\ argument = "LOGICALLY_UNINSTALLED"
           => ~CurrentLockExistsFor(subject)
  PROVE  \A work : work = handler'[h] => StillGood(work)
<1> DEFINE held == [step |-> step,
                    request |-> [kind |-> kind, subject |-> subject, argument |-> argument],
                    key |-> key, expected |-> expected, refs |-> refs, resource |-> resource]
<1>1. handler'[h] = held
  BY DEF TypeOK, Hold
<1>2. /\ held.step = step /\ held.refs = refs
      /\ held.request.kind = kind /\ held.request.subject = subject
      /\ held.request.argument = argument
  OBVIOUS
<1> HIDE DEF held
<1> QED BY <1>1, <1>2 DEF StillGood

LEMMA BeginsAreGood ==
  ASSUME TypeOK, NEW h \in Handlers, Receive(h)
  PROVE  \A work : work = handler'[h] => StillGood(work)
<1>1. ASSUME NEW pv, NEW content, NEW key, BeginRegister(h, pv, content, key)
      PROVE  \A work : work = handler'[h] => StillGood(work)
  BY <1>1, HoldStillGood DEF BeginRegister
<1>2. ASSUME NEW pv, NEW target, NEW key, NEW expected,
             BeginGovernPackage(h, pv, target, key, expected)
      PROVE  \A work : work = handler'[h] => StillGood(work)
  BY <1>2, HoldStillGood DEF BeginGovernPackage
<1>3. ASSUME NEW root, NEW organization, NEW key, NEW refs,
             BeginInstall(h, root, organization, key, refs)
      PROVE  \A work : work = handler'[h] => StillGood(work)
  BY <1>3, HoldStillGood DEF BeginInstall
<1>4. ASSUME NEW i, NEW target, NEW key, NEW expected,
             BeginGovernInstallation(h, i, target, key, expected)
      PROVE  \A work : work = handler'[h] => StillGood(work)
  BY <1>4, HoldStillGood DEF BeginGovernInstallation
<1>5. ASSUME NEW p, NEW i, NEW key, BeginSwitch(h, p, i, key)
      PROVE  \A work : work = handler'[h] => StillGood(work)
  BY <1>5, HoldStillGood DEF BeginSwitch
<1> QED BY <1>1, <1>2, <1>3, <1>4, <1>5 DEF Receive

SwitchesAreReal ==
  \A h \in Handlers : handler[h] # Idle /\ handler[h].request.kind = "switch"
    => installations[handler[h].request.argument] # None

Keeps(h) ==
  /\ handler[h] # Idle
  /\ handler'[h].request = handler[h].request
  /\ handler'[h].refs \subseteq handler[h].refs

Begins(h) ==
  /\ UNCHANGED facts
  /\ \A work : work = handler'[h] =>
       /\ StillGood(work)
       /\ work.request.kind = "switch" => installations[work.request.argument] # None

LEMMA ReceiveBegins ==
  ASSUME TypeOK, NEW h \in Handlers, Receive(h)
  PROVE  Begins(h)
<1>1. \A work : work = handler'[h] /\ work.request.kind = "switch" =>
        installations[work.request.argument] # None
  <2> DEFINE Real == \A work : work = handler'[h] /\ work.request.kind = "switch" =>
        installations[work.request.argument] # None
  <2>1. ASSUME NEW step, NEW kind, NEW subject, NEW argument, NEW key, NEW expected,
               NEW refs, NEW resource,
               Hold(h, step, [kind |-> kind, subject |-> subject, argument |-> argument],
                    key, expected, refs, resource),
               kind = "switch" => installations[argument] # None
        PROVE  Real
    BY <2>1 DEF TypeOK, Hold
  <2>2. ASSUME NEW pv, NEW content, NEW key, BeginRegister(h, pv, content, key)
        PROVE  Real
    BY <2>1, <2>2 DEF BeginRegister
  <2>3. ASSUME NEW pv, NEW target, NEW key, NEW expected,
               BeginGovernPackage(h, pv, target, key, expected)
        PROVE  Real
    BY <2>1, <2>3 DEF BeginGovernPackage
  <2>4. ASSUME NEW root, NEW organization, NEW key, NEW refs,
               BeginInstall(h, root, organization, key, refs)
        PROVE  Real
    BY <2>1, <2>4 DEF BeginInstall
  <2>5. ASSUME NEW i, NEW target, NEW key, NEW expected,
               BeginGovernInstallation(h, i, target, key, expected)
        PROVE  Real
    BY <2>1, <2>5 DEF BeginGovernInstallation
  <2>6. ASSUME NEW p, NEW i, NEW key, BeginSwitch(h, p, i, key)
        PROVE  Real
    BY <2>1, <2>6 DEF BeginSwitch
  <2> QED BY <2>2, <2>3, <2>4, <2>5, <2>6 DEF Receive
<1> QED BY <1>1, BeginsAreGood, BeginKeepsFacts DEF Begins

LEMMA ReadsKeep ==
  ASSUME TypeOK, NEW h \in Handlers,
         LookUpInstallation(h) \/ CheckNoCurrentLock(h) \/ ReadCurrentLock(h)
  PROVE  Keeps(h)
<1>1. handler[h] # Idle
  BY DEF LookUpInstallation, CheckNoCurrentLock, ReadCurrentLock, At
<1>2. ASSUME NEW step, NEW key, NEW expected, NEW refs, NEW resource,
             refs \subseteq handler[h].refs,
             Hold(h, step, handler[h].request, key, expected, refs, resource)
      PROVE  Keeps(h)
  BY <1>1, <1>2 DEF TypeOK, Hold, Keeps
<1> QED BY <1>2 DEF LookUpInstallation, CheckNoCurrentLock, ReadCurrentLock

(* A step moves the work of one handler. *)
LEMMA OthersHold ==
  ASSUME TypeOK, NEW h \in Handlers, NEW g \in Handlers, h # g,
         Receive(h) \/ Continue(h) \/ Abandon(h)
  PROVE  handler'[g] = handler[g]
<1>1. \A step, request, key, expected, refs, resource :
        Hold(h, step, request, key, expected, refs, resource) => handler'[g] = handler[g]
  BY DEF Hold, TypeOK
<1>2. Finish(h) => handler'[g] = handler[g]
  BY DEF Finish, TypeOK
<1>3. ASSUME Receive(h) PROVE handler'[g] = handler[g]
  <2>1. \A pv, content, key : BeginRegister(h, pv, content, key) => handler'[g] = handler[g]
    BY <1>1 DEF BeginRegister
  <2>2. \A pv, target, key, expected :
          BeginGovernPackage(h, pv, target, key, expected) => handler'[g] = handler[g]
    BY <1>1 DEF BeginGovernPackage
  <2>3. \A root, organization, key, refs :
          BeginInstall(h, root, organization, key, refs) => handler'[g] = handler[g]
    BY <1>1 DEF BeginInstall
  <2>4. \A i, target, key, expected :
          BeginGovernInstallation(h, i, target, key, expected) => handler'[g] = handler[g]
    BY <1>1 DEF BeginGovernInstallation
  <2>5. \A p, i, key : BeginSwitch(h, p, i, key) => handler'[g] = handler[g]
    BY <1>1 DEF BeginSwitch
  <2> QED BY <1>3, <2>1, <2>2, <2>3, <2>4, <2>5 DEF Receive
<1>4. ASSUME LookUpInstallation(h) \/ CheckNoCurrentLock(h) \/ ReadCurrentLock(h)
      PROVE  handler'[g] = handler[g]
  BY <1>1, <1>4 DEF LookUpInstallation, CheckNoCurrentLock, ReadCurrentLock
<1>5. Bind(h) \/ Commits(h) \/ Abandon(h) => Finish(h)
  BY DEF Commits, Bind, AddPackageVersion, SavePackageVersion, AddInstallation,
         SaveInstallation, SwitchProjectDomainLock, Abandon
<1> QED BY <1>2, <1>3, <1>4, <1>5 DEF Continue, Commits

(* Where what a handler holds after a step comes from. *)
LEMMA WorkComesFrom ==
  ASSUME TypeOK, [Next]_vars, NEW g \in Handlers, handler'[g] # Idle
  PROVE  Keeps(g) \/ Begins(g)
<1>1. CASE handler'[g] = handler[g]
  BY <1>1 DEF Keeps
<1>2. ASSUME NEW h \in Handlers, Receive(h) PROVE Keeps(g) \/ Begins(g)
  BY <1>1, <1>2, OthersHold, ReceiveBegins
<1>3. ASSUME NEW h \in Handlers,
             LookUpInstallation(h) \/ CheckNoCurrentLock(h) \/ ReadCurrentLock(h)
      PROVE  Keeps(g) \/ Begins(g)
  BY <1>1, <1>3, OthersHold, ReadsKeep DEF Continue
<1>4. ASSUME NEW h \in Handlers, Finish(h) PROVE Keeps(g) \/ Begins(g)
  BY <1>1, <1>4 DEF Finish, TypeOK
<1>5. \A h \in Handlers : Bind(h) \/ Commits(h) \/ Abandon(h) => Finish(h)
  BY DEF Commits, Bind, AddPackageVersion, SavePackageVersion, AddInstallation,
         SaveInstallation, SwitchProjectDomainLock, Abandon
<1>6. \A scope \in ArchivableScopes : ArchiveScope(scope) => handler'[g] = handler[g]
  BY DEF ArchiveScope
<1>7. CASE UNCHANGED vars
  BY <1>1, <1>7 DEF vars
<1> QED BY <1>1, <1>2, <1>3, <1>4, <1>5, <1>6, <1>7 DEF Next, Continue, Commits

LEMMA SwitchesStep ==
  ASSUME TypeOK, SwitchesAreReal, [Next]_vars
  PROVE  SwitchesAreReal'
<1> SUFFICES ASSUME NEW g \in Handlers, handler'[g] # Idle,
                    handler'[g].request.kind = "switch"
             PROVE  installations'[handler'[g].request.argument] # None
  BY DEF SwitchesAreReal
<1>1. installations[handler'[g].request.argument] # None
  BY WorkComesFrom DEF Keeps, Begins, SwitchesAreReal
<1>2. handler'[g].request \in Requests
  BY TypeStep DEF TypeOK, Work
<1>3. handler'[g].request.argument \in InstallationIds
  BY <1>2, RequestType
<1> QED BY <1>1, <1>3, StepsOnlyAdvance DEF FactsOnlyAdvance

(* Once a row has left its first state, it does not come back to it. *)
LEMMA FirstStatesAreLeft ==
  ASSUME TypeOK, [Next]_vars
  PROVE  /\ \A pv \in PackageVersions :
              packages[pv] # None /\ packages[pv].state # "REGISTERED_VALIDATED" =>
                packages'[pv] # None /\ packages'[pv].state # "REGISTERED_VALIDATED"
         /\ \A i \in InstallationIds :
              installations[i] # None /\ installations[i].state # "INSTALLED_DISABLED" =>
                installations'[i] # None /\ installations'[i].state # "INSTALLED_DISABLED"
<1>1. FactsOnlyAdvance
  BY StepsOnlyAdvance
<1>2. ASSUME NEW pv \in PackageVersions, packages[pv] # None,
             packages[pv].state # "REGISTERED_VALIDATED"
      PROVE  packages'[pv].state # "REGISTERED_VALIDATED"
  <2>1. CASE packages'[pv] = packages[pv]
    BY <1>2, <2>1
  <2>2. ASSUME NEW h \in Handlers, AddPackageVersion(h) PROVE packages'[pv] = packages[pv]
    BY <1>2, <2>2 DEF AddPackageVersion, TypeOK
  <2>3. ASSUME NEW h \in Handlers, SavePackageVersion(h)
        PROVE  packages'[pv].state # "REGISTERED_VALIDATED"
    <3>1. \/ packages'[pv] = packages[pv]
          \/ packages'[pv].state = handler[h].request.argument
      BY <2>3 DEF SavePackageVersion, TypeOK
    <3>2. handler[h].request.argument \in RegistryTargets
      BY <2>3, BusyType, RequestType DEF SavePackageVersion, At
    <3> QED BY <2>1, <3>1, <3>2, ConstantsAssumption
  <2> QED BY <2>1, <2>2, <2>3, OnlyCommitsMoveFacts
          DEF facts, AddInstallation, SaveInstallation, SwitchProjectDomainLock
<1>3. ASSUME NEW i \in InstallationIds, installations[i] # None,
             installations[i].state # "INSTALLED_DISABLED"
      PROVE  installations'[i].state # "INSTALLED_DISABLED"
  <2>1. CASE installations'[i] = installations[i]
    BY <1>3, <2>1
  <2>2. ASSUME NEW h \in Handlers, NEW j \in InstallationIds, AddInstallation(h, j)
        PROVE  installations'[i] = installations[i]
    BY <1>3, <2>2, AddedInstallation
  <2>3. ASSUME NEW h \in Handlers, SaveInstallation(h)
        PROVE  installations'[i].state # "INSTALLED_DISABLED"
    <3>1. \/ installations'[i] = installations[i]
          \/ installations'[i].state = handler[h].request.argument
      BY <2>3 DEF SaveInstallation, TypeOK
    <3>2. handler[h].request.argument \in InstallationTargets
      BY <2>3, BusyType, RequestType DEF SaveInstallation, At
    <3> QED BY <2>1, <3>1, <3>2, ConstantsAssumption
  <2> QED BY <2>1, <2>2, <2>3, OnlyCommitsMoveFacts
          DEF facts, AddPackageVersion, SavePackageVersion, SwitchProjectDomainLock
<1> QED BY <1>1, <1>2, <1>3 DEF FactsOnlyAdvance

(* New rows are those of the request that commits them. *)
LEMMA NewRowsAreUsed ==
  ASSUME TypeOK, [Next]_vars
  PROVE  /\ \A i \in NewInstallations : \E h \in Handlers :
              \A pv \in installations'[i].refs : Uses(h, pv)
         /\ \A l \in NewLocks : \E h \in Handlers :
              /\ SwitchesTo(h, locks'[l].installation)
              /\ \A pv \in installations[locks'[l].installation].refs : Uses(h, pv)
<1>1. ASSUME NEW i \in NewInstallations
      PROVE  \E h \in Handlers : \A pv \in installations'[i].refs : Uses(h, pv)
  <2>1. i \in InstallationIds /\ installations[i] = None /\ installations'[i] # None
    BY DEF NewInstallations
  <2>2. ASSUME NEW h \in Handlers, SaveInstallation(h) PROVE FALSE
    BY <2>1, <2>2, SavedInstallation
  <2>3. PICK h \in Handlers, j \in InstallationIds : AddInstallation(h, j)
    BY <2>1, <2>2, OnlyCommitsMoveFacts
       DEF facts, AddPackageVersion, SavePackageVersion, SwitchProjectDomainLock
  <2>4. /\ handler[h] # Idle
        /\ handler[h].request.kind = "install"
        /\ installations'[i].refs = handler[h].refs
    BY <2>1, <2>3, AddedInstallation
  <2> QED BY <2>4 DEF Uses
<1>2. ASSUME NEW l \in NewLocks
      PROVE  \E h \in Handlers :
               /\ SwitchesTo(h, locks'[l].installation)
               /\ \A pv \in installations[locks'[l].installation].refs : Uses(h, pv)
  <2>1. l \in LockIds /\ locks[l] = None /\ locks'[l] # None
    BY DEF NewLocks
  <2>2. PICK h \in Handlers, k \in LockIds : SwitchProjectDomainLock(h, k)
    BY <2>1, OnlyCommitsMoveFacts
       DEF facts, AddPackageVersion, SavePackageVersion, AddInstallation, SaveInstallation
  <2>3. /\ handler[h] # Idle
        /\ handler[h].request.kind = "switch"
        /\ locks'[l].installation = handler[h].request.argument
    BY <2>1, <2>2, SwitchedLock
  <2> QED BY <2>3 DEF SwitchesTo, Uses
<1> QED BY <1>1, <1>2

LEMMA OutOfUseStays ==
  ASSUME TypeOK, SwitchesAreReal, [Next]_vars, NEW pv \in PackageVersions, OutOfUse(pv)
  PROVE  OutOfUse(pv)'
<1> SUFFICES ASSUME NEW g \in Handlers, Uses(g, pv)' PROVE FALSE
  BY FirstStatesAreLeft DEF OutOfUse
<1>1. handler'[g] # Idle
  BY DEF Uses
<1>2. CASE Keeps(g)
  <2>1. handler[g].request.argument \in InstallationIds \/ handler[g].request.kind # "switch"
    BY <1>2, BusyType, RequestType DEF Keeps
  <2>2. handler[g].request.kind = "switch" =>
          installations'[handler[g].request.argument].refs
            = installations[handler[g].request.argument].refs
    BY <1>2, <2>1, StepsOnlyAdvance DEF FactsOnlyAdvance, SwitchesAreReal, Keeps
  <2>3. Uses(g, pv)
    BY <1>2, <2>2 DEF Uses, Keeps
  <2> QED BY <2>3 DEF OutOfUse
<1>3. CASE Begins(g)
  <2>1. UNCHANGED installations /\ StillGood(handler'[g])
    BY <1>3 DEF Begins, facts
  <2>2. Registered(pv)
    BY <2>1 DEF StillGood, Healthy, Uses
  <2> QED BY <2>2 DEF OutOfUse, Registered
<1> QED BY <1>1, <1>2, <1>3, WorkComesFrom

LEMMA RetiredStays ==
  ASSUME TypeOK, [Next]_vars, NEW i \in InstallationIds, Retired(i)
  PROVE  Retired(i)'
<1> SUFFICES ASSUME NEW g \in Handlers, SwitchesTo(g, i)' PROVE FALSE
  BY FirstStatesAreLeft DEF Retired
<1>1. handler'[g] # Idle /\ handler'[g].request.kind = "switch" /\ handler'[g].request.argument = i
  BY DEF SwitchesTo
<1>2. ~Keeps(g)
  BY <1>1 DEF Keeps, Retired, SwitchesTo
<1>3. installations[i].state = "INSTALLED_DISABLED"
  BY <1>1, <1>2, WorkComesFrom DEF Begins, StillGood
<1> QED BY <1>3 DEF Retired

(* The transition to LOGICALLY_UNINSTALLED asks for CURRENT locks before its  *)
(* commit.                                                                    *)
LEMMA ProtectionStep ==
  ASSUME TypeOK, [Next]_vars, NEW i \in InstallationIds, InUse(i), Protected(i)
  PROVE  Protected(i)'
<1>1. installations'[i] # None
  BY StepsOnlyAdvance DEF FactsOnlyAdvance, Protected
<1>2. installations'[i].state # "LOGICALLY_UNINSTALLED"
  <2>1. CASE installations'[i] = installations[i]
    BY <2>1 DEF Protected
  <2>2. ASSUME NEW h \in Handlers, NEW j \in InstallationIds, AddInstallation(h, j)
        PROVE  installations'[i] = installations[i]
    BY <2>2, AddedInstallation DEF Protected
  <2>3. ASSUME NEW h \in Handlers, SaveInstallation(h)
        PROVE  installations'[i].state # "LOGICALLY_UNINSTALLED"
    <3>1. PICK s \in InstallationIds, t \in InstallationStates :
            /\ handler[h] # Idle
            /\ handler[h].request = [kind |-> "governInstallation", subject |-> s,
                                     argument |-> t]
            /\ installations[s] # None
            /\ installations'[s] # None
            /\ installations'[s].state = t
            /\ \A j \in InstallationIds : j # s => /\ installations'[j] = installations[j]
                                                   /\ installationAudit'[j] = installationAudit[j]
      <4>1. TypeOK /\ SaveInstallation(h)
        BY <2>3
      <4> HIDE ConstantsAssumption
      <4> QED BY <4>1, SavedInstallation, ZenonT(60)
    <3>2. At(h, "commit", "governInstallation")
      BY <2>3 DEF SaveInstallation
    <3>3. s = i => t # "LOGICALLY_UNINSTALLED"
      BY <3>1, <3>2 DEF Protected, UninstallDecided
    <3> QED BY <2>1, <3>1, <3>3
  <2> QED BY <2>1, <2>2, <2>3, OnlyCommitsMoveFacts
          DEF facts, AddPackageVersion, SavePackageVersion, SwitchProjectDomainLock
<1>3. ASSUME NEW g \in Handlers, UninstallDecided(g, i)'
      PROVE  FALSE
  <2>1. CurrentLockExistsFor(i) /\ ~UninstallDecided(g, i)
    BY DEF InUse, CurrentLockExistsFor, Protected
  <2>2. CASE handler'[g] = handler[g]
    BY <1>3, <2>1, <2>2 DEF UninstallDecided, At
  <2>3. ASSUME \A work : work = handler'[g] => StillGood(work)
        PROVE  FALSE
    BY <1>3, <2>1, <2>3 DEF UninstallDecided, At, StillGood
  <2>4. CASE Receive(g)
    BY <2>3, <2>4, BeginsAreGood
  <2>5. CASE CheckNoCurrentLock(g)
    <3>1. /\ ~CurrentLockExistsFor(handler[g].request.subject)
          /\ handler'[g].request = handler[g].request
      BY <2>5 DEF CheckNoCurrentLock, Hold, TypeOK
    <3> QED BY <1>3, <2>1, <3>1 DEF UninstallDecided
  <2>6. CASE LookUpInstallation(g) \/ ReadCurrentLock(g)
    <3>1. /\ handler'[g].request = handler[g].request
          /\ handler[g].request.kind # "governInstallation"
      BY <2>6 DEF LookUpInstallation, ReadCurrentLock, At, Hold, TypeOK
    <3> QED BY <1>3, <3>1 DEF UninstallDecided, At
  <2>7. ~Finish(g)
    BY <1>3 DEF UninstallDecided, At, Finish, TypeOK
  <2>8. \A h \in Handlers : h # g /\ (Receive(h) \/ Continue(h) \/ Abandon(h))
          => handler'[g] = handler[g]
    BY OthersHold
  <2> QED
    BY <2>2, <2>4, <2>5, <2>6, <2>7, <2>8
       DEF Next, Continue, Abandon, Bind, AddPackageVersion, SavePackageVersion,
           AddInstallation, SaveInstallation, SwitchProjectDomainLock, ArchiveScope, vars
<1> QED BY <1>1, <1>2, <1>3 DEF Protected

-------------------------------------------------------------------------------
(* The theorems.  Only the last one needs to know what an If-Match names.     *)

KeyInv ==
  /\ TypeOK
  /\ AuditsReachTheState
  /\ BindsCameAbout
  /\ KeysAnswerForOneRequest
  /\ EffectsAreKeyed
  /\ NoDuplicateInstallation

LEMMA KeyInvariant == Spec => []KeyInv
<1>1. Init => KeyInv
  <2>1. \A S : <<>> \in Seq(S)
    OBVIOUS
  <2> QED BY <2>1 DEF Init, KeyInv, TypeOK, AuditsReachTheState, BindsCameAbout,
                      KeysAnswerForOneRequest, EffectsAreKeyed, NoDuplicateInstallation
<1>2. KeyInv /\ [Next]_vars => KeyInv'
  BY TypeStep, AuditsReachStep, BindsStep, KeysStep, EffectsStep, NoDuplicateStep DEF KeyInv
<1> QED BY <1>1, <1>2, PTL DEF Spec

(* Whatever races, a key is bound once per action, and to a resource for      *)
(* which what its request asks has come about: a retry is told the truth.     *)
THEOREM RetriesAreToldTheTruth == Spec => []KeysAnswerForOneRequest
<1>1. KeyInv => KeysAnswerForOneRequest
  BY DEF KeyInv
<1> QED BY <1>1, KeyInvariant, PTL

(* Every row and every governed state was committed with the record of the    *)
(* key that asked for it: a retry never acts a second time.                   *)
THEOREM NothingIsDoneTwice == Spec => []EffectsAreKeyed
<1>1. KeyInv => EffectsAreKeyed
  BY DEF KeyInv
<1> QED BY <1>1, KeyInvariant, PTL

(* An Organization never has two installations of one dependency lock, even   *)
(* when two requests have both looked for it and found none.                  *)
THEOREM InstallationsAreUnique == Spec => []NoDuplicateInstallation
<1>1. KeyInv => NoDuplicateInstallation
  BY DEF KeyInv
<1> QED BY <1>1, KeyInvariant, PTL

(* Provided no If-Match runs ahead, an Organization never pins package        *)
(* versions of another, nor a Project an installation of another Organization. *)
THEOREM OrganizationsStayApart ==
  ASSUME IfMatchAhead = 0
  PROVE  Spec => []TenantsStayApart
<1>1. Init => TenantsStayApart
  BY DEF Init, TenantsStayApart
<1>2. RegistryInv /\ TenantsStayApart /\ [Next]_vars => TenantsStayApart'
  BY TenantsStep DEF RegistryInv
<1> QED BY <1>1, <1>2, RegistryInvariant, PTL DEF Spec

(* For any number of requests at a time: a CURRENT lock keeps its             *)
(* installation from being uninstalled, but for an uninstall that had asked   *)
(* before the lock was there.                                                 *)
THEOREM LocksProtectInstallations == Spec => CurrentLocksProtect
<1>1. TypeOK /\ [Next]_vars =>
        [\A i \in InstallationIds :
           InUse(i) /\ Protected(i) => Protected(i)']_vars
  BY ProtectionStep
<1> QED BY <1>1, TypeCorrect, PTL DEF Spec, CurrentLocksProtect

(* With any number of requests at a time, what they had read may be committed *)
(* once more after a withdrawal or a revocation; but when those requests are  *)
(* over, the version or the installation is out of use for good.              *)
THEOREM UseComesToAnEnd == Spec => UseSettles
<1>1. Init => SwitchesAreReal
  BY DEF Init, SwitchesAreReal
<1>2. TypeOK /\ SwitchesAreReal /\ [Next]_vars => SwitchesAreReal'
  BY SwitchesStep
<1> DEFINE Settles ==
      /\ \A pv \in PackageVersions : OutOfUse(pv) =>
           /\ OutOfUse(pv)'
           /\ \A i \in NewInstallations : pv \notin installations'[i].refs
           /\ \A l \in NewLocks : pv \notin installations[locks'[l].installation].refs
      /\ \A i \in InstallationIds : Retired(i) =>
           /\ Retired(i)'
           /\ \A l \in NewLocks : locks'[l].installation # i
<1>3. ASSUME TypeOK, SwitchesAreReal, [Next]_vars PROVE Settles
  <2>1. ASSUME NEW pv \in PackageVersions, OutOfUse(pv)
        PROVE  /\ OutOfUse(pv)'
               /\ \A i \in NewInstallations : pv \notin installations'[i].refs
               /\ \A l \in NewLocks : pv \notin installations[locks'[l].installation].refs
    <3>1. \A h \in Handlers : ~Uses(h, pv)
      BY <2>1 DEF OutOfUse
    <3> QED BY <1>3, <2>1, <3>1, OutOfUseStays, NewRowsAreUsed
  <2>2. ASSUME NEW i \in InstallationIds, Retired(i)
        PROVE  /\ Retired(i)'
               /\ \A l \in NewLocks : locks'[l].installation # i
    <3>1. \A h \in Handlers : ~SwitchesTo(h, i)
      BY <2>2 DEF Retired
    <3> QED BY <1>3, <2>2, <3>1, RetiredStays, NewRowsAreUsed
  <2> QED BY <2>1, <2>2
<1>4. TypeOK /\ SwitchesAreReal /\ [Next]_vars => [Settles]_vars
  BY <1>3
<1>5. UseSettles <=> [][Settles]_vars
  BY DEF UseSettles
<1> QED BY <1>1, <1>2, <1>4, <1>5, TypeCorrect, PTL DEF Spec
===============================================================================
