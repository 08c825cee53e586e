--------------------------- MODULE ScenarioLifecycle ---------------------------
(***************************************************************************)
(* The lifecycle of ScenarioPackages: an installation per package version, *)
(* its EnvironmentReleases, and the audit events of both                   *)
(* (ScenarioPackageService over SqlInstallationRepository).                *)
(*                                                                         *)
(* Every repository call is a transaction of its own.  An operation reads  *)
(* the installation, decides, writes the release, and saves a copy of what *)
(* it read, with no version to compare; the audit event follows in yet     *)
(* another transaction.  save() itself first loads the row and then        *)
(* updates the columns that differ from what it loaded, which leaves room  *)
(* for another save in between.                                            *)
(*                                                                         *)
(* An operation that is refused at once leaves no trace and is no step.    *)
(***************************************************************************)
EXTENDS Naturals

CONSTANTS
  Installations,   \* one identity per package version (a bound)
  Environments,
  Permissions,     \* what a manifest may ask for
  BindingRefs,     \* what an installation is bound to: opaque references ...
  ProjectRefs,     \* ... and Projects, which only bind_project may bind
  Handlers,        \* request threads (a bound)
  DyingSteps,      \* the transactions before which a thread may die
  Idle,
  None

ASSUME ScenarioAssumption ==
  /\ Installations # {}
  /\ ProjectRefs \subseteq BindingRefs

States == {"INSTALLED_DISABLED", "TESTED", "APPROVED", "RELEASED_TO_ENV", "ENABLED",
           "DISABLED", "REVOKED"}
ReleaseStates == {"RELEASED_DISABLED", "ENABLED", "DISABLED", "REVOKED"}

(* Of the manifest, a row keeps the permissions it asks for, if any.          *)
Rows == [state: States, permissions: SUBSET Permissions, granted: SUBSET Permissions,
         bindings: SUBSET BindingRefs, uninstalled: BOOLEAN]

ReleaseOperations == {"release", "enable", "disable", "revoke"}
RowOperations == {"install", "markTested", "approve", "grant", "bind", "uninstall"}
Operations == ReleaseOperations \cup RowOperations \cup {"replay"}

(* The state a transition of the package leads to. *)
Target == [operation \in {"markTested", "approve"} \cup ReleaseOperations |->
  CASE operation = "markTested" -> "TESTED"
    [] operation = "approve" -> "APPROVED"
    [] operation = "release" -> "RELEASED_TO_ENV"
    [] operation = "enable" -> "ENABLED"
    [] operation = "disable" -> "DISABLED"
    [] operation = "revoke" -> "REVOKED"]

(* What a handler holds: the copy it will save, and the row save() loaded. *)
Work ==
  [step: {"add", "readRelease", "addRelease", "saveRelease", "load", "update",
          "audit", "answer"},
   operation: Operations, installation: Installations,
   environment: Environments \cup {None}, copy: Rows, loaded: Rows \cup {None}]

ASSUME SentinelAssumption ==
  /\ None \notin Rows \cup Environments \cup ReleaseStates
  /\ Idle \notin Work

VARIABLES
  rows,            \* scenario_package_installations
  releases,        \* scenario_package_environment_releases
  audit,           \* audit events of the successful operations
  handler          \* what each request thread holds between transactions

vars == <<rows, releases, audit, handler>>

Init ==
  /\ rows = [i \in Installations |-> None]
  /\ releases = [i \in Installations |-> [e \in Environments |-> None]]
  /\ audit = {}
  /\ handler = [h \in Handlers |-> Idle]

-------------------------------------------------------------------------------
(* What an operation asks of the record it read, and the copy it makes of it. *)
(* A definition named Faulty... is a wrong variant of the one that follows.   *)

AllowedTransitions ==
  {<<"INSTALLED_DISABLED", "TESTED">>, <<"INSTALLED_DISABLED", "REVOKED">>,
   <<"TESTED", "APPROVED">>, <<"TESTED", "REVOKED">>,
   <<"APPROVED", "RELEASED_TO_ENV">>, <<"APPROVED", "REVOKED">>,
   <<"RELEASED_TO_ENV", "ENABLED">>, <<"RELEASED_TO_ENV", "DISABLED">>,
   <<"RELEASED_TO_ENV", "REVOKED">>,
   <<"ENABLED", "DISABLED">>, <<"ENABLED", "REVOKED">>,
   <<"DISABLED", "RELEASED_TO_ENV">>, <<"DISABLED", "REVOKED">>}

FaultyRequireTransition(current, target) ==  \* an explicit revocation check only
  target = "REVOKED" => current # "REVOKED"
RequireTransition(current, target) == <<current, target>> \in AllowedTransitions

(* Of a manifest that asks for nothing, nothing has to be granted.            *)
Granted(record) == record.granted = record.permissions

FaultyReleasable(record) == Granted(record) \/ record.bindings # {}
Releasable(record) == Granted(record) /\ record.bindings # {}

Uninstallable(record) == record.state \in {"DISABLED", "REVOKED"}

FaultyRequireActiveRecord(record) == TRUE
RequireActiveRecord(record) == ~record.uninstalled

Accepted(operation, record) ==
  /\ RequireActiveRecord(record)
  /\ operation \in DOMAIN Target => RequireTransition(record.state, Target[operation])
  /\ operation = "release" => Releasable(record)
  /\ operation = "uninstall" => Uninstallable(record)

(* The copies an operation may save: one, but for the reference it binds.  A  *)
(* grant must match the manifest exactly.                                     *)
Copies(operation, record) ==
  CASE operation \in DOMAIN Target -> {[record EXCEPT !.state = Target[operation]]}
    [] operation = "grant" -> {[record EXCEPT !.granted = record.permissions]}
    [] operation = "bind" ->
         {[record EXCEPT !.bindings = @ \cup {ref}] : ref \in BindingRefs \ ProjectRefs}
    [] operation = "uninstall" ->
         {[record EXCEPT !.granted = {}, !.bindings = {}, !.uninstalled = TRUE]}

-------------------------------------------------------------------------------
(* A handler takes an operation, moves on, or is done. *)

Hold(h, step, operation, i, environment, copy, loaded) ==
  handler' = [handler EXCEPT ![h] =
    [step |-> step, operation |-> operation, installation |-> i,
     environment |-> environment, copy |-> copy, loaded |-> loaded]]

Advance(h, step) ==
  LET work == handler[h] IN
  Hold(h, step, work.operation, work.installation, work.environment, work.copy, None)

At(h, step) == handler[h] # Idle /\ handler[h].step = step

Finish(h) == handler' = [handler EXCEPT ![h] = Idle]

-------------------------------------------------------------------------------
(* install: the package version is looked up, validated, then added.          *)

NewRow(permissions) ==
  [state |-> "INSTALLED_DISABLED", permissions |-> permissions, granted |-> {},
   bindings |-> {}, uninstalled |-> FALSE]

BeginInstall(h, i) ==
  /\ handler[h] = Idle
  /\ \/ /\ rows[i] = None
        /\ \E permissions \in SUBSET Permissions :
             Hold(h, "add", "install", i, None, NewRow(permissions), None)
     \/ /\ rows[i] # None                  \* answered with the existing record
        /\ Hold(h, "audit", "replay", i, None, rows[i], None)
  /\ UNCHANGED <<rows, releases, audit>>

AddInstallation(h) ==
  LET i == handler[h].installation IN
  /\ At(h, "add")
  /\ rows[i] = None                        \* unique per package version
  /\ rows' = [rows EXCEPT ![i] = handler[h].copy]
  /\ Advance(h, "audit")
  /\ UNCHANGED <<releases, audit>>

-------------------------------------------------------------------------------
(* The other operations start from the record; those on an EnvironmentRelease *)
(* read it next.  Uninstalling again is answered with the record.             *)

Begin(h, operation, i, environment) ==
  /\ handler[h] = Idle
  /\ rows[i] # None
  /\ Accepted(operation, rows[i])
  /\ \E copy \in Copies(operation, rows[i]) :
       IF operation \in ReleaseOperations
       THEN Hold(h, "readRelease", operation, i, environment, copy, None)
       ELSE Hold(h, "load", operation, i, None, copy, None)
  /\ UNCHANGED <<rows, releases, audit>>

UninstallAgain(h, i) ==
  /\ handler[h] = Idle
  /\ rows[i] # None
  /\ rows[i].uninstalled
  /\ Hold(h, "audit", "replay", i, None, rows[i], None)
  /\ UNCHANGED <<rows, releases, audit>>

(* A release that exists already is the answer, and nothing else happens.     *)
FaultyAfterRead(operation, release) ==  \* the new release is not added
  CASE operation = "release" -> IF release = None THEN "load" ELSE "answer"
    [] operation # "release" -> IF release = None THEN "missing" ELSE "saveRelease"
AfterRead(operation, release) ==
  CASE operation = "release" -> IF release = None THEN "addRelease" ELSE "answer"
    [] operation # "release" -> IF release = None THEN "missing" ELSE "saveRelease"

ReadRelease(h) ==
  LET work == handler[h]
      next == AfterRead(work.operation, releases[work.installation][work.environment]) IN
  /\ At(h, "readRelease")
  /\ IF next = "missing" THEN Finish(h) ELSE Advance(h, next)
  /\ UNCHANGED <<rows, releases, audit>>

AddRelease(h) ==
  LET work == handler[h] IN
  /\ At(h, "addRelease")
  /\ releases[work.installation][work.environment] = None
  /\ releases' = [releases EXCEPT ![work.installation][work.environment] =
                    "RELEASED_DISABLED"]
  /\ Advance(h, "load")
  /\ UNCHANGED <<rows, audit>>

SaveRelease(h) ==
  LET work == handler[h] IN
  /\ At(h, "saveRelease")
  /\ releases' = [releases EXCEPT ![work.installation][work.environment] =
                    Target[work.operation]]
  /\ Advance(h, "load")
  /\ UNCHANGED <<rows, audit>>

-------------------------------------------------------------------------------
(* save(): load the row, assign every field of the copy, and update the       *)
(* columns whose value that changed.                                          *)

LoadRow(h) ==
  LET work == handler[h] IN
  /\ At(h, "load")
  /\ Hold(h, "update", work.operation, work.installation, work.environment, work.copy,
          rows[work.installation])
  /\ UNCHANGED <<rows, releases, audit>>

FaultyWritten(row, copy, loaded) ==  \* the state is not assigned
  [column \in DOMAIN row |->
     IF column = "state" \/ copy[column] = loaded[column] THEN row[column]
     ELSE copy[column]]
Written(row, copy, loaded) ==
  [column \in DOMAIN row |->
     IF copy[column] = loaded[column] THEN row[column] ELSE copy[column]]

UpdateRow(h) ==
  LET work == handler[h]
      i == work.installation IN
  /\ At(h, "update")
  /\ rows' = [rows EXCEPT ![i] = Written(@, work.copy, work.loaded)]
  /\ Advance(h, "audit")
  /\ UNCHANGED <<releases, audit>>

(* The audit event is appended last, in a transaction of its own. *)
FaultyEvents(work) == {<<work.operation, work.installation>>}  \* swapped arguments
Events(work) == {<<work.installation, work.operation>>}

AppendAudit(h) ==
  /\ At(h, "audit")
  /\ audit' = audit \cup Events(handler[h])
  /\ Advance(h, "answer")
  /\ UNCHANGED <<rows, releases>>

Answer(h) ==
  /\ At(h, "answer")
  /\ Finish(h)
  /\ UNCHANGED <<rows, releases, audit>>

(* A row that another thread added first violates a unique constraint.        *)
Collide(h) ==
  LET work == handler[h] IN
  /\ \/ At(h, "add") /\ rows[work.installation] # None
     \/ At(h, "addRelease") /\ releases[work.installation][work.environment] # None
  /\ Finish(h)
  /\ UNCHANGED <<rows, releases, audit>>

(* The thread dies between two transactions; nobody takes its work up again.  *)
Die(h) ==
  /\ handler[h] # Idle
  /\ handler[h].step \in DyingSteps
  /\ Finish(h)
  /\ UNCHANGED <<rows, releases, audit>>

Receive(h) ==
  \E i \in Installations :
    \/ BeginInstall(h, i)
    \/ \E operation \in RowOperations \ {"install"} : Begin(h, operation, i, None)
    \/ \E operation \in ReleaseOperations, environment \in Environments :
         Begin(h, operation, i, environment)
    \/ UninstallAgain(h, i)

Continue(h) ==
  \/ AddInstallation(h)
  \/ ReadRelease(h)
  \/ AddRelease(h)
  \/ SaveRelease(h)
  \/ LoadRow(h)
  \/ UpdateRow(h)
  \/ AppendAudit(h)
  \/ Answer(h)
  \/ Collide(h)

Next == \E h \in Handlers : Receive(h) \/ Continue(h) \/ Die(h)

Spec == Init /\ [][Next]_vars

-------------------------------------------------------------------------------
(* Properties. *)

TypeOK ==
  /\ rows \in [Installations -> Rows \cup {None}]
  /\ releases \in [Installations -> [Environments -> ReleaseStates \cup {None}]]
  /\ audit \subseteq Installations \X Operations
  /\ handler \in [Handlers -> Work \cup {Idle}]

RunAllowed(i, environment) ==
  /\ rows[i] # None
  /\ ~rows[i].uninstalled
  /\ rows[i].state = "ENABLED"
  /\ releases[i][environment] = "ENABLED"

(* Whatever threads race or die: a package that was ever released has an      *)
(* EnvironmentRelease, although release() writes it in another transaction    *)
(* and racing saves may bring any older state of the row back.                *)
ReleasedPackagesHaveReleases ==
  \A i \in Installations :
    rows[i] # None /\ rows[i].state \in {"RELEASED_TO_ENV", "ENABLED", "DISABLED"}
      => \E environment \in Environments : releases[i][environment] # None

(* No governed state without its audit event: a package is in a state only    *)
(* after the operation that leads there was audited, or while a handler is    *)
(* about to audit it.  That holds across lost updates, and wherever threads   *)
(* die, but for between a save and its audit.                                 *)
StatesAreAudited ==
  \A i \in Installations, operation \in DOMAIN Target :
    rows[i] # None /\ rows[i].state = Target[operation]
      => \/ <<i, operation>> \in audit
         \/ \E h \in Handlers :
              /\ At(h, "audit")
              /\ handler[h].installation = i
              /\ handler[h].operation = operation

(* A released package keeps its grant and a binding until it is revoked or    *)
(* uninstalled, and an uninstalled one keeps neither.                         *)
SelfConsistent(i) ==
  rows[i] # None =>
    /\ rows[i].state \in {"RELEASED_TO_ENV", "ENABLED", "DISABLED"} /\ ~rows[i].uninstalled
         => Granted(rows[i]) /\ rows[i].bindings # {}
    /\ rows[i].uninstalled => /\ rows[i].state \in {"DISABLED", "REVOKED"}
                              /\ rows[i].granted = {}
                              /\ rows[i].bindings = {}

(* Revocation of a package is terminal. *)
RevocationIsTerminal ==
  [][\A i \in Installations :
       rows[i] # None /\ rows[i].state = "REVOKED" => rows'[i].state = "REVOKED"]_vars

(* With more requests in flight, a late save may undo a revocation or an      *)
(* uninstall, but not for ever: once every copy that is still to be saved is  *)
(* revoked itself, the package stays REVOKED; once every such copy is         *)
(* uninstalled itself, the package stays uninstalled and its releases as they *)
(* are.                                                                       *)
Saving == {"readRelease", "addRelease", "saveRelease", "load", "update"}

Unsaved(i) ==
  {handler[h].copy : h \in {g \in Handlers : /\ handler[g] # Idle
                                            /\ handler[g].step \in Saving
                                            /\ handler[g].installation = i}}

RevokedForGood(i) ==
  rows[i] # None /\ \A record \in {rows[i]} \cup Unsaved(i) : record.state = "REVOKED"

UninstalledForGood(i) ==
  rows[i] # None /\ \A record \in {rows[i]} \cup Unsaved(i) : record.uninstalled

PackagesSettle ==
  [][\A i \in Installations :
       /\ RevokedForGood(i) => RevokedForGood(i)'
       /\ UninstalledForGood(i) => UninstalledForGood(i)' /\ releases'[i] = releases[i]]_vars

(* What a client is told is so at the moment it is told: an enabled release   *)
(* runs, a disabled or revoked one does not, a grant and an uninstall are in  *)
(* the row.                                                                   *)
TellsTheTruth(h) ==
  At(h, "answer") =>
    LET work == handler[h]
        row == rows[work.installation] IN
    /\ work.operation = "enable" => RunAllowed(work.installation, work.environment)
    /\ work.operation \in {"disable", "revoke"} =>
         ~RunAllowed(work.installation, work.environment)
    /\ work.operation = "grant" => Granted(row)
    /\ work.operation = "bind" => work.copy.bindings \subseteq row.bindings
    /\ work.operation = "uninstall" => row.uninstalled
    /\ work.operation \in {"markTested", "approve"} => row.state = Target[work.operation]
===============================================================================
