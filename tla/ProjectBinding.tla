---------------------------- MODULE ProjectBinding ----------------------------
(***************************************************************************)
(* ProjectPackageBindings on top of the lifecycle of ScenarioPackages      *)
(* (IdentityAccessService.create_project_binding and                       *)
(* disable_project_binding over SqlIdentityRepository).                    *)
(*                                                                         *)
(* Creating a binding is three writes, each a transaction of its own: the  *)
(* Scenario registry adds the Project to the references of the package     *)
(* (with its own audit event), the identity repository adds the binding    *)
(* with its key, and the binding is audited.  The first is a "bind" of     *)
(* ScenarioLifecycle, whose steps the thread of the request goes through.  *)
(*                                                                         *)
(* The key stands for no particular request: a key that was used before is *)
(* answered with the binding it names.                                     *)
(***************************************************************************)
EXTENDS ScenarioLifecycle

CONSTANTS
  Keys,            \* Idempotency-Keys of one actor (a bound)
  Archivable,      \* Projects that may be archived during a run (a bound)
  Contention       \* at packages: "any", or as little as "once" or "none" (a bound)

Projects == ProjectRefs
Places == Projects \X Installations
BindingRows == [state: {"ACTIVE", "DISABLED"}, version: Nat \ {0}]

(* What a request on bindings still has to do, and for which binding. *)
Requests ==
  [step: {"bind", "add", "save", "audit"}, place: Places, key: Keys \cup {None},
   read: BindingRows \cup {None}]

ASSUME BindingAssumption ==
  /\ Archivable \subseteq Projects
  /\ None \notin Requests \cup BindingRows \cup Keys \cup Places

VARIABLES
  bindings,        \* project_package_bindings
  bindingOf,       \* idempotency_records: the binding a key names
  bindingAudit,    \* audit events of the successful operations on bindings
  archived,        \* Projects that are no longer writable
  request,         \* what the request on bindings of each thread has still to do
  raced            \* packages two threads have been at work on at once (no step reads it)

ownVars == <<bindings, bindingOf, bindingAudit, archived>>
packageVars == <<rows, releases, audit>>
requestVars == <<vars, ownVars, request>>
bindingVars == <<requestVars, raced>>

BindingInit ==
  /\ Init
  /\ bindings = [place \in Places |-> None]
  /\ bindingOf = [key \in Keys |-> None]
  /\ bindingAudit = {}
  /\ archived = {}
  /\ request = [h \in Handlers |-> None]
  /\ raced = {}

-------------------------------------------------------------------------------
(* A definition named Faulty... is a wrong variant of the one that follows it.*)

WorksOn(h, i) == handler[h] # Idle /\ handler[h].installation = i

Shared == {i \in Installations :
  \E one, other \in Handlers : one # other /\ WorksOn(one, i) /\ WorksOn(other, i)}

(* The code has "any" contention: no thread waits for another one.            *)
MayEnter(h, i) ==
  \/ Contention = "any"
  \/ Contention = "once" /\ i \notin raced
  \/ Contention = "none" /\ \A other \in Handlers \ {h} : ~WorksOn(other, i)

Bindable(row) ==
  /\ ~row.uninstalled
  /\ row.state \in {"APPROVED", "RELEASED_TO_ENV", "ENABLED"}
  /\ Granted(row)

Ask(h, step, place, key, read) ==
  request' = [request EXCEPT ![h] =
    [step |-> step, place |-> place, key |-> key, read |-> read]]

Asks(h, step) == request[h] # None /\ request[h].step = step

Proceed(h, step) == Ask(h, step, request[h].place, request[h].key, request[h].read)

EndRequest(h) == request' = [request EXCEPT ![h] = None]

(* An ACTIVE binding is the answer and a disabled one cannot be used again:   *)
(* neither is a step.                                                         *)
BeginBinding(h, project, i, key) ==
  /\ handler[h] = Idle /\ request[h] = None
  /\ project \notin archived
  /\ rows[i] # None
  /\ Bindable(rows[i])
  /\ bindings[<<project, i>>] = None
  /\ Ask(h, "bind", <<project, i>>, key, None)
  /\ UNCHANGED <<vars, ownVars>>

(* bind_project reads the package once more.                                  *)
BindPackage(h) ==
  LET project == request[h].place[1]
      i == request[h].place[2] IN
  /\ Asks(h, "bind")
  /\ \/ /\ Accepted("bind", rows[i])
        /\ MayEnter(h, i)
        /\ Hold(h, "load", "bind", i, None,
                [rows[i] EXCEPT !.bindings = @ \cup {project}], None)
        /\ Proceed(h, "add")
     \/ /\ ~Accepted("bind", rows[i])
        /\ EndRequest(h)
        /\ UNCHANGED handler
  /\ UNCHANGED <<packageVars, ownVars>>

(* bind_project has returned.                                                 *)
FaultyBound(h) == TRUE
Bound(h) == handler[h] = Idle

FaultyKeyNames(key, place) == bindingOf  \* the record of the key is forgotten
KeyNames(key, place) == [bindingOf EXCEPT ![key] = place]

(* add_project_binding: the key comes first; a Project has one binding of a   *)
(* package.                                                                   *)
AddBinding(h) ==
  LET place == request[h].place
      key == request[h].key IN
  /\ Asks(h, "add")
  /\ Bound(h)
  /\ bindingOf[key] = None
  /\ bindings[place] = None
  /\ bindings' = [bindings EXCEPT ![place] = [state |-> "ACTIVE", version |-> 1]]
  /\ bindingOf' = KeyNames(key, place)
  /\ Proceed(h, "audit")
  /\ UNCHANGED <<vars, bindingAudit, archived>>

(* The binding the key names is the answer, and what is audited.              *)
FaultyReplays(key, place) == bindingOf[key] = place  \* another one is not expected
Replays(key, place) == bindingOf[key] # None

ReplayBinding(h) ==
  LET key == request[h].key IN
  /\ Asks(h, "add")
  /\ Bound(h)
  /\ Replays(key, request[h].place)
  /\ Ask(h, "audit", bindingOf[key], key, None)
  /\ UNCHANGED <<vars, ownVars>>

Unmoved(row, read) == row.version = read.version

BeginDisable(h, place) ==
  /\ handler[h] = Idle /\ request[h] = None
  /\ bindings[place] # None
  /\ bindings[place].state = "ACTIVE"
  /\ Ask(h, "save", place, None, bindings[place])
  /\ UNCHANGED <<vars, ownVars>>

SaveBinding(h) ==
  LET place == request[h].place
      read == request[h].read IN
  /\ Asks(h, "save")
  /\ Unmoved(bindings[place], read)
  /\ bindings' = [bindings EXCEPT ![place] =
       [state |-> "DISABLED", version |-> read.version + 1]]
  /\ Proceed(h, "audit")
  /\ UNCHANGED <<vars, bindingOf, bindingAudit, archived>>

AuditBinding(h) ==
  /\ Asks(h, "audit")
  /\ bindingAudit' = bindingAudit \cup
       {<<IF request[h].read = None THEN "created" ELSE "disabled", request[h].place>>}
  /\ EndRequest(h)
  /\ UNCHANGED <<vars, bindings, bindingOf, archived>>

(* A unique constraint or a version in the way ends the request.              *)
RefuseBinding(h) ==
  LET place == request[h].place IN
  /\ \/ /\ Asks(h, "add")
        /\ Bound(h)
        /\ bindingOf[request[h].key] = None
        /\ bindings[place] # None
     \/ /\ Asks(h, "save")
        /\ ~Unmoved(bindings[place], request[h].read)
  /\ EndRequest(h)
  /\ UNCHANGED <<vars, ownVars>>

DieBinding(h) ==
  /\ request[h] # None
  /\ request[h].step \in DyingSteps
  /\ Finish(h)
  /\ EndRequest(h)
  /\ UNCHANGED <<packageVars, ownVars>>

ArchiveProject(project) ==
  /\ project \in Archivable
  /\ archived' = archived \cup {project}
  /\ UNCHANGED <<vars, bindings, bindingOf, bindingAudit, request>>

-------------------------------------------------------------------------------

(* The other requests are those of ScenarioLifecycle, and so are the steps of *)
(* bind_project.                                                              *)
ReceiveRequest(h) ==
  \/ \E project \in Projects, i \in Installations, key \in Keys :
       BeginBinding(h, project, i, key)
  \/ \E place \in Places : BeginDisable(h, place)
  \/ /\ request[h] = None
     /\ Receive(h)
     /\ MayEnter(h, handler'[h].installation)
     /\ UNCHANGED <<ownVars, request>>

ContinueRequest(h) ==
  \/ BindPackage(h)
  \/ AddBinding(h)
  \/ ReplayBinding(h)
  \/ SaveBinding(h)
  \/ AuditBinding(h)
  \/ RefuseBinding(h)
  \/ Continue(h) /\ UNCHANGED <<ownVars, request>>

RequestNext ==
  \/ \E h \in Handlers :
       \/ ReceiveRequest(h)
       \/ ContinueRequest(h)
       \/ DieBinding(h)
       \/ request[h] = None /\ Die(h) /\ UNCHANGED <<ownVars, request>>
  \/ \E project \in Projects : ArchiveProject(project)

BindingNext == RequestNext /\ raced' = raced \cup Shared'

(* The pool's threads are scheduled, and no transaction waits for ever: one   *)
(* that finds a conflict is answered.                                         *)
BindingSpec ==
  /\ BindingInit
  /\ [][BindingNext]_bindingVars
  /\ \A h \in Handlers : WF_requestVars(ContinueRequest(h))

-------------------------------------------------------------------------------
(* Properties.                                                                *)

BindingTypeOK ==
  /\ TypeOK
  /\ bindings \in [Places -> BindingRows \cup {None}]
  /\ bindingOf \in [Keys -> Places \cup {None}]
  /\ bindingAudit \subseteq {"created", "disabled"} \X Places
  /\ archived \subseteq Projects
  /\ request \in [Handlers -> Requests \cup {None}]
  /\ raced \subseteq Installations

(* Although the two are written in different transactions, and threads die    *)
(* between them: while a Project has a binding, its package refers to the     *)
(* Project, until it is uninstalled.  Of a package that two threads have been *)
(* at work on at once, nothing is said: a save may take a reference away.     *)
BoundPackagesReferBack ==
  \A project \in Projects, i \in Installations \ raced : bindings[<<project, i>>] # None =>
    /\ rows[i] # None
    /\ project \in rows[i].bindings \/ rows[i].uninstalled

(* As long as no two threads have been at work on a package at once, and      *)
(* wherever threads died: its row is consistent in itself ...                 *)
RowsAreSelfConsistent == \A i \in Installations \ raced : SelfConsistent(i)

(* ... a client is told what is so at that moment ...                         *)
AnswersAreTrue ==
  \A h \in Handlers : At(h, "answer") /\ handler[h].installation \notin raced =>
    TellsTheTruth(h)

(* ... and its revocation is never taken back, and nothing of it changes any  *)
(* more once it is uninstalled, its releases included.                        *)
TerminalStatesLast ==
  [][\A i \in Installations \ raced : rows[i] # None =>
       /\ rows[i].state = "REVOKED" => rows'[i].state = "REVOKED"
       /\ rows[i].uninstalled => rows'[i] = rows[i] /\ releases'[i] = releases[i]]_vars

(* A retry finds what its request did: every binding has one key of its own,  *)
(* and what a key names is there.                                             *)
EveryBindingHasItsKey ==
  /\ \A place \in Places : bindings[place] # None => \E key \in Keys : bindingOf[key] = place
  /\ \A one, other \in Keys : bindingOf[one] = bindingOf[other] =>
       one = other \/ bindingOf[one] = None
  /\ \A key \in Keys : bindingOf[key] # None => bindings[bindingOf[key]] # None

(* Every request that has begun to write comes to an end, also if its key     *)
(* names another binding or the row it wants to add is there.                 *)
Writing(h) == handler[h] # Idle \/ (request[h] # None /\ request[h].step # "bind")
WritesEnd == \A h \in Handlers : Writing(h) ~> ~Writing(h)
===============================================================================
