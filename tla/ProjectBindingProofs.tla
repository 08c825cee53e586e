------------------------- MODULE ProjectBindingProofs -------------------------
(***************************************************************************)
(* Proofs about ProjectBinding, for any number of threads that may die     *)
(* anywhere: what holds of keys and bindings; what holds between bindings  *)
(* and packages and of the lifecycle of packages that no two threads were  *)
(* at work on at once; and that it implements ScenarioLifecycle.           *)
(***************************************************************************)
EXTENDS ProjectBinding, ScenarioProofs

(* What a request on bindings has made sure of. *)
RequestIsSound(asked) ==
  /\ asked.step \in {"bind", "add"} => asked.key \in Keys
  /\ asked.step = "bind" => rows[asked.place[2]] # None
  /\ asked.step = "save" => asked.read # None /\ bindings[asked.place] # None

RequestsAreSound == \A h \in Handlers : request[h] # None => RequestIsSound(request[h])

OwnTypeOK ==
  /\ bindings \in [Places -> BindingRows \cup {None}]
  /\ bindingOf \in [Keys -> Places \cup {None}]
  /\ bindingAudit \subseteq {"created", "disabled"} \X Places
  /\ archived \subseteq Projects
  /\ request \in [Handlers -> Requests \cup {None}]

BindingInv ==
  /\ LifecycleInv
  /\ OwnTypeOK
  /\ RequestsAreSound
  /\ EveryBindingHasItsKey

RowsLast == \A i \in Installations : rows[i] # None => rows'[i] # None

-------------------------------------------------------------------------------
(* The side of the packages: a request on bindings only does what the thread  *)
(* of a ScenarioLifecycle may do.                                             *)

LEMMA ReceiveKeepsRows ==
  ASSUME NEW h \in Handlers, Receive(h)
  PROVE  UNCHANGED <<rows, releases, audit>>
  BY DEF Receive, BeginInstall, Begin, UninstallAgain

LEMMA ContinueKeepsRows ==
  ASSUME LifecycleInv, NEW h \in Handlers, Continue(h)
  PROVE  RowsLast
<1>1. CASE AddInstallation(h)
  <2>1. /\ rows[handler[h].installation] = None
        /\ rows' = [rows EXCEPT ![handler[h].installation] = handler[h].copy]
    BY <1>1 DEF AddInstallation
  <2> QED
    BY <2>1 DEF RowsLast, LifecycleInv, TypeOK
<1>2. CASE UpdateRow(h)
  <2>1. LifecycleInv' /\ handler[h] # Idle /\ handler[h].step = "update"
    BY <1>2, AdvanceSteps DEF UpdateRow, At
  <2> DEFINE i == handler[h].installation
             written == Written(rows[i], handler[h].copy, handler[h].loaded)
  <2>2. /\ rows' = [rows EXCEPT ![i] = written]
        /\ i \in Installations
        /\ rows[i] \in Rows
        /\ handler[h].copy \in Rows
    BY <1>2, <2>1, BusyType
       DEF UpdateRow, LifecycleInv, HandlersAreSound, Sound, Saving, TypeOK
  <2>3. written # None
    BY <2>2, WrittenFacts, SentinelAssumption
  <2> QED
    BY <2>2, <2>3 DEF RowsLast, LifecycleInv, TypeOK
<1>3. CASE ~AddInstallation(h) /\ ~UpdateRow(h)
  BY <1>3 DEF Continue, ReadRelease, AddRelease, SaveRelease, LoadRow, AppendAudit,
              Answer, Collide, RowsLast
<1> QED
  BY <1>1, <1>2, <1>3

(* The copy that bind_project saves. *)
LEMMA BoundCopy ==
  ASSUME NEW record \in Rows, NEW project \in Projects
  PROVE  LET copy == [record EXCEPT !.bindings = @ \cup {project}] IN
         /\ copy \in Rows
         /\ copy.state = record.state
         /\ Granted(copy) <=> Granted(record)
         /\ copy.uninstalled = record.uninstalled
         /\ copy.bindings = record.bindings \cup {project}
  BY ScenarioAssumption DEF Rows, Projects, Granted

LEMMA BindMoves ==
  ASSUME LifecycleInv, OwnTypeOK, NEW h \in Handlers, NEW place \in Places,
         rows[place[2]] # None,
         Hold(h, "load", "bind", place[2], None,
              [rows[place[2]] EXCEPT !.bindings = @ \cup {place[1]}], None),
         UNCHANGED <<rows, releases, audit>>
  PROVE  /\ LifecycleInv'
         /\ \A g \in Handlers \ {h} : handler'[g] = handler[g]
         /\ handler'[h] # Idle
         /\ handler'[h].step = "load"
         /\ handler'[h].installation = place[2]
         /\ handler'[h].copy =
              [rows[place[2]] EXCEPT !.bindings = @ \cup {place[1]}]
<1> DEFINE i == place[2]
<1>1. i \in Installations /\ place[1] \in Projects
  BY DEF Places
<1>2. rows[i] \in Rows
  BY <1>1 DEF LifecycleInv, TypeOK
<1>3. \E copy : copy = [rows[i] EXCEPT !.bindings = @ \cup {place[1]}]
  OBVIOUS
<1>4. PICK copy : copy = [rows[i] EXCEPT !.bindings = @ \cup {place[1]}]
  BY <1>3
<1>5. copy \in Rows /\ copy.state = rows[i].state
  BY <1>1, <1>2, <1>4, BoundCopy
<1>6. Hold(h, "load", "bind", i, None, copy, None)
  BY <1>4
<1>7. TypeOK /\ "load" \in Steps /\ "bind" \in Operations
  BY DEF LifecycleInv, Steps, Operations, RowOperations
<1>8. /\ handler' \in [Handlers -> Work \cup {Idle}]
      /\ \A g \in Handlers \ {h} : handler'[g] = handler[g]
      /\ handler'[h] = [step |-> "load", operation |-> "bind", installation |-> i,
                        environment |-> None, copy |-> copy, loaded |-> None]
      /\ handler'[h] # Idle
  BY <1>1, <1>5, <1>6, <1>7, HoldMoves
<1>9. copy.state \in Released => HasRelease(i)
  BY <1>1, <1>5 DEF LifecycleInv, ReleasedPackagesHaveReleases, Released, HasRelease
<1>10. Sound(handler[h])'
  BY <1>8, <1>9, TargetFacts DEF Sound, Saving, HasRelease
<1>11. LifecycleInv'
  BY <1>8, <1>10, TablesUnmoved DEF LifecycleInv, TypeOK
<1> QED
  BY <1>4, <1>8, <1>11

(* A thread that dies or gives up leaves the packages as they are. *)
LEMMA FinishKeeps ==
  ASSUME LifecycleInv, NEW h \in Handlers, Finish(h), UNCHANGED <<rows, releases, audit>>
  PROVE  LifecycleInv'
  BY FinishMoves, TablesUnmoved DEF LifecycleInv, TypeOK

LEMMA VarsKeep ==
  ASSUME LifecycleInv, UNCHANGED vars
  PROVE  LifecycleInv' /\ RowsLast
  BY LifecycleStep DEF vars, RowsLast

LEMMA PackageSide ==
  ASSUME BindingInv, [BindingNext]_bindingVars
  PROVE  LifecycleInv' /\ RowsLast
<1> USE DEF BindingInv
<1>1. CASE UNCHANGED vars
  BY <1>1, VarsKeep
<1>2. ASSUME NEW h \in Handlers, BindPackage(h)
      PROVE  LifecycleInv' /\ RowsLast
  <2>1. /\ request[h] # None
        /\ request[h].step = "bind"
        /\ UNCHANGED <<rows, releases, audit>>
    BY <1>2 DEF BindPackage, Asks, packageVars
  <2>2. request[h].place \in Places /\ rows[request[h].place[2]] # None
    BY <2>1 DEF OwnTypeOK, Requests, RequestsAreSound, RequestIsSound
  <2>3. CASE UNCHANGED handler
    BY <2>1, <2>3, <1>1 DEF vars
  <2>4. CASE Hold(h, "load", "bind", request[h].place[2], None,
                  [rows[request[h].place[2]] EXCEPT !.bindings = @ \cup {request[h].place[1]}],
                  None)
    <3>1. \E place : place = request[h].place
      OBVIOUS
    <3>2. PICK place : place = request[h].place
      BY <3>1
    <3> QED
      BY <2>1, <2>2, <2>4, <3>2, BindMoves DEF RowsLast
  <2> QED
    BY <1>2, <2>3, <2>4 DEF BindPackage
<1>3. ASSUME NEW h \in Handlers, Finish(h), UNCHANGED packageVars
      PROVE  LifecycleInv' /\ RowsLast
  BY <1>3, FinishKeeps DEF packageVars, RowsLast
<1>4. ASSUME NEW h \in Handlers, ReceiveRequest(h)
      PROVE  LifecycleInv' /\ RowsLast
  <2>1. CASE Receive(h)
    BY <2>1, BeginSteps, ReceiveKeepsRows DEF RowsLast
  <2> QED
    BY <1>1, <1>4, <2>1 DEF ReceiveRequest, BeginBinding, BeginDisable
<1>5. ASSUME NEW h \in Handlers, ContinueRequest(h)
      PROVE  LifecycleInv' /\ RowsLast
  <2>1. CASE Continue(h)
    BY <2>1, AdvanceSteps, ContinueKeepsRows
  <2> QED
    BY <1>1, <1>2, <1>5, <2>1
       DEF ContinueRequest, AddBinding, ReplayBinding, SaveBinding, AuditBinding,
           RefuseBinding
<1>6. ASSUME NEW h \in Handlers, DieBinding(h) \/ Die(h)
      PROVE  LifecycleInv' /\ RowsLast
  BY <1>3, <1>6 DEF DieBinding, Die, packageVars
<1>7. ASSUME NEW project \in Projects, ArchiveProject(project)
      PROVE  LifecycleInv' /\ RowsLast
  BY <1>1, <1>7 DEF ArchiveProject
<1> QED
  BY <1>1, <1>4, <1>5, <1>6, <1>7 DEF BindingNext, RequestNext, bindingVars, requestVars

-------------------------------------------------------------------------------
(* The side of the bindings. *)

LEMMA AskMoves ==
  ASSUME OwnTypeOK, NEW h \in Handlers, NEW step \in {"bind", "add", "save", "audit"},
         NEW place \in Places, NEW key \in Keys \cup {None},
         NEW read \in BindingRows \cup {None}, Ask(h, step, place, key, read)
  PROVE  /\ request' \in [Handlers -> Requests \cup {None}]
         /\ \A g \in Handlers \ {h} : request'[g] = request[g]
         /\ request'[h] # None
         /\ request'[h].step = step
         /\ request'[h].place = place
         /\ request'[h].key = key
         /\ request'[h].read = read
<1> DEFINE asked == [step |-> step, place |-> place, key |-> key, read |-> read]
<1>1. /\ asked \in Requests
      /\ asked.step = step
      /\ asked.place = place
      /\ asked.key = key
      /\ asked.read = read
  BY DEF Requests
<1>2. request' = [request EXCEPT ![h] = asked]
  BY DEF Ask
<1> HIDE DEF asked
<1>3. asked # None
  BY <1>1, BindingAssumption
<1> QED
  BY <1>1, <1>2, <1>3 DEF OwnTypeOK

LEMMA EndMoves ==
  ASSUME OwnTypeOK, NEW h \in Handlers, EndRequest(h)
  PROVE  /\ request' \in [Handlers -> Requests \cup {None}]
         /\ \A g \in Handlers \ {h} : request'[g] = request[g]
         /\ request'[h] = None
  BY DEF EndRequest, OwnTypeOK

LEMMA AskedType ==
  ASSUME OwnTypeOK, NEW h \in Handlers, request[h] # None
  PROVE  /\ request[h].step \in {"bind", "add", "save", "audit"}
         /\ request[h].place \in Places
         /\ request[h].key \in Keys \cup {None}
         /\ request[h].read \in BindingRows \cup {None}
  BY DEF OwnTypeOK, Requests

LEMMA ProceedMoves ==
  ASSUME OwnTypeOK, NEW h \in Handlers, request[h] # None,
         NEW step \in {"bind", "add", "save", "audit"}, Proceed(h, step)
  PROVE  /\ request' \in [Handlers -> Requests \cup {None}]
         /\ \A g \in Handlers \ {h} : request'[g] = request[g]
         /\ request'[h] # None
         /\ request'[h].step = step
         /\ request'[h].place = request[h].place
         /\ request'[h].key = request[h].key
         /\ request'[h].read = request[h].read
<1>1. \E place \in Places, key \in Keys \cup {None}, read \in BindingRows \cup {None} :
        /\ place = request[h].place
        /\ key = request[h].key
        /\ read = request[h].read
  BY AskedType
<1>2. PICK place \in Places, key \in Keys \cup {None}, read \in BindingRows \cup {None} :
        /\ place = request[h].place
        /\ key = request[h].key
        /\ read = request[h].read
  BY <1>1
<1>3. Ask(h, step, place, key, read)
  BY <1>2 DEF Proceed
<1> QED
  BY <1>2, <1>3, AskMoves

(* A request stays sound as rows and bindings only come to exist.             *)
LEMMA OtherRequests ==
  ASSUME OwnTypeOK, RequestsAreSound, RowsLast, NEW h \in Handlers,
         \A g \in Handlers \ {h} : request'[g] = request[g],
         \A place \in Places : bindings[place] # None => bindings'[place] # None,
         request'[h] # None => RequestIsSound(request[h])'
  PROVE  RequestsAreSound'
<1> SUFFICES ASSUME NEW g \in Handlers, g # h, request'[g] # None
             PROVE  RequestIsSound(request[g])'
  BY DEF RequestsAreSound
<1>1. /\ request'[g] = request[g]
      /\ RequestIsSound(request[g])
      /\ request[g].place \in Places
      /\ request[g].place[2] \in Installations
  BY AskedType DEF RequestsAreSound, Places
<1> QED
  BY <1>1 DEF RequestIsSound, RowsLast

(* Requests that leave the three tables alone. *)
LEMMA OwnUnmoved ==
  ASSUME BindingInv, LifecycleInv', RowsLast, NEW h \in Handlers,
         UNCHANGED <<bindings, bindingOf, archived>>,
         bindingAudit' \subseteq {"created", "disabled"} \X Places,
         request' \in [Handlers -> Requests \cup {None}],
         \A g \in Handlers \ {h} : request'[g] = request[g],
         request'[h] # None => RequestIsSound(request[h])'
  PROVE  BindingInv'
<1>1. RequestsAreSound'
  BY OtherRequests DEF BindingInv
<1> QED
  BY <1>1 DEF BindingInv, OwnTypeOK, EveryBindingHasItsKey

LEMMA AddStep ==
  ASSUME BindingInv, LifecycleInv', RowsLast, NEW h \in Handlers, AddBinding(h)
  PROVE  BindingInv'
<1> DEFINE place == request[h].place
           key == request[h].key
           row == [state |-> "ACTIVE", version |-> 1]
<1>1. /\ request[h] # None
      /\ request[h].step = "add"
      /\ bindingOf[key] = None
      /\ bindings[place] = None
      /\ bindings' = [bindings EXCEPT ![place] = row]
      /\ bindingOf' = [bindingOf EXCEPT ![key] = place]
      /\ Proceed(h, "audit")
      /\ UNCHANGED <<bindingAudit, archived>>
  BY DEF AddBinding, Asks, KeyNames
<1>2. place \in Places /\ key \in Keys
  BY <1>1, AskedType DEF BindingInv, RequestsAreSound, RequestIsSound
<1>3. row \in BindingRows /\ row # None /\ place # None
  BY <1>2, BindingAssumption DEF BindingRows
<1> HIDE DEF row
<1>4. /\ request' \in [Handlers -> Requests \cup {None}]
      /\ \A g \in Handlers \ {h} : request'[g] = request[g]
      /\ request'[h].step = "audit"
  BY <1>1, ProceedMoves DEF BindingInv
<1>5. OwnTypeOK'
  BY <1>1, <1>2, <1>3, <1>4 DEF BindingInv, OwnTypeOK
<1>6. /\ bindings'[place] = row
      /\ bindingOf'[key] = place
      /\ \A other \in Places \ {place} : bindings'[other] = bindings[other]
      /\ \A other \in Keys \ {key} : bindingOf'[other] = bindingOf[other]
  BY <1>1, <1>2 DEF BindingInv, OwnTypeOK
<1>7. RequestsAreSound'
  <2>1. \A other \in Places : bindings[other] # None => bindings'[other] # None
    BY <1>1, <1>6
  <2>2. RequestIsSound(request[h])'
    BY <1>4 DEF RequestIsSound
  <2> QED
    BY <1>4, <2>1, <2>2, OtherRequests DEF BindingInv
<1>8. EveryBindingHasItsKey'
  <2>1. \A other \in Keys : bindingOf[other] # place
    BY <1>1, <1>3 DEF BindingInv, EveryBindingHasItsKey
  <2>2. \A other \in Places : bindings'[other] # None =>
          \E name \in Keys : bindingOf'[name] = other
    <3> SUFFICES ASSUME NEW other \in Places, bindings'[other] # None
                 PROVE  \E name \in Keys : bindingOf'[name] = other
      OBVIOUS
    <3>1. CASE other = place
      BY <3>1, <1>2, <1>6
    <3>2. CASE other # place
      <4>1. \E name \in Keys : bindingOf[name] = other
        BY <3>2, <1>6 DEF BindingInv, EveryBindingHasItsKey
      <4>2. PICK name \in Keys : bindingOf[name] = other
        BY <4>1
      <4>3. other # None
        BY BindingAssumption
      <4> QED
        BY <4>2, <4>3, <1>1, <1>6
    <3> QED
      BY <3>1, <3>2
  <2>3. \A one, other \in Keys : bindingOf'[one] = bindingOf'[other] =>
          one = other \/ bindingOf'[one] = None
    BY <1>2, <1>6, <2>1 DEF BindingInv, EveryBindingHasItsKey
  <2>4. \A name \in Keys : bindingOf'[name] # None => bindings'[bindingOf'[name]] # None
    <3> SUFFICES ASSUME NEW name \in Keys, bindingOf'[name] # None
                 PROVE  bindings'[bindingOf'[name]] # None
      OBVIOUS
    <3>1. CASE name = key
      BY <3>1, <1>3, <1>6
    <3>2. CASE name # key
      BY <3>2, <1>6, <2>1 DEF BindingInv, OwnTypeOK, EveryBindingHasItsKey
    <3> QED
      BY <3>1, <3>2
  <2> QED
    BY <2>2, <2>3, <2>4 DEF EveryBindingHasItsKey
<1> QED
  BY <1>5, <1>7, <1>8 DEF BindingInv

LEMMA SaveStep ==
  ASSUME BindingInv, LifecycleInv', RowsLast, NEW h \in Handlers, SaveBinding(h)
  PROVE  BindingInv'
<1> DEFINE place == request[h].place
           read == request[h].read
           row == [state |-> "DISABLED", version |-> read.version + 1]
<1>1. /\ request[h] # None
      /\ request[h].step = "save"
      /\ bindings' = [bindings EXCEPT ![place] = row]
      /\ Proceed(h, "audit")
      /\ UNCHANGED <<bindingOf, bindingAudit, archived>>
  BY DEF SaveBinding, Asks
<1>2. place \in Places /\ read \in BindingRows /\ bindings[place] # None
  BY <1>1, AskedType DEF BindingInv, RequestsAreSound, RequestIsSound
<1>3. row \in BindingRows /\ row # None
  BY <1>2, BindingAssumption DEF BindingRows
<1> HIDE DEF row
<1>4. /\ request' \in [Handlers -> Requests \cup {None}]
      /\ \A g \in Handlers \ {h} : request'[g] = request[g]
      /\ request'[h].step = "audit"
  BY <1>1, ProceedMoves DEF BindingInv
<1>5. OwnTypeOK'
  BY <1>1, <1>2, <1>3, <1>4 DEF BindingInv, OwnTypeOK
<1>6. \A other \in Places : bindings'[other] # None <=> bindings[other] # None
  BY <1>1, <1>2, <1>3 DEF BindingInv, OwnTypeOK
<1>7. RequestsAreSound'
  <2>1. RequestIsSound(request[h])'
    BY <1>4 DEF RequestIsSound
  <2> QED
    BY <1>4, <1>6, <2>1, OtherRequests DEF BindingInv
<1>8. EveryBindingHasItsKey'
  BY <1>1, <1>5, <1>6 DEF BindingInv, OwnTypeOK, EveryBindingHasItsKey
<1> QED
  BY <1>5, <1>7, <1>8 DEF BindingInv

LEMMA BindingStep ==
  ASSUME BindingInv, [BindingNext]_bindingVars
  PROVE  BindingInv'
<1>1. LifecycleInv' /\ RowsLast
  BY PackageSide
<1>2. CASE UNCHANGED <<bindings, bindingOf, archived, bindingAudit, request>>
  <2>1. RequestsAreSound'
    <3> SUFFICES ASSUME NEW h \in Handlers, request[h] # None
                 PROVE  RequestIsSound(request[h])'
      BY <1>2 DEF RequestsAreSound
    <3>1. request[h].place[2] \in Installations /\ RequestIsSound(request[h])
      BY AskedType DEF BindingInv, RequestsAreSound, Places
    <3> QED
      BY <3>1, <1>1, <1>2 DEF RequestIsSound, RowsLast
  <2> QED
    BY <2>1, <1>1, <1>2 DEF BindingInv, OwnTypeOK, EveryBindingHasItsKey
<1>3. ASSUME NEW project \in Projects, ArchiveProject(project)
      PROVE  BindingInv'
  <2>1. RequestsAreSound'
    BY <1>3 DEF ArchiveProject, vars, BindingInv, RequestsAreSound, RequestIsSound
  <2> QED
    BY <2>1, <1>1, <1>3
       DEF ArchiveProject, BindingInv, OwnTypeOK, EveryBindingHasItsKey
<1>4. ASSUME NEW h \in Handlers, EndRequest(h), UNCHANGED ownVars
      PROVE  BindingInv'
  BY <1>1, <1>4, EndMoves, OwnUnmoved DEF ownVars, BindingInv, OwnTypeOK
<1>5. ASSUME NEW h \in Handlers, ReceiveRequest(h)
      PROVE  BindingInv'
  <2>1. ASSUME NEW project \in Projects, NEW i \in Installations, NEW key \in Keys,
               BeginBinding(h, project, i, key)
        PROVE  BindingInv'
    <3>1. \E place \in Places : place = <<project, i>>
      BY DEF Places
    <3>2. PICK place \in Places : place = <<project, i>>
      BY <3>1
    <3>3. /\ Ask(h, "bind", place, key, None)
          /\ rows[place[2]] # None
          /\ UNCHANGED <<vars, ownVars>>
      BY <2>1, <3>2 DEF BeginBinding
    <3>4. /\ request' \in [Handlers -> Requests \cup {None}]
          /\ \A g \in Handlers \ {h} : request'[g] = request[g]
          /\ request'[h].step = "bind"
          /\ request'[h].place = place
          /\ request'[h].key = key
      BY <3>3, AskMoves DEF BindingInv
    <3>5. RequestIsSound(request[h])'
      BY <3>3, <3>4 DEF RequestIsSound, vars
    <3> QED
      BY <1>1, <3>3, <3>4, <3>5, OwnUnmoved DEF ownVars, BindingInv, OwnTypeOK
  <2>2. ASSUME NEW place \in Places, BeginDisable(h, place)
        PROVE  BindingInv'
    <3>1. /\ bindings[place] # None
          /\ Ask(h, "save", place, None, bindings[place])
          /\ UNCHANGED <<vars, ownVars>>
      BY <2>2 DEF BeginDisable
    <3>2. bindings[place] \in BindingRows \cup {None}
      BY DEF BindingInv, OwnTypeOK
    <3>3. /\ request' \in [Handlers -> Requests \cup {None}]
          /\ \A g \in Handlers \ {h} : request'[g] = request[g]
          /\ request'[h].step = "save"
          /\ request'[h].place = place
          /\ request'[h].read = bindings[place]
      BY <3>1, <3>2, AskMoves DEF BindingInv
    <3>4. RequestIsSound(request[h])'
      BY <3>1, <3>3 DEF RequestIsSound, ownVars
    <3> QED
      BY <1>1, <3>1, <3>3, <3>4, OwnUnmoved DEF ownVars, BindingInv, OwnTypeOK
  <2> QED
    BY <1>2, <1>5, <2>1, <2>2 DEF ReceiveRequest, ownVars
<1>6. ASSUME NEW h \in Handlers, ContinueRequest(h)
      PROVE  BindingInv'
  <2>1. CASE BindPackage(h)
    <3>1. CASE EndRequest(h)
      BY <1>4, <2>1, <3>1 DEF BindPackage
    <3>2. CASE Proceed(h, "add")
      <4>1. /\ request[h] # None
            /\ request[h].key \in Keys
            /\ UNCHANGED ownVars
        BY <2>1 DEF BindPackage, Asks, BindingInv, RequestsAreSound, RequestIsSound
      <4>2. /\ request' \in [Handlers -> Requests \cup {None}]
            /\ \A g \in Handlers \ {h} : request'[g] = request[g]
            /\ request'[h].step = "add"
            /\ request'[h].key = request[h].key
        BY <3>2, <4>1, ProceedMoves DEF BindingInv
      <4>3. RequestIsSound(request[h])'
        BY <4>1, <4>2 DEF RequestIsSound
      <4> QED
        BY <1>1, <4>1, <4>2, <4>3, OwnUnmoved DEF ownVars, BindingInv, OwnTypeOK
    <3> QED
      BY <2>1, <3>1, <3>2 DEF BindPackage
  <2>2. CASE AddBinding(h)
    BY <2>2, <1>1, AddStep
  <2>3. CASE ReplayBinding(h)
    <3>1. /\ request[h] # None
          /\ request[h].key \in Keys
          /\ bindingOf[request[h].key] \in Places
          /\ Ask(h, "audit", bindingOf[request[h].key], request[h].key, None)
          /\ UNCHANGED ownVars
      BY <2>3 DEF ReplayBinding, Replays, Asks, BindingInv, OwnTypeOK, RequestsAreSound,
                  RequestIsSound
    <3>2. /\ request' \in [Handlers -> Requests \cup {None}]
          /\ \A g \in Handlers \ {h} : request'[g] = request[g]
          /\ request'[h].step = "audit"
      BY <3>1, AskMoves DEF BindingInv
    <3>3. RequestIsSound(request[h])'
      BY <3>2 DEF RequestIsSound
    <3> QED
      BY <1>1, <3>1, <3>2, <3>3, OwnUnmoved DEF ownVars, BindingInv, OwnTypeOK
  <2>4. CASE SaveBinding(h)
    BY <2>4, <1>1, SaveStep
  <2>5. CASE AuditBinding(h)
    <3>1. /\ request[h] # None
          /\ EndRequest(h)
          /\ UNCHANGED <<bindings, bindingOf, archived>>
          /\ bindingAudit' = bindingAudit \cup
               {<<IF request[h].read = None THEN "created" ELSE "disabled", request[h].place>>}
      BY <2>5 DEF AuditBinding, Asks
    <3>2. bindingAudit' \subseteq {"created", "disabled"} \X Places
      BY <3>1, AskedType DEF BindingInv, OwnTypeOK
    <3> QED
      BY <1>1, <3>1, <3>2, EndMoves, OwnUnmoved DEF BindingInv
  <2>6. CASE RefuseBinding(h)
    BY <1>4, <2>6 DEF RefuseBinding
  <2> QED
    BY <1>2, <1>6, <2>1, <2>2, <2>3, <2>4, <2>5, <2>6 DEF ContinueRequest, ownVars
<1>7. ASSUME NEW h \in Handlers, DieBinding(h)
      PROVE  BindingInv'
  BY <1>4, <1>7 DEF DieBinding
<1> QED
  BY <1>2, <1>3, <1>5, <1>6, <1>7
     DEF BindingNext, RequestNext, bindingVars, requestVars, ownVars

LEMMA BindingInvariant == BindingSpec => []BindingInv
<1>1. BindingInit => BindingInv
  BY LifecycleInit DEF BindingInit, BindingInv, OwnTypeOK, RequestsAreSound,
                       EveryBindingHasItsKey
<1>2. BindingInv /\ [BindingNext]_bindingVars => BindingInv'
  BY BindingStep
<1> QED
  BY <1>1, <1>2, PTL DEF BindingSpec

RacedTypeOK == raced \subseteq Installations

(* Every reachable state is well-typed. *)
THEOREM BindingTypeCorrect == BindingSpec => []BindingTypeOK
<1>1. BindingInit => RacedTypeOK
  BY DEF BindingInit, RacedTypeOK
<1>2. RacedTypeOK /\ [BindingNext]_bindingVars => RacedTypeOK'
  BY DEF BindingNext, bindingVars, Shared, RacedTypeOK
<1>3. BindingInv /\ RacedTypeOK => BindingTypeOK
  BY DEF BindingInv, BindingTypeOK, OwnTypeOK, LifecycleInv, RacedTypeOK
<1> QED
  BY <1>1, <1>2, <1>3, BindingInvariant, PTL DEF BindingSpec

(* However many threads race or die: every binding is named by exactly one    *)
(* key, and every key that was used names a binding.                          *)
THEOREM BindingsKeepTheirKeys == BindingSpec => []EveryBindingHasItsKey
<1>1. BindingInv => EveryBindingHasItsKey
  BY DEF BindingInv
<1> QED
  BY <1>1, BindingInvariant, PTL

-------------------------------------------------------------------------------
(* Packages that no two threads have been at work on at once, however many    *)
(* threads there are and whatever they do elsewhere.  What the only thread at *)
(* work on such a package has read of it is still so, which makes what it     *)
(* saves as good as what it read.                                             *)

Consistent(row) ==
  /\ row.state \in {"RELEASED_TO_ENV", "ENABLED", "DISABLED"} /\ ~row.uninstalled
       => Granted(row) /\ row.bindings # {}
  /\ row.uninstalled => /\ row.state \in {"DISABLED", "REVOKED"}
                        /\ row.granted = {}
                        /\ row.bindings = {}

(* A copy that may take the place of a row.                                   *)
Follows(copy, row) ==
  /\ ~row.uninstalled
  /\ copy.uninstalled \/ row.bindings \subseteq copy.bindings
  /\ row.state = "REVOKED" => copy.state = "REVOKED"
  /\ Consistent(copy)

(* What the copy says of the operation that made it.                          *)
Says(copy, operation) ==
  /\ operation \in DOMAIN Target => copy.state = Target[operation]
  /\ operation \in ReleaseOperations => ~copy.uninstalled
  /\ operation = "grant" => Granted(copy)
  /\ operation = "uninstall" => copy.uninstalled

Faithful(work) ==
  /\ work.step \in Saving => Follows(work.copy, rows[work.installation])
  /\ work.step = "addRelease" => work.operation = "release"
  /\ work.step = "update" => work.loaded = rows[work.installation]
  /\ Says(work.copy, work.operation)
  /\ work.step \in {"load", "update", "audit", "answer"}
       /\ work.operation \in {"enable", "disable", "revoke"}
     => releases[work.installation][work.environment] = Target[work.operation]
  /\ work.step \in {"audit", "answer"} /\ work.operation \notin {"release", "replay"}
     => rows[work.installation] = work.copy

RacesAreSeen == Shared \subseteq raced

HandlersAreFaithful ==
  \A h \in Handlers : handler[h] # Idle /\ handler[h].installation \notin raced =>
    Faithful(handler[h])

InsideInv ==
  LifecycleInv /\ RacesAreSeen /\ HandlersAreFaithful /\ RowsAreSelfConsistent

RacesAreWatched == raced' = raced \cup Shared'

(* How a step may move the row and the releases of such a package. *)
RowAdvances(i) ==
  rows[i] # None =>
    /\ rows'[i] # None
    /\ rows'[i].uninstalled \/ rows[i].bindings \subseteq rows'[i].bindings
    /\ rows[i].state = "REVOKED" => rows'[i].state = "REVOKED"
    /\ rows[i].uninstalled => rows'[i] = rows[i] /\ releases'[i] = releases[i]

RowsAdvance == \A i \in Installations \ raced : RowAdvances(i)

LEMMA ConsistentRows ==
  ASSUME NEW i
  PROVE  SelfConsistent(i) <=> (rows[i] # None => Consistent(rows[i]))
  BY DEF SelfConsistent, Consistent

LEMMA UnmovedAdvance ==
  ASSUME UNCHANGED <<rows, releases>>
  PROVE  RowsAdvance
  BY DEF RowsAdvance, RowAdvances

(* What an operation accepts, it leaves consistent. *)
LEMMA CopiesFollow ==
  ASSUME NEW operation \in Operations \ {"install", "replay"}, NEW record \in Rows,
         Consistent(record), Accepted(operation, record),
         NEW copy \in Copies(operation, record)
  PROVE  Follows(copy, record) /\ Says(copy, operation)
<1>1. ~record.uninstalled
  BY DEF Accepted, RequireActiveRecord
<1>2. CASE operation \in DOMAIN Target
  <2>1. /\ copy.state = Target[operation]
        /\ Granted(copy) <=> Granted(record)
        /\ copy.bindings = record.bindings
        /\ copy.uninstalled = record.uninstalled
    BY <1>2, TargetFacts DEF Copies, Rows, Granted
  <2>2. <<record.state, Target[operation]>> \in AllowedTransitions
    BY <1>2 DEF Accepted, RequireTransition
  <2>3. record.state # "REVOKED"
    BY <2>2 DEF AllowedTransitions
  <2>4. Target[operation] \in {"RELEASED_TO_ENV", "ENABLED", "DISABLED"} =>
          Granted(record) /\ record.bindings # {}
    <3>1. CASE operation = "release"
      BY <3>1 DEF Accepted, Releasable
    <3>2. CASE operation \in {"enable", "disable"}
      <4>1. record.state \in {"RELEASED_TO_ENV", "ENABLED", "DISABLED"}
        BY <2>2, <3>2 DEF Target, AllowedTransitions, ReleaseOperations
      <4> QED
        BY <4>1, <1>1 DEF Consistent
    <3>3. CASE operation \in {"markTested", "approve", "revoke"}
      BY <3>3 DEF Target, ReleaseOperations
    <3> QED
      BY <3>1, <3>2, <3>3, <1>2, TargetFacts
  <2>5. Follows(copy, record)
    BY <1>1, <2>1, <2>3, <2>4 DEF Follows, Consistent
  <2> QED
    BY <1>1, <1>2, <2>1, <2>5, TargetFacts DEF Says
<1>3. CASE operation = "grant"
  <2>1. copy = [record EXCEPT !.granted = record.permissions]
    BY <1>3, TargetFacts DEF Copies
  <2>2. /\ copy.state = record.state
        /\ Granted(copy)
        /\ copy.bindings = record.bindings
        /\ copy.uninstalled = record.uninstalled
    BY <2>1 DEF Rows, Granted
  <2> QED
    BY <1>1, <1>3, <2>2, TargetFacts DEF Follows, Says, Consistent, ReleaseOperations
<1>4. CASE operation = "bind"
  <2>1. PICK ref \in BindingRefs : copy = [record EXCEPT !.bindings = @ \cup {ref}]
    BY <1>4, TargetFacts DEF Copies
  <2>2. /\ copy.state = record.state
        /\ Granted(copy) <=> Granted(record)
        /\ copy.bindings = record.bindings \cup {ref}
        /\ copy.uninstalled = record.uninstalled
    BY <2>1 DEF Rows, Granted
  <2> QED
    BY <1>1, <1>4, <2>2, TargetFacts DEF Follows, Says, Consistent, ReleaseOperations
<1>5. CASE operation = "uninstall"
  <2>1. copy = [record EXCEPT !.granted = {}, !.bindings = {}, !.uninstalled = TRUE]
    BY <1>5, TargetFacts DEF Copies
  <2>2. /\ copy.state = record.state
        /\ copy.granted = {}
        /\ copy.bindings = {}
        /\ copy.uninstalled
    BY <2>1 DEF Rows
  <2>3. record.state \in {"DISABLED", "REVOKED"}
    BY <1>5 DEF Accepted, Uninstallable
  <2> QED
    BY <1>1, <1>5, <2>2, <2>3, TargetFacts DEF Follows, Says, Consistent, ReleaseOperations
<1> QED
  BY <1>2, <1>3, <1>4, <1>5, TargetFacts DEF Operations, ReleaseOperations, RowOperations

(* A row that nobody has touched since it was loaded becomes the copy.        *)
LEMMA WrittenIsCopy ==
  ASSUME NEW row \in Rows, NEW copy \in Rows
  PROVE  Written(row, copy, row) = copy
<1>1. DOMAIN row = {"state", "permissions", "granted", "bindings", "uninstalled"}
  BY DEF Rows
<1>2. \A column \in DOMAIN row :
        (IF copy[column] = row[column] THEN row[column] ELSE copy[column]) = copy[column]
  OBVIOUS
<1>3. copy = [column \in {"state", "permissions", "granted", "bindings", "uninstalled"} |->
              copy[column]]
  BY DEF Rows
<1> QED
  BY <1>1, <1>2, <1>3 DEF Written

(* Of a package that is not raced, only the thread at work on it moves        *)
(* anything.                                                                  *)
LEMMA OneMoves ==
  ASSUME InsideInv, RacesAreWatched, LifecycleInv',
         NEW h \in Handlers, NEW i \in Installations,
         \A g \in Handlers \ {h} : handler'[g] = handler[g],
         handler'[h] # Idle => handler'[h].installation = i,
         \A j \in Installations \ {i} : rows'[j] = rows[j] /\ releases'[j] = releases[j],
         UNCHANGED <<rows, releases>> \/ WorksOn(h, i),
         i \notin raced /\ handler'[h] # Idle => Faithful(handler[h])',
         i \notin raced => SelfConsistent(i)'
  PROVE  InsideInv'
<1>1. RacesAreSeen' /\ raced \subseteq raced'
  BY DEF RacesAreSeen, RacesAreWatched
<1>2. HandlersAreFaithful'
  <2> SUFFICES ASSUME NEW g \in Handlers, handler'[g] # Idle,
                      handler'[g].installation \notin raced'
               PROVE  Faithful(handler[g])'
    BY DEF HandlersAreFaithful
  <2>1. CASE g = h
    BY <2>1, <1>1
  <2>2. CASE g # h
    <3>1. /\ handler'[g] = handler[g]
          /\ handler[g].installation \notin raced
          /\ handler[g].installation \in Installations
          /\ Faithful(handler[g])
      BY <2>2, <1>1, BusyType DEF InsideInv, HandlersAreFaithful, LifecycleInv
    <3>2. CASE UNCHANGED <<rows, releases>>
      BY <3>1, <3>2 DEF Faithful
    <3>3. CASE WorksOn(h, i)
      <4>1. handler[g].installation # i
        BY <2>2, <3>1, <3>3 DEF WorksOn, Shared, InsideInv, RacesAreSeen
      <4> QED
        BY <3>1, <4>1 DEF Faithful
    <3> QED
      BY <3>2, <3>3
  <2> QED
    BY <2>1, <2>2
<1>3. RowsAreSelfConsistent'
  <2> SUFFICES ASSUME NEW j \in Installations, j \notin raced'
               PROVE  SelfConsistent(j)'
    BY DEF RowsAreSelfConsistent
  <2> QED
    BY <1>1 DEF InsideInv, RowsAreSelfConsistent, SelfConsistent
<1> QED
  BY <1>1, <1>2, <1>3 DEF InsideInv

LEMMA OneReceives ==
  ASSUME InsideInv, RacesAreWatched, NEW h \in Handlers, Receive(h)
  PROVE  InsideInv' /\ UNCHANGED <<rows, releases>>
<1>1. LifecycleInv' /\ UNCHANGED <<rows, releases>> /\ TypeOK
  BY BeginSteps, ReceiveKeepsRows DEF InsideInv, LifecycleInv
<1>2. \A i \in Installations : i \notin raced => SelfConsistent(i) /\ SelfConsistent(i)'
  BY <1>1 DEF InsideInv, RowsAreSelfConsistent, SelfConsistent
<1>a. ASSUME NEW step \in Steps, NEW operation \in Operations, NEW i \in Installations,
             NEW environment \in Environments \cup {None}, NEW copy \in Rows,
             Hold(h, step, operation, i, environment, copy, None),
             step \in {"add", "audit", "load", "readRelease"},
             i \notin raced /\ step \in {"load", "readRelease"} => Follows(copy, rows[i]),
             step \in {"add", "audit", "load"} =>
               operation \notin {"enable", "disable", "revoke"},
             step = "audit" => operation = "replay",
             i \notin raced => Says(copy, operation)
      PROVE  InsideInv'
  <2>1. /\ \A g \in Handlers \ {h} : handler'[g] = handler[g]
        /\ handler'[h] = [step |-> step, operation |-> operation, installation |-> i,
                          environment |-> environment, copy |-> copy, loaded |-> None]
    BY <1>1, <1>a, HoldMoves
  <2>2. /\ handler'[h].step = step
        /\ handler'[h].operation = operation
        /\ handler'[h].installation = i
        /\ handler'[h].copy = copy
    BY <2>1
  <2>3. i \notin raced => Faithful(handler[h])'
    BY <1>1, <1>a, <2>2 DEF Faithful, Saving
  <2> QED
    BY <1>1, <1>2, <2>1, <2>2, <2>3, OneMoves
<1>b. \A copy : Says(copy, "install") /\ Says(copy, "replay")
  BY TargetFacts DEF Says, ReleaseOperations
<1>3. ASSUME NEW i \in Installations, BeginInstall(h, i)
      PROVE  InsideInv'
  <2>1. CASE rows[i] = None
    <3>1. PICK permissions \in SUBSET Permissions :
            Hold(h, "add", "install", i, None, NewRow(permissions), None)
      BY <1>3, <2>1 DEF BeginInstall
    <3>2. NewRow(permissions) \in Rows
      BY DEF NewRow, Rows, States
    <3> QED
      BY <3>1, <3>2, <1>a, <1>b DEF Steps, Operations, RowOperations
  <2>2. CASE rows[i] # None
    <3>1. Hold(h, "audit", "replay", i, None, rows[i], None) /\ rows[i] \in Rows
      BY <1>1, <1>3, <2>2 DEF BeginInstall, TypeOK
    <3> QED
      BY <3>1, <1>a, <1>b DEF Steps, Operations
  <2> QED
    BY <2>1, <2>2
<1>4. ASSUME NEW i \in Installations, UninstallAgain(h, i)
      PROVE  InsideInv'
  <2>1. Hold(h, "audit", "replay", i, None, rows[i], None) /\ rows[i] \in Rows
    BY <1>1, <1>4 DEF UninstallAgain, TypeOK
  <2> QED
    BY <2>1, <1>a, <1>b DEF Steps, Operations
<1>5. ASSUME NEW i \in Installations, NEW operation \in Operations \ {"install", "replay"},
             NEW environment \in Environments \cup {None},
             Begin(h, operation, i, environment)
      PROVE  InsideInv'
  <2>1. /\ rows[i] \in Rows
        /\ i \notin raced => Consistent(rows[i])
        /\ Accepted(operation, rows[i])
    BY <1>1, <1>2, <1>5, ConsistentRows DEF Begin, TypeOK
  <2>2. PICK copy \in Copies(operation, rows[i]) :
          IF operation \in ReleaseOperations
          THEN Hold(h, "readRelease", operation, i, environment, copy, None)
          ELSE Hold(h, "load", operation, i, None, copy, None)
    BY <1>5 DEF Begin
  <2>3. /\ copy \in Rows
        /\ i \notin raced => Follows(copy, rows[i]) /\ Says(copy, operation)
    BY <2>1, CopiesFacts, CopiesFollow
  <2>4. CASE operation \in ReleaseOperations
    BY <2>2, <2>3, <2>4, <1>a DEF Steps
  <2>5. CASE operation \notin ReleaseOperations
    BY <2>2, <2>3, <2>5, <1>a DEF Steps, ReleaseOperations
  <2> QED
    BY <2>4, <2>5
<1> QED
  <2>1. CASE \E i \in Installations : BeginInstall(h, i)
    BY <1>1, <2>1, <1>3
  <2>2. CASE \E i \in Installations : UninstallAgain(h, i)
    BY <1>1, <2>2, <1>4
  <2>3. CASE \E i \in Installations, operation \in RowOperations \ {"install"} :
               Begin(h, operation, i, None)
    BY <1>1, <2>3, <1>5 DEF Operations, RowOperations, ReleaseOperations
  <2>4. CASE \E i \in Installations, operation \in ReleaseOperations,
                environment \in Environments : Begin(h, operation, i, environment)
    BY <1>1, <2>4, <1>5 DEF Operations, ReleaseOperations
  <2> QED
    BY <2>1, <2>2, <2>3, <2>4 DEF Receive

LEMMA OneContinues ==
  ASSUME InsideInv, RacesAreWatched, NEW h \in Handlers, Continue(h)
  PROVE  InsideInv' /\ RowsAdvance
<1> USE DEF InsideInv
<1> DEFINE work == handler[h]
<1>0. PICK i : i = work.installation
  OBVIOUS
<1>1. work # Idle
  BY DEF Continue, AddInstallation, ReadRelease, AddRelease, SaveRelease, LoadRow,
         UpdateRow, AppendAudit, Answer, Collide, At
<1>2. /\ LifecycleInv' /\ TypeOK
      /\ work.step \in Steps
      /\ work.operation \in Operations
      /\ i \in Installations
      /\ work.environment \in Environments \cup {None}
      /\ work.copy \in Rows
      /\ Sound(work)
      /\ i \notin raced => Faithful(work) /\ SelfConsistent(i)
      /\ WorksOn(h, i)
      /\ i = work.installation
  BY <1>0, <1>1, AdvanceSteps, BusyType
     DEF LifecycleInv, HandlersAreSound, HandlersAreFaithful, RowsAreSelfConsistent, WorksOn
<1>a. ASSUME NEW step \in Steps, Advance(h, step)
      PROVE  /\ \A g \in Handlers \ {h} : handler'[g] = handler[g]
             /\ handler'[h].step = step
             /\ handler'[h].operation = work.operation
             /\ handler'[h].installation = i
             /\ handler'[h].environment = work.environment
             /\ handler'[h].copy = work.copy
  <2>1. /\ \A g \in Handlers \ {h} : handler'[g] = handler[g]
        /\ handler'[h] = [step |-> step, operation |-> work.operation,
                          installation |-> i, environment |-> work.environment,
                          copy |-> work.copy, loaded |-> None]
    BY <1>1, <1>2, <1>a, AdvanceMoves
  <2> QED
    BY <2>1
<1>b. ASSUME \A g \in Handlers \ {h} : handler'[g] = handler[g],
             handler'[h] # Idle => handler'[h].installation = i,
             \A j \in Installations \ {i} : rows'[j] = rows[j] /\ releases'[j] = releases[j],
             i \notin raced =>
               /\ handler'[h] # Idle => Faithful(handler[h])'
               /\ SelfConsistent(i)'
               /\ RowAdvances(i)
      PROVE  InsideInv' /\ RowsAdvance
  <2>1. InsideInv'
    BY <1>2, <1>b, OneMoves
  <2>2. RowsAdvance
    <3> SUFFICES ASSUME NEW j \in Installations, j \notin raced
                 PROVE  RowAdvances(j)
      BY DEF RowsAdvance
    <3> QED
      BY <1>b DEF RowAdvances
  <2> QED
    BY <2>1, <2>2
<1>c. ASSUME UNCHANGED <<rows, releases>>, i \notin raced
      PROVE  SelfConsistent(i)' /\ RowAdvances(i)
  BY <1>2, <1>c DEF SelfConsistent, RowAdvances
<1>d. ASSUME NEW state, releases' = [releases EXCEPT ![i][work.environment] = state],
             rows' = rows
      PROVE  /\ \A j \in Installations \ {i} : rows'[j] = rows[j] /\ releases'[j] = releases[j]
             /\ i \notin raced => SelfConsistent(i)'
             /\ ~rows[i].uninstalled => RowAdvances(i)
  BY <1>2, <1>d DEF TypeOK, SelfConsistent, RowAdvances
<1>e. ASSUME NEW row, rows' = [rows EXCEPT ![i] = row], releases' = releases
      PROVE  /\ \A j \in Installations \ {i} : rows'[j] = rows[j] /\ releases'[j] = releases[j]
             /\ rows'[i] = row
  BY <1>2, <1>e DEF TypeOK
<1>3. CASE AddInstallation(h)
  <2>1. /\ work.step = "add"
        /\ rows[i] = None
        /\ rows' = [rows EXCEPT ![i] = work.copy]
        /\ releases' = releases
        /\ Advance(h, "audit")
        /\ "audit" \in Steps
    BY <1>2, <1>3 DEF AddInstallation, At, Steps
  <2>2. \E permissions \in SUBSET Permissions : work.copy = NewRow(permissions)
    BY <1>2, <2>1 DEF Sound, NewRows
  <2>3. Consistent(work.copy) /\ work.copy.state = "INSTALLED_DISABLED"
    BY <2>2 DEF NewRow, Consistent
  <2>4. i \notin raced => SelfConsistent(i)' /\ RowAdvances(i)
    BY <2>1, <2>3, <1>e DEF SelfConsistent, Consistent, RowAdvances
  <2>5. i \notin raced => Faithful(handler[h])'
    <3> SUFFICES ASSUME i \notin raced PROVE Faithful(handler[h])'
      OBVIOUS
    <3>1. work.operation \in DOMAIN Target => work.copy.state = Target[work.operation]
      BY <1>2 DEF Faithful, Says
    <3>2. work.operation \notin {"enable", "disable", "revoke"}
      BY <2>3, <3>1, TargetFacts
    <3> QED
      BY <1>2, <1>a, <2>1, <3>2, <1>e DEF Faithful, Saving
  <2> QED
    BY <2>1, <2>4, <2>5, <1>a, <1>b, <1>e
<1>4. CASE ReadRelease(h)
  <2> DEFINE next == AfterRead(work.operation, releases[i][work.environment])
  <2>1. /\ work.step = "readRelease"
        /\ UNCHANGED <<rows, releases>>
        /\ IF next = "missing" THEN Finish(h) ELSE Advance(h, next)
    BY <1>2, <1>4 DEF ReadRelease, At
  <2>2. CASE next = "missing"
    BY <1>2, <2>1, <2>2, <1>b, <1>c, FinishMoves
  <2>3. CASE next # "missing"
    <3>1. /\ next \in {"addRelease", "saveRelease", "answer"}
          /\ next \in {"answer", "addRelease"} => work.operation = "release"
      BY <2>3 DEF AfterRead
    <3>2. next \in Steps /\ Advance(h, next)
      BY <2>1, <2>3, <3>1 DEF Steps
    <3> HIDE DEF next
    <3>3. i \notin raced => Faithful(handler[h])'
      BY <1>2, <1>a, <2>1, <3>1, <3>2 DEF Faithful, Saving
    <3> QED
      BY <2>1, <3>2, <3>3, <1>a, <1>b, <1>c
  <2> QED
    BY <2>2, <2>3
<1>5. CASE AddRelease(h)
  <2>1. /\ work.step = "addRelease"
        /\ releases[i][work.environment] = None
        /\ releases' = [releases EXCEPT ![i][work.environment] = "RELEASED_DISABLED"]
        /\ rows' = rows
        /\ Advance(h, "load")
        /\ "load" \in Steps
    BY <1>2, <1>5 DEF AddRelease, At, Steps
  <2>2. i \notin raced => ~rows[i].uninstalled /\ work.operation = "release"
    BY <1>2, <2>1 DEF Faithful, Follows, Saving
  <2>3. i \notin raced => Faithful(handler[h])'
    BY <1>2, <1>a, <2>1, <2>2 DEF Faithful, Saving
  <2> QED
    BY <2>1, <2>2, <2>3, <1>a, <1>b, <1>d
<1>6. CASE SaveRelease(h)
  <2>1. /\ work.step = "saveRelease"
        /\ releases' = [releases EXCEPT ![i][work.environment] = Target[work.operation]]
        /\ rows' = rows
        /\ Advance(h, "load")
        /\ "load" \in Steps
    BY <1>2, <1>6 DEF SaveRelease, At, Steps
  <2>2. i \notin raced => ~rows[i].uninstalled
    BY <1>2, <2>1 DEF Faithful, Follows, Saving
  <2>3. work.environment \in Environments
    BY <1>2, <2>1 DEF Sound
  <2>4. releases'[i][work.environment] = Target[work.operation]
    BY <1>2, <2>1, <2>3 DEF TypeOK
  <2>5. i \notin raced => Faithful(handler[h])'
    BY <1>2, <1>a, <2>1, <2>4 DEF Faithful, Saving
  <2> QED
    BY <2>1, <2>2, <2>5, <1>a, <1>b, <1>d
<1>7. CASE LoadRow(h)
  <2>1. /\ work.step = "load"
        /\ UNCHANGED <<rows, releases>>
        /\ Hold(h, "update", work.operation, i, work.environment, work.copy, rows[i])
        /\ "update" \in Steps
        /\ rows[i] \in Rows
    BY <1>2, <1>7 DEF LoadRow, At, Steps, Sound, Saving, TypeOK
  <2>2. /\ \A g \in Handlers \ {h} : handler'[g] = handler[g]
        /\ handler'[h] = [step |-> "update", operation |-> work.operation,
                          installation |-> i, environment |-> work.environment,
                          copy |-> work.copy, loaded |-> rows[i]]
    BY <1>2, <2>1, HoldMoves
  <2>3. /\ handler'[h].step = "update"
        /\ handler'[h].operation = work.operation
        /\ handler'[h].installation = i
        /\ handler'[h].environment = work.environment
        /\ handler'[h].copy = work.copy
        /\ handler'[h].loaded = rows[i]
    BY <2>2
  <2>4. i \notin raced => Faithful(handler[h])'
    BY <1>2, <2>1, <2>3 DEF Faithful, Saving
  <2> QED
    BY <2>1, <2>2, <2>3, <2>4, <1>b, <1>c
<1>8. CASE UpdateRow(h)
  <2>1. /\ work.step = "update"
        /\ rows' = [rows EXCEPT ![i] = Written(rows[i], work.copy, work.loaded)]
        /\ releases' = releases
        /\ Advance(h, "audit")
        /\ "audit" \in Steps
    BY <1>2, <1>8 DEF UpdateRow, At, Steps
  <2>2. ASSUME i \notin raced
        PROVE  Faithful(handler[h])' /\ SelfConsistent(i)' /\ RowAdvances(i)
    <3>1. /\ rows[i] \in Rows
          /\ work.loaded = rows[i]
          /\ Follows(work.copy, rows[i])
      BY <1>2, <2>1, <2>2 DEF Sound, Faithful, Saving, TypeOK
    <3>2. Written(rows[i], work.copy, work.loaded) = work.copy
      BY <1>2, <3>1, WrittenIsCopy
    <3>3. rows'[i] = work.copy /\ work.copy # None
      BY <1>2, <2>1, <3>2, <1>e, SentinelAssumption
    <3>4. SelfConsistent(i)' /\ RowAdvances(i)
      BY <2>1, <3>1, <3>3 DEF SelfConsistent, Consistent, Follows, RowAdvances
    <3>5. Faithful(handler[h])'
      BY <1>2, <1>a, <2>1, <2>2, <3>3 DEF Faithful, Saving
    <3> QED
      BY <3>4, <3>5
  <2> QED
    BY <2>1, <2>2, <1>a, <1>b, <1>e
<1>9. CASE AppendAudit(h)
  <2>1. /\ work.step = "audit"
        /\ UNCHANGED <<rows, releases>>
        /\ Advance(h, "answer")
        /\ "answer" \in Steps
    BY <1>9 DEF AppendAudit, At, Steps
  <2>2. i \notin raced => Faithful(handler[h])'
    BY <1>2, <1>a, <2>1 DEF Faithful, Saving
  <2> QED
    BY <2>1, <2>2, <1>a, <1>b, <1>c
<1>10. CASE Answer(h) \/ Collide(h)
  <2>1. Finish(h) /\ UNCHANGED <<rows, releases>>
    BY <1>10 DEF Answer, Collide
  <2> QED
    BY <1>2, <2>1, <1>b, <1>c, FinishMoves
<1> QED
  BY <1>3, <1>4, <1>5, <1>6, <1>7, <1>8, <1>9, <1>10 DEF Continue

-------------------------------------------------------------------------------
(* Bindings and packages.  A request that is about to add a binding is either *)
(* at work on the package with a copy that refers to its Project, or has left *)
(* a package that does.                                                       *)

Back(place) ==
  /\ rows[place[2]] # None
  /\ place[1] \in rows[place[2]].bindings \/ rows[place[2]].uninstalled

BindingsAreBacked ==
  \A place \in Places : place[2] \notin raced /\ bindings[place] # None => Back(place)

Carries(work, place) == place[1] \in work.copy.bindings

IsBacked(asked, work) ==
  /\ asked.step # "add" => work = Idle
  /\ asked.step = "add" /\ work # Idle =>
       /\ work.step \in {"load", "update", "audit", "answer"}
       /\ work.installation = asked.place[2]
  /\ asked.step = "add" /\ asked.place[2] \notin raced =>
       IF work # Idle /\ work.step \in {"load", "update"}
       THEN Carries(work, asked.place) ELSE Back(asked.place)

RequestsAreBacked == \A h \in Handlers : request[h] # None => IsBacked(request[h], handler[h])

SoleInv == BindingInv /\ InsideInv /\ BindingsAreBacked /\ RequestsAreBacked

(* As rows advance, what refers back goes on to. *)
LEMMA BackLasts ==
  ASSUME RowsAdvance, NEW place \in Places, place[2] \notin raced, Back(place)
  PROVE  Back(place)'
  BY DEF RowsAdvance, RowAdvances, Back, Places

LEMMA BindingsStayBacked ==
  ASSUME SoleInv, RowsAdvance, RacesAreWatched,
         \A place \in Places : bindings'[place] # None => bindings[place] # None
  PROVE  BindingsAreBacked'
  BY BackLasts DEF SoleInv, BindingsAreBacked, RacesAreWatched

(* The requests of the other threads. *)
LEMMA OthersStayBacked ==
  ASSUME SoleInv, RowsAdvance, RacesAreWatched, NEW h \in Handlers,
         \A g \in Handlers \ {h} : handler'[g] = handler[g] /\ request'[g] = request[g],
         request'[h] # None => IsBacked(request[h], handler[h])'
  PROVE  RequestsAreBacked'
<1> SUFFICES ASSUME NEW g \in Handlers, g # h, request'[g] # None
             PROVE  IsBacked(request[g], handler[g])'
  BY DEF RequestsAreBacked
<1>1. /\ handler'[g] = handler[g]
      /\ request'[g] = request[g]
      /\ IsBacked(request[g], handler[g])
      /\ request[g].place \in Places
  BY AskedType DEF SoleInv, BindingInv, RequestsAreBacked
<1>2. PICK place \in Places : place = request[g].place
  BY <1>1
<1>3. place[2] \notin raced /\ Back(place) => Back(place)'
  BY BackLasts
<1> QED
  BY <1>1, <1>2, <1>3 DEF IsBacked, Carries, Back, RacesAreWatched

LEMMA OthersKeepWork ==
  ASSUME TypeOK, NEW h \in Handlers, Receive(h) \/ Continue(h) \/ Finish(h)
  PROVE  \A g \in Handlers \ {h} : handler'[g] = handler[g]
<1> SUFFICES \E work : handler' = [handler EXCEPT ![h] = work]
  BY DEF TypeOK
<1>1. ASSUME NEW step, NEW operation, NEW i, NEW environment, NEW copy, NEW loaded,
             Hold(h, step, operation, i, environment, copy, loaded)
      PROVE  \E work : handler' = [handler EXCEPT ![h] = work]
  BY <1>1 DEF Hold
<1>2. ASSUME NEW step, Advance(h, step)
      PROVE  \E work : handler' = [handler EXCEPT ![h] = work]
  BY <1>1, <1>2 DEF Advance
<1>3. ASSUME Finish(h)
      PROVE  \E work : handler' = [handler EXCEPT ![h] = work]
  BY <1>3 DEF Finish
<1>4. CASE Receive(h)
  BY <1>1, <1>4 DEF Receive, BeginInstall, Begin, UninstallAgain
<1>5. CASE Continue(h)
  BY <1>1, <1>2, <1>3, <1>5
     DEF Continue, AddInstallation, ReadRelease, AddRelease, SaveRelease, LoadRow,
         UpdateRow, AppendAudit, Answer, Collide
<1> QED
  BY <1>3, <1>4, <1>5

(* bind_project goes through save() and comes out with the reference.         *)
LEMMA BindGoesOn ==
  ASSUME SoleInv, NEW h \in Handlers, Continue(h), InsideInv', RowsAdvance, RacesAreWatched,
         request' = request, request[h] # None
  PROVE  IsBacked(request[h], handler[h])'
<1> DEFINE work == handler[h]
<1>0. PICK place : place = request[h].place
  OBVIOUS
<1>1. /\ work # Idle
      /\ request[h].step = "add"
      /\ work.step \in {"load", "update", "audit", "answer"}
      /\ work.installation = place[2]
      /\ IsBacked(request[h], work)
      /\ place = request[h].place
      /\ place \in Places
      /\ LifecycleInv /\ TypeOK
  <2>1. work # Idle
    BY DEF Continue, AddInstallation, ReadRelease, AddRelease, SaveRelease, LoadRow,
           UpdateRow, AppendAudit, Answer, Collide, At
  <2> QED
    BY <1>0, <2>1, AskedType
       DEF SoleInv, BindingInv, LifecycleInv, RequestsAreBacked, IsBacked
<1>2. /\ work.operation \in Operations
      /\ work.installation \in Installations
      /\ work.environment \in Environments \cup {None}
      /\ work.copy \in Rows
      /\ work.loaded \in Rows \cup {None}
      /\ Sound(work)
      /\ place[2] \notin raced => Faithful(work)
      /\ raced \subseteq raced'
  BY <1>1, BusyType
     DEF LifecycleInv, SoleInv, InsideInv, HandlersAreSound, HandlersAreFaithful,
         RacesAreWatched
<1>3. CASE LoadRow(h)
  <2>1. /\ work.step = "load"
        /\ Hold(h, "update", work.operation, work.installation, work.environment,
                work.copy, rows[work.installation])
        /\ "update" \in Steps
        /\ rows[work.installation] \in Rows \cup {None}
    BY <1>2, <1>1, <1>3 DEF LoadRow, At, Steps, TypeOK
  <2>2. handler'[h] = [step |-> "update", operation |-> work.operation,
                       installation |-> work.installation,
                       environment |-> work.environment, copy |-> work.copy,
                       loaded |-> rows[work.installation]]
        /\ handler'[h] # Idle
    BY <1>1, <1>2, <2>1, HoldMoves
  <2>3. /\ handler'[h].step = "update"
        /\ handler'[h].installation = work.installation
        /\ handler'[h].copy = work.copy
    BY <2>2
  <2> QED
    BY <1>1, <1>2, <2>1, <2>2, <2>3 DEF IsBacked, Carries
<1>4. ASSUME NEW step \in {"audit", "answer"}, Advance(h, step)
      PROVE  /\ handler'[h] # Idle
             /\ handler'[h].step = step
             /\ handler'[h].installation = place[2]
  <2>1. /\ handler'[h] # Idle
        /\ handler'[h] = [step |-> step, operation |-> work.operation,
                          installation |-> work.installation,
                          environment |-> work.environment, copy |-> work.copy,
                          loaded |-> None]
    BY <1>1, <1>4, AdvanceMoves DEF Steps
  <2> QED
    BY <1>1, <2>1
<1>5. CASE UpdateRow(h)
  <2>1. /\ work.step = "update"
        /\ rows' = [rows EXCEPT ![work.installation] =
                      Written(rows[work.installation], work.copy, work.loaded)]
        /\ Advance(h, "audit")
    BY <1>5 DEF UpdateRow, At
  <2>2. ASSUME place[2] \notin raced
        PROVE  Back(place)'
    <3>1. /\ rows[work.installation] \in Rows
          /\ work.loaded = rows[work.installation]
      BY <1>1, <1>2, <2>1, <2>2 DEF Sound, Faithful, Saving, TypeOK
    <3>2. rows'[work.installation] = work.copy
      BY <1>1, <1>2, <2>1, <3>1, WrittenIsCopy DEF TypeOK
    <3>3. Carries(work, place) /\ work.copy # None
      BY <1>1, <1>2, <2>1, <2>2, SentinelAssumption DEF IsBacked
    <3> QED
      BY <1>1, <3>2, <3>3 DEF Carries, Back
  <2> QED
    BY <1>1, <1>2, <1>4, <2>1, <2>2 DEF IsBacked
<1>6. CASE AppendAudit(h)
  <2>1. work.step = "audit" /\ Advance(h, "answer")
    BY <1>6 DEF AppendAudit, At
  <2>2. place[2] \notin raced => Back(place)'
    BY <1>1, <2>1, BackLasts DEF IsBacked
  <2> QED
    BY <1>1, <1>2, <1>4, <2>1, <2>2 DEF IsBacked
<1>7. CASE Answer(h)
  <2>1. work.step = "answer" /\ Finish(h)
    BY <1>7 DEF Answer, At
  <2>2. place[2] \notin raced => Back(place)'
    BY <1>1, <2>1, BackLasts DEF IsBacked
  <2>3. handler'[h] = Idle
    BY <1>1, <2>1, FinishMoves
  <2> QED
    BY <1>1, <1>2, <2>2, <2>3 DEF IsBacked
<1> QED
  BY <1>1, <1>3, <1>5, <1>6, <1>7
     DEF Continue, AddInstallation, ReadRelease, AddRelease, SaveRelease, Collide, At

(* Steps that leave packages and threads inside alone. *)
LEMMA PackagesUnmoved ==
  ASSUME SoleInv, RacesAreWatched, UNCHANGED vars
  PROVE  InsideInv' /\ RowsAdvance /\ raced' = raced
<1>1. LifecycleInv' /\ RowsAdvance
  BY VarsKeep, UnmovedAdvance DEF vars, SoleInv, InsideInv
<1>2. Shared' = Shared /\ raced' = raced
  BY DEF vars, Shared, WorksOn, SoleInv, InsideInv, RacesAreSeen, RacesAreWatched
<1> QED
  BY <1>1, <1>2
     DEF vars, SoleInv, InsideInv, RacesAreSeen, HandlersAreFaithful, Faithful,
         RowsAreSelfConsistent, SelfConsistent

LEMMA OwnStep ==
  ASSUME SoleInv, BindingInv', RacesAreWatched, UNCHANGED vars, NEW h \in Handlers,
         \A g \in Handlers \ {h} : request'[g] = request[g],
         \A place \in Places : bindings'[place] # None =>
           bindings[place] # None \/ place[2] \in raced \/ Back(place),
         request'[h] # None => IsBacked(request'[h], handler[h])
  PROVE  SoleInv' /\ RowsAdvance
<1>1. InsideInv' /\ RowsAdvance /\ raced' = raced
  BY PackagesUnmoved
<1>2. BindingsAreBacked'
  BY <1>1, BackLasts DEF SoleInv, BindingsAreBacked
<1>3. request'[h] # None => IsBacked(request[h], handler[h])'
  BY <1>1 DEF vars, IsBacked, Carries, Back
<1>4. RequestsAreBacked'
  BY <1>1, <1>3, OthersStayBacked DEF vars
<1> QED
  BY <1>1, <1>2, <1>4 DEF SoleInv

LEMMA InsideStep ==
  ASSUME SoleInv, BindingInv', InsideInv', RowsAdvance, RacesAreWatched, bindings' = bindings,
         NEW h \in Handlers,
         \A g \in Handlers \ {h} : handler'[g] = handler[g] /\ request'[g] = request[g],
         request'[h] # None => IsBacked(request[h], handler[h])'
  PROVE  SoleInv' /\ RowsAdvance
  BY BindingsStayBacked, OthersStayBacked DEF SoleInv

LEMMA BindPackageStep ==
  ASSUME SoleInv, BindingInv', RacesAreWatched, NEW h \in Handlers, BindPackage(h)
  PROVE  SoleInv' /\ RowsAdvance
<1>1. /\ request[h] # None
      /\ request[h].step = "bind"
      /\ request[h].place \in Places
      /\ rows[request[h].place[2]] # None
      /\ handler[h] = Idle
      /\ UNCHANGED <<rows, releases, audit, bindings>>
  BY AskedType
     DEF BindPackage, Asks, SoleInv, BindingInv, RequestsAreSound, RequestIsSound,
         RequestsAreBacked, IsBacked, packageVars, ownVars
<1>2. CASE EndRequest(h) /\ UNCHANGED handler
  <2>1. request'[h] = None /\ \A g \in Handlers \ {h} : request'[g] = request[g]
    BY <1>2, EndMoves DEF SoleInv, BindingInv
  <2> QED
    BY <1>1, <1>2, <2>1, OwnStep DEF vars
<1>3. CASE /\ Accepted("bind", rows[request[h].place[2]])
           /\ Hold(h, "load", "bind", request[h].place[2], None,
                   [rows[request[h].place[2]] EXCEPT
                      !.bindings = @ \cup {request[h].place[1]}], None)
           /\ Proceed(h, "add")
  <2>1. /\ \A g \in Handlers \ {h} : request'[g] = request[g]
        /\ request'[h].step = "add"
        /\ request'[h].place = request[h].place
    BY <1>1, <1>3, ProceedMoves DEF SoleInv, BindingInv
  <2>2. PICK place, i : place = request[h].place /\ i = place[2]
    OBVIOUS
  <2>3. PICK copy : copy = [rows[i] EXCEPT !.bindings = @ \cup {place[1]}]
    OBVIOUS
  <2>4. /\ LifecycleInv'
        /\ \A g \in Handlers \ {h} : handler'[g] = handler[g]
        /\ handler'[h] # Idle
        /\ handler'[h].step = "load"
        /\ handler'[h].installation = i
        /\ handler'[h].copy = copy
    BY <1>1, <1>3, <2>2, <2>3, BindMoves DEF SoleInv, BindingInv
  <2>5. handler'[h].operation = "bind"
    BY <1>3 DEF Hold, SoleInv, BindingInv, LifecycleInv, TypeOK
  <2>6. i \in Installations /\ place[1] \in Projects /\ rows[i] \in Rows
    BY <1>1, <2>2, <2>3 DEF Places, SoleInv, BindingInv, LifecycleInv, TypeOK
  <2>7. /\ copy \in Rows
        /\ copy.state = rows[i].state
        /\ Granted(copy) <=> Granted(rows[i])
        /\ copy.uninstalled = rows[i].uninstalled
        /\ copy.bindings = rows[i].bindings \cup {place[1]}
    BY <2>3, <2>6, BoundCopy
  <2>8. /\ ~rows[i].uninstalled
        /\ i \notin raced => SelfConsistent(i) /\ SelfConsistent(i)' /\ Consistent(rows[i])
    BY <1>1, <1>3, <2>2, <2>6, ConsistentRows
       DEF Accepted, RequireActiveRecord, SoleInv, InsideInv, RowsAreSelfConsistent,
           SelfConsistent
  <2>9. i \notin raced => Follows(copy, rows[i])
    BY <2>7, <2>8 DEF Follows, Consistent
  <2>10. Says(copy, "bind")
    BY TargetFacts DEF Says, ReleaseOperations
  <2>11. i \notin raced => Faithful(handler[h])'
    BY <1>1, <2>4, <2>5, <2>9, <2>10 DEF Faithful
  <2>12. InsideInv' /\ RowsAdvance
    BY <1>1, <2>4, <2>6, <2>8, <2>11, OneMoves, UnmovedAdvance DEF SoleInv
  <2>13. IsBacked(request[h], handler[h])'
    BY <2>1, <2>2, <2>4, <2>7 DEF IsBacked, Carries
  <2> QED
    BY <1>1, <2>1, <2>4, <2>12, <2>13, InsideStep
<1> QED
  BY <1>2, <1>3 DEF BindPackage

LEMMA SeenAreWatched ==
  ASSUME RacesAreSeen, [BindingNext]_bindingVars
  PROVE  RacesAreWatched
<1>1. CASE BindingNext
  BY <1>1 DEF BindingNext, RacesAreWatched
<1>2. CASE UNCHANGED bindingVars
  BY <1>2 DEF bindingVars, requestVars, vars, RacesAreSeen, RacesAreWatched, Shared, WorksOn
<1> QED
  BY <1>1, <1>2

LEMMA SoleStep ==
  ASSUME SoleInv, [BindingNext]_bindingVars
  PROVE  SoleInv' /\ RowsAdvance
<1>1. /\ BindingInv' /\ RacesAreWatched
      /\ BindingInv /\ OwnTypeOK /\ LifecycleInv /\ TypeOK /\ InsideInv
  BY BindingStep, SeenAreWatched DEF SoleInv, BindingInv, LifecycleInv, InsideInv
<1>2. CASE UNCHANGED bindingVars
  <2>1. InsideInv' /\ RowsAdvance
    BY <1>1, <1>2, PackagesUnmoved DEF bindingVars, requestVars
  <2> QED
    BY <1>1, <1>2, <2>1
       DEF bindingVars, requestVars, vars, ownVars, SoleInv, BindingsAreBacked, Back,
           RequestsAreBacked, IsBacked, Carries
<1>3. ASSUME NEW project \in Projects, ArchiveProject(project)
      PROVE  SoleInv' /\ RowsAdvance
  <2>1. InsideInv' /\ RowsAdvance /\ raced' = raced
    BY <1>1, <1>3, PackagesUnmoved DEF ArchiveProject
  <2> QED
    BY <1>1, <1>3, <2>1
       DEF ArchiveProject, vars, SoleInv, BindingsAreBacked, Back,
           RequestsAreBacked, IsBacked, Carries
<1>4. ASSUME NEW h \in Handlers, EndRequest(h), UNCHANGED <<vars, bindings>>
      PROVE  SoleInv' /\ RowsAdvance
  BY <1>1, <1>4, EndMoves, OwnStep
<1>5. ASSUME NEW h \in Handlers, ReceiveRequest(h)
      PROVE  SoleInv' /\ RowsAdvance
  <2>1. ASSUME NEW step \in {"bind", "save"}, NEW place \in Places,
               NEW key \in Keys \cup {None}, NEW read \in BindingRows \cup {None},
               handler[h] = Idle, Ask(h, step, place, key, read), UNCHANGED <<vars, ownVars>>
        PROVE  SoleInv' /\ RowsAdvance
    <3>1. /\ \A g \in Handlers \ {h} : request'[g] = request[g]
          /\ request'[h].step = step
      BY <1>1, <2>1, AskMoves
    <3>2. IsBacked(request'[h], handler[h])
      BY <2>1, <3>1 DEF IsBacked
    <3> QED
      BY <1>1, <2>1, <3>1, <3>2, OwnStep DEF ownVars
  <2>2. ASSUME NEW project \in Projects, NEW i \in Installations, NEW key \in Keys,
               BeginBinding(h, project, i, key)
        PROVE  SoleInv' /\ RowsAdvance
    BY <2>1, <2>2 DEF BeginBinding, Places
  <2>3. ASSUME NEW place \in Places, BeginDisable(h, place)
        PROVE  SoleInv' /\ RowsAdvance
    BY <1>1, <2>1, <2>3 DEF BeginDisable, OwnTypeOK
  <2>4. CASE /\ request[h] = None
             /\ Receive(h)
             /\ UNCHANGED <<ownVars, request>>
    <3>1. InsideInv' /\ UNCHANGED <<rows, releases>>
      BY <1>1, <2>4, OneReceives
    <3> QED
      BY <1>1, <2>4, <3>1, OthersKeepWork, UnmovedAdvance, InsideStep DEF ownVars
  <2> QED
    BY <1>5, <2>2, <2>3, <2>4 DEF ReceiveRequest
<1>6. ASSUME NEW h \in Handlers, ContinueRequest(h)
      PROVE  SoleInv' /\ RowsAdvance
  <2>1. CASE Continue(h) /\ UNCHANGED <<ownVars, request>>
    <3>1. InsideInv' /\ RowsAdvance
      BY <1>1, <2>1, OneContinues
    <3>2. request'[h] # None => IsBacked(request[h], handler[h])'
      BY <1>1, <2>1, <3>1, BindGoesOn
    <3> QED
      BY <1>1, <2>1, <3>1, <3>2, OthersKeepWork, InsideStep DEF ownVars
  <2>2. CASE AddBinding(h)
    <3>1. /\ request[h] # None
          /\ request[h].place \in Places
          /\ handler[h] = Idle
          /\ request[h].place[2] \in raced \/ Back(request[h].place)
          /\ Proceed(h, "audit")
          /\ bindings' = [bindings EXCEPT ![request[h].place] =
                            [state |-> "ACTIVE", version |-> 1]]
          /\ UNCHANGED vars
      BY <1>1, <2>2, AskedType
         DEF AddBinding, Asks, Bound, SoleInv, RequestsAreBacked, IsBacked
    <3>2. /\ \A g \in Handlers \ {h} : request'[g] = request[g]
          /\ request'[h].step = "audit"
      BY <1>1, <3>1, ProceedMoves
    <3>3. \A place \in Places : bindings'[place] # None =>
            bindings[place] # None \/ place[2] \in raced \/ Back(place)
      BY <1>1, <3>1 DEF OwnTypeOK
    <3>4. IsBacked(request'[h], handler[h])
      BY <3>1, <3>2 DEF IsBacked
    <3> QED
      BY <1>1, <3>1, <3>2, <3>3, <3>4, OwnStep
  <2>3. CASE ReplayBinding(h)
    <3>1. /\ request[h] # None
          /\ handler[h] = Idle
          /\ request[h].key \in Keys
          /\ bindingOf[request[h].key] \in Places
          /\ Ask(h, "audit", bindingOf[request[h].key], request[h].key, None)
          /\ UNCHANGED <<vars, ownVars>>
      BY <1>1, <2>3
         DEF ReplayBinding, Replays, Asks, Bound, BindingInv, OwnTypeOK, RequestsAreSound,
             RequestIsSound
    <3>2. /\ \A g \in Handlers \ {h} : request'[g] = request[g]
          /\ request'[h].step = "audit"
      BY <1>1, <3>1, AskMoves
    <3>3. IsBacked(request'[h], handler[h])
      BY <3>1, <3>2 DEF IsBacked
    <3> QED
      BY <1>1, <3>1, <3>2, <3>3, OwnStep DEF ownVars
  <2>4. CASE SaveBinding(h)
    <3>1. /\ request[h] # None
          /\ handler[h] = Idle
          /\ request[h].place \in Places
          /\ bindings[request[h].place] # None
          /\ Proceed(h, "audit")
          /\ bindings' = [bindings EXCEPT ![request[h].place] =
               [state |-> "DISABLED", version |-> request[h].read.version + 1]]
          /\ UNCHANGED vars
      BY <1>1, <2>4, AskedType
         DEF SaveBinding, Asks, SoleInv, BindingInv, RequestsAreSound, RequestIsSound,
             RequestsAreBacked, IsBacked
    <3>2. /\ \A g \in Handlers \ {h} : request'[g] = request[g]
          /\ request'[h].step = "audit"
      BY <1>1, <3>1, ProceedMoves
    <3>3. \A place \in Places : bindings'[place] # None => bindings[place] # None
      BY <1>1, <3>1 DEF OwnTypeOK
    <3>4. IsBacked(request'[h], handler[h])
      BY <3>1, <3>2 DEF IsBacked
    <3> QED
      BY <1>1, <3>1, <3>2, <3>3, <3>4, OwnStep
  <2>5. CASE AuditBinding(h) \/ RefuseBinding(h)
    BY <1>4, <2>5 DEF AuditBinding, RefuseBinding, ownVars
  <2>6. CASE BindPackage(h)
    BY <1>1, <2>6, BindPackageStep
  <2> QED
    BY <1>6, <2>1, <2>2, <2>3, <2>4, <2>5, <2>6 DEF ContinueRequest
<1>7. ASSUME NEW h \in Handlers, Finish(h), UNCHANGED <<rows, releases, audit, bindings>>,
             \A g \in Handlers \ {h} : request'[g] = request[g], request'[h] = None
      PROVE  SoleInv' /\ RowsAdvance
  <2>1. LifecycleInv' /\ RowsAdvance
    BY <1>1, <1>7, FinishKeeps, UnmovedAdvance
  <2>2. /\ \A g \in Handlers \ {h} : handler'[g] = handler[g]
        /\ handler'[h] = Idle
    BY <1>1, <1>7, FinishMoves
  <2>3. InsideInv'
    <3>1. \E i \in Installations : UNCHANGED <<rows, releases>>
      BY <1>7, ScenarioAssumption
    <3>2. PICK i \in Installations : UNCHANGED <<rows, releases>>
      BY <3>1
    <3>3. i \notin raced => SelfConsistent(i)'
      BY <1>1, <3>2 DEF InsideInv, RowsAreSelfConsistent, SelfConsistent
    <3> QED
      BY <1>1, <1>7, <2>1, <2>2, <3>2, <3>3, OneMoves
  <2> QED
    BY <1>1, <1>7, <2>1, <2>2, <2>3, InsideStep
<1>8. ASSUME NEW h \in Handlers, DieBinding(h)
      PROVE  SoleInv' /\ RowsAdvance
  BY <1>1, <1>7, <1>8, EndMoves DEF DieBinding, packageVars, ownVars
<1>9. ASSUME NEW h \in Handlers, request[h] = None, Die(h), UNCHANGED <<ownVars, request>>
      PROVE  SoleInv' /\ RowsAdvance
  BY <1>7, <1>9 DEF Die, ownVars
<1> QED
  BY <1>2, <1>3, <1>5, <1>6, <1>8, <1>9 DEF BindingNext, RequestNext

LEMMA SoleInvariant == BindingSpec => []SoleInv
<1>1. BindingInit => SoleInv
  <2>1. BindingInit => BindingInv
    BY LifecycleInit DEF BindingInit, BindingInv, OwnTypeOK, RequestsAreSound,
                         EveryBindingHasItsKey
  <2> QED
    BY <2>1 DEF BindingInit, Init, SoleInv, BindingInv, InsideInv, RacesAreSeen, Shared,
                WorksOn, HandlersAreFaithful, RowsAreSelfConsistent, SelfConsistent,
                BindingsAreBacked, RequestsAreBacked
<1>2. SoleInv /\ [BindingNext]_bindingVars => SoleInv'
  BY SoleStep
<1> QED
  BY <1>1, <1>2, PTL DEF BindingSpec

-------------------------------------------------------------------------------
(* Any number of threads, dying anywhere: although bindings and packages are  *)
(* written in different transactions, a package with a binding refers to the  *)
(* Project until it is uninstalled - unless two threads were at work on that  *)
(* very package at once.                                                      *)
THEOREM PackagesReferBack == BindingSpec => []BoundPackagesReferBack
<1>1. SoleInv => BoundPackagesReferBack
  <2> SUFFICES ASSUME SoleInv, NEW project \in Projects, NEW i \in Installations \ raced,
                      bindings[<<project, i>>] # None
               PROVE  /\ rows[i] # None
                      /\ project \in rows[i].bindings \/ rows[i].uninstalled
    BY DEF BoundPackagesReferBack
  <2>1. <<project, i>> \in Places
    BY DEF Places
  <2> QED
    BY <2>1 DEF SoleInv, BindingsAreBacked, Back
<1> QED
  BY <1>1, SoleInvariant, PTL

(* However many threads there are and wherever they die: a released package   *)
(* keeps its grant and a binding until it is revoked or uninstalled, and an   *)
(* uninstalled one keeps neither - unless two were at work on it at once.     *)
THEOREM RowsStayConsistent == BindingSpec => []RowsAreSelfConsistent
<1>1. SoleInv => RowsAreSelfConsistent
  BY DEF SoleInv, InsideInv
<1> QED
  BY <1>1, SoleInvariant, PTL

(* What a client is told of such a package is so when it is told.             *)
THEOREM AnswersStayTrue == BindingSpec => []AnswersAreTrue
<1>1. SoleInv => AnswersAreTrue
  <2> SUFFICES ASSUME SoleInv, NEW h \in Handlers, At(h, "answer"),
                      handler[h].installation \notin raced
               PROVE  TellsTheTruth(h)
    BY DEF AnswersAreTrue
  <2>1. /\ handler[h] # Idle
        /\ handler[h].step = "answer"
        /\ Faithful(handler[h])
        /\ Sound(handler[h])
    BY DEF At, SoleInv, InsideInv, LifecycleInv, HandlersAreFaithful, HandlersAreSound
  <2>2. /\ Target["markTested"] = "TESTED"
        /\ Target["approve"] = "APPROVED"
        /\ Target["enable"] = "ENABLED"
        /\ Target["disable"] = "DISABLED"
        /\ Target["revoke"] = "REVOKED"
    BY DEF Target, ReleaseOperations
  <2> QED
    BY <2>1, <2>2, TargetFacts
       DEF TellsTheTruth, Faithful, Sound, Says, RunAllowed, Saving, ReleaseOperations
<1> QED
  BY <1>1, SoleInvariant, PTL

(* Its revocation is never taken back, and nothing of it moves again once it  *)
(* is uninstalled, whatever any thread does afterwards.                       *)
THEOREM TerminalStatesAreFinal == BindingSpec => TerminalStatesLast
<1>1. SoleInv /\ [BindingNext]_bindingVars =>
        [\A i \in Installations \ raced : rows[i] # None =>
           /\ rows[i].state = "REVOKED" => rows'[i].state = "REVOKED"
           /\ rows[i].uninstalled => rows'[i] = rows[i] /\ releases'[i] = releases[i]]_vars
  BY SoleStep DEF RowsAdvance, RowAdvances
<1> QED
  BY <1>1, SoleInvariant, PTL DEF BindingSpec, TerminalStatesLast

-------------------------------------------------------------------------------
(* Seen from the packages, bindings add nothing but one more reference to     *)
(* bind: whatever the threads do, and wherever they die, the packages move as *)
(* ScenarioLifecycle allows them to with threads that may die anywhere.       *)
Packages == INSTANCE ScenarioProofs
  WITH ProjectRefs <- {},
       DyingSteps <- {"add", "readRelease", "addRelease", "saveRelease", "load", "update",
                      "audit", "answer"}

(* A package is bound by a thread that does nothing else. *)
BindsAreIdle == \A h \in Handlers : Asks(h, "bind") => handler[h] = Idle

RefinementInv == BindingInv /\ BindsAreIdle

LEMMA CopiesOfLifecycle ==
  ASSUME NEW operation \in ReleaseOperations \cup (RowOperations \ {"install"}), NEW record
  PROVE  Copies(operation, record) \subseteq Packages!Copies(operation, record)
<1>1. Target = Packages!Target
  BY DEF Target, Packages!Target, ReleaseOperations, Packages!ReleaseOperations
<1>2. CASE operation = "bind"
  BY <1>1, <1>2, TargetFacts DEF Copies, Packages!Copies
<1>3. CASE operation # "bind"
  BY <1>1, <1>3, TargetFacts DEF Copies, Packages!Copies, ReleaseOperations, RowOperations
<1> QED
  BY <1>2, <1>3

LEMMA AcceptedByLifecycle ==
  ASSUME NEW operation, NEW record
  PROVE  Accepted(operation, record) <=> Packages!Accepted(operation, record)
<1>1. Target = Packages!Target
  BY DEF Target, Packages!Target, ReleaseOperations, Packages!ReleaseOperations
<1> QED
  BY <1>1 DEF Accepted, Packages!Accepted, RequireActiveRecord, Packages!RequireActiveRecord,
       RequireTransition, Packages!RequireTransition, AllowedTransitions,
       Packages!AllowedTransitions, Releasable, Packages!Releasable,
       Granted, Packages!Granted,
       Uninstallable, Packages!Uninstallable

LEMMA BeginsInLifecycle ==
  ASSUME NEW h, NEW i, NEW environment,
         NEW operation \in ReleaseOperations \cup (RowOperations \ {"install"}),
         Begin(h, operation, i, environment)
  PROVE  Packages!Begin(h, operation, i, environment)
<1>1. PICK copy \in Copies(operation, rows[i]) :
        IF operation \in ReleaseOperations
        THEN Hold(h, "readRelease", operation, i, environment, copy, None)
        ELSE Hold(h, "load", operation, i, None, copy, None)
  BY DEF Begin
<1>2. copy \in Packages!Copies(operation, rows[i])
  BY <1>1, CopiesOfLifecycle
<1>3. Packages!Accepted(operation, rows[i])
  BY AcceptedByLifecycle DEF Begin
<1> QED
  BY <1>1, <1>2, <1>3 DEF Begin, Packages!Begin, Hold, Packages!Hold,
     ReleaseOperations, Packages!ReleaseOperations

LEMMA ReceivesInLifecycle ==
  ASSUME NEW h, Receive(h)
  PROVE  Packages!Receive(h)
<1>1. PICK i \in Installations :
        \/ BeginInstall(h, i)
        \/ \E operation \in RowOperations \ {"install"} : Begin(h, operation, i, None)
        \/ \E operation \in ReleaseOperations, environment \in Environments :
             Begin(h, operation, i, environment)
        \/ UninstallAgain(h, i)
  BY DEF Receive
<1>2. CASE BeginInstall(h, i)
  <2>1. Packages!BeginInstall(h, i)
    BY <1>2 DEF BeginInstall, Packages!BeginInstall, Hold, Packages!Hold, NewRow, Packages!NewRow
  <2> QED
    BY <2>1 DEF Packages!Receive
<1>3. CASE UninstallAgain(h, i)
  <2>1. Packages!UninstallAgain(h, i)
    BY <1>3 DEF UninstallAgain, Packages!UninstallAgain, Hold, Packages!Hold
  <2> QED
    BY <2>1 DEF Packages!Receive
<1>4. ASSUME NEW operation \in RowOperations \ {"install"}, Begin(h, operation, i, None)
      PROVE  Packages!Receive(h)
  BY <1>4, BeginsInLifecycle DEF Packages!Receive, RowOperations, Packages!RowOperations
<1>5. ASSUME NEW operation \in ReleaseOperations, NEW environment \in Environments,
             Begin(h, operation, i, environment)
      PROVE  Packages!Receive(h)
  BY <1>5, BeginsInLifecycle DEF Packages!Receive, ReleaseOperations, Packages!ReleaseOperations
<1> QED
  BY <1>1, <1>2, <1>3, <1>4, <1>5

LEMMA ContinuesInLifecycle ==
  ASSUME NEW h, Continue(h)
  PROVE  Packages!Continue(h)
<1> USE DEF At, Packages!At, Advance, Packages!Advance, Hold, Packages!Hold,
            Finish, Packages!Finish
<1>1. Target = Packages!Target
  BY DEF Target, Packages!Target, ReleaseOperations, Packages!ReleaseOperations
<1>2. AddInstallation(h) => Packages!AddInstallation(h)
  BY DEF AddInstallation, Packages!AddInstallation
<1>3. ReadRelease(h) => Packages!ReadRelease(h)
  BY DEF ReadRelease, Packages!ReadRelease, AfterRead, Packages!AfterRead
<1>4. AddRelease(h) => Packages!AddRelease(h)
  BY DEF AddRelease, Packages!AddRelease
<1>5. SaveRelease(h) => Packages!SaveRelease(h)
  BY <1>1 DEF SaveRelease, Packages!SaveRelease
<1>6. LoadRow(h) => Packages!LoadRow(h)
  BY DEF LoadRow, Packages!LoadRow
<1>7. UpdateRow(h) => Packages!UpdateRow(h)
  BY DEF UpdateRow, Packages!UpdateRow, Written, Packages!Written
<1>8. AppendAudit(h) => Packages!AppendAudit(h)
  BY DEF AppendAudit, Packages!AppendAudit, Events, Packages!Events
<1>9. Answer(h) => Packages!Answer(h)
  BY DEF Answer, Packages!Answer
<1>10. Collide(h) => Packages!Collide(h)
  BY DEF Collide, Packages!Collide
<1> QED
  BY <1>2, <1>3, <1>4, <1>5, <1>6, <1>7, <1>8, <1>9, <1>10
     DEF Continue, Packages!Continue

(* bind_project is a "bind" of one more reference. *)
LEMMA BindsInLifecycle ==
  ASSUME RefinementInv, NEW h \in Handlers, BindPackage(h)
  PROVE  Packages!Next \/ UNCHANGED vars
<1> DEFINE i == request[h].place[2]
           project == request[h].place[1]
           copy == [rows[i] EXCEPT !.bindings = @ \cup {project}]
<1>1. CASE UNCHANGED handler
  BY <1>1 DEF BindPackage, packageVars, vars
<1>2. CASE Accepted("bind", rows[i]) /\ Hold(h, "load", "bind", i, None, copy, None)
  <2>1. /\ request[h] # None
        /\ request[h].step = "bind"
        /\ handler[h] = Idle
        /\ UNCHANGED <<rows, releases, audit>>
    BY DEF BindPackage, Asks, packageVars, RefinementInv, BindsAreIdle
  <2>2. i \in Installations /\ project \in BindingRefs /\ rows[i] # None
    BY <2>1, AskedType, ScenarioAssumption
       DEF RefinementInv, BindingInv, RequestsAreSound, RequestIsSound, Places, Projects
  <2>3. copy \in Packages!Copies("bind", rows[i])
    <3>1. "bind" \notin DOMAIN Packages!Target
      BY DEF Packages!Target, Packages!ReleaseOperations
    <3>2. Packages!Copies("bind", rows[i]) =
            {[rows[i] EXCEPT !.bindings = @ \cup {ref}] : ref \in BindingRefs}
      BY <3>1 DEF Packages!Copies
    <3> QED
      BY <2>2, <3>2
  <2>4. Packages!Accepted("bind", rows[i])
    BY <1>2, AcceptedByLifecycle
  <2>5. Packages!Begin(h, "bind", i, None)
    BY <1>2, <2>1, <2>2, <2>3, <2>4
       DEF Packages!Begin, Hold, Packages!Hold, Packages!ReleaseOperations
  <2> QED
    BY <2>2, <2>5 DEF Packages!Next, Packages!Receive, Packages!RowOperations
<1> QED
  BY <1>1, <1>2 DEF BindPackage

(* A thread may die anywhere. *)
LEMMA DiesInLifecycle ==
  ASSUME RefinementInv, NEW h \in Handlers, Finish(h), UNCHANGED <<rows, releases, audit>>
  PROVE  Packages!Next \/ UNCHANGED vars
<1>1. CASE handler[h] = Idle
  <2>1. handler' = handler
    BY <1>1 DEF Finish, RefinementInv, BindingInv, LifecycleInv, TypeOK
  <2> QED
    BY <2>1 DEF vars
<1>2. CASE handler[h] # Idle
  <2>1. handler[h] \in Work
    BY <1>2 DEF RefinementInv, BindingInv, LifecycleInv, TypeOK
  <2>2. Packages!Die(h)
    BY <1>2, <2>1 DEF Packages!Die, Finish, Packages!Finish, Work
  <2> QED
    BY <2>2 DEF Packages!Next
<1> QED
  BY <1>1, <1>2

LEMMA StepsOfLifecycle ==
  ASSUME RefinementInv, [BindingNext]_bindingVars
  PROVE  [Packages!Next]_(Packages!vars)
<1> SUFFICES Packages!Next \/ UNCHANGED vars
  BY DEF vars, Packages!vars
<1>1. ASSUME NEW h \in Handlers, ReceiveRequest(h)
      PROVE  Packages!Next \/ UNCHANGED vars
  BY <1>1, ReceivesInLifecycle
     DEF ReceiveRequest, BeginBinding, BeginDisable, Packages!Next
<1>2. ASSUME NEW h \in Handlers, ContinueRequest(h)
      PROVE  Packages!Next \/ UNCHANGED vars
  <2>1. CASE BindPackage(h)
    BY <2>1, BindsInLifecycle
  <2>2. CASE Continue(h)
    BY <2>2, ContinuesInLifecycle DEF Packages!Next
  <2> QED
    BY <1>2, <2>1, <2>2 DEF ContinueRequest, AddBinding, ReplayBinding, SaveBinding,
                            AuditBinding, RefuseBinding
<1>3. ASSUME NEW h \in Handlers, DieBinding(h) \/ Die(h)
      PROVE  Packages!Next \/ UNCHANGED vars
  BY <1>3, DiesInLifecycle DEF DieBinding, Die, packageVars
<1>4. ASSUME NEW project \in Projects, ArchiveProject(project)
      PROVE  UNCHANGED vars
  BY <1>4 DEF ArchiveProject
<1> QED
  BY <1>1, <1>2, <1>3, <1>4 DEF BindingNext, RequestNext, bindingVars, requestVars

LEMMA IdleStep ==
  ASSUME RefinementInv, [BindingNext]_bindingVars
  PROVE  BindsAreIdle'
<1> USE DEF RefinementInv, BindsAreIdle, Asks
<1> SUFFICES ASSUME NEW g \in Handlers, request'[g] # None, request'[g].step = "bind"
             PROVE  handler'[g] = Idle
  OBVIOUS
<1>1. OwnTypeOK /\ TypeOK
  BY DEF BindingInv, LifecycleInv
<1>2. CASE UNCHANGED bindingVars
  BY <1>2 DEF bindingVars, requestVars, vars
<1>3. ASSUME NEW project \in Projects, ArchiveProject(project)
      PROVE  handler'[g] = Idle
  BY <1>3 DEF ArchiveProject, vars
<1>4. ASSUME NEW h \in Handlers, g # h,
             ReceiveRequest(h) \/ ContinueRequest(h) \/ DieBinding(h)
               \/ (request[h] = None /\ Die(h) /\ UNCHANGED <<ownVars, request>>)
      PROVE  handler'[g] = Idle
  <2>1. request'[g] = request[g]
    BY <1>1, <1>4 DEF ReceiveRequest, ContinueRequest, DieBinding, BeginBinding, BeginDisable,
       BindPackage, AddBinding, ReplayBinding, SaveBinding, AuditBinding, RefuseBinding,
       Ask, Proceed, EndRequest, OwnTypeOK
  <2>2. handler'[g] = handler[g]
    BY <1>1, <1>4 DEF ReceiveRequest, ContinueRequest, DieBinding, BeginBinding, BeginDisable,
       BindPackage, AddBinding, ReplayBinding, SaveBinding, AuditBinding, RefuseBinding,
       vars, Finish, Die, Receive, BeginInstall, Begin, UninstallAgain, Continue,
       AddInstallation, ReadRelease, AddRelease, SaveRelease, LoadRow, UpdateRow, AppendAudit,
       Answer, Collide, Advance, Hold, TypeOK
  <2> QED
    BY <2>1, <2>2
<1>5. CASE ReceiveRequest(g)
  <2>1. CASE request[g] = None /\ UNCHANGED request
    BY <2>1
  <2> QED
    BY <1>5, <2>1 DEF ReceiveRequest, BeginBinding, BeginDisable, vars
<1>6. CASE ContinueRequest(g)
  <2>1. ASSUME NEW step \in {"add", "audit"}, Proceed(g, step)
        PROVE  request'[g].step # "bind"
    BY <2>1, <1>1 DEF Proceed, Ask, OwnTypeOK
  <2>2. ASSUME NEW place, NEW key, NEW read, Ask(g, "audit", place, key, read)
        PROVE  request'[g].step # "bind"
    BY <2>2, <1>1 DEF Ask, OwnTypeOK
  <2>3. EndRequest(g) => request'[g] = None
    BY <1>1 DEF EndRequest, OwnTypeOK
  <2>4. Continue(g) => handler[g] # Idle
    BY DEF Continue, AddInstallation, ReadRelease, AddRelease, SaveRelease, LoadRow, UpdateRow,
           AppendAudit, Answer, Collide, At
  <2> QED
    BY <1>6, <2>1, <2>2, <2>3, <2>4
       DEF ContinueRequest, BindPackage, AddBinding, ReplayBinding, SaveBinding, AuditBinding,
           RefuseBinding
<1>7. CASE DieBinding(g)
  BY <1>1, <1>7 DEF DieBinding, EndRequest, OwnTypeOK
<1>8. CASE request[g] = None /\ UNCHANGED request
  BY <1>8
<1> QED
  BY <1>2, <1>3, <1>4, <1>5, <1>6, <1>7, <1>8 DEF BindingNext, RequestNext

LEMMA RefinementInvariant == BindingSpec => []RefinementInv
<1>1. BindingInit => BindsAreIdle
  BY DEF BindingInit, BindsAreIdle, Asks
<1>2. BindsAreIdle /\ BindingInv /\ [BindingNext]_bindingVars => BindsAreIdle'
  BY IdleStep DEF RefinementInv
<1> QED
  BY <1>1, <1>2, BindingInvariant, PTL DEF BindingSpec, RefinementInv

(* The registry of packages with bindings on top of it is still a lifecycle   *)
(* of packages: create_project_binding and disable_project_binding do nothing *)
(* to a package, its releases, its audit events or a thread at work on them   *)
(* that ScenarioPackageService could not do.                                  *)
THEOREM BindingsImplementLifecycle == BindingSpec => Packages!Spec
<1>1. BindingInit => Packages!Init
  BY DEF BindingInit, Init, Packages!Init
<1>2. RefinementInv /\ [BindingNext]_bindingVars => [Packages!Next]_(Packages!vars)
  BY StepsOfLifecycle
<1> QED
  BY <1>1, <1>2, RefinementInvariant, PTL DEF BindingSpec, Packages!Spec

(* So what is proved of the lifecycle holds with bindings too: for any number *)
(* of threads, dying or not, a revoked or uninstalled package is so for good  *)
(* once no older copy of it is left to be saved, bind_project's included.     *)
THEOREM BoundPackagesComeToRest == BindingSpec => PackagesSettle
<1>1. Packages!PackagesSettle <=> PackagesSettle
  BY DEF Packages!PackagesSettle, PackagesSettle,
         Packages!RevokedForGood, RevokedForGood, Packages!UninstalledForGood, UninstalledForGood,
         Packages!Unsaved, Unsaved, Packages!Saving, Saving, Packages!vars, vars
<1>2. Packages!Spec => Packages!PackagesSettle
  <2>1. /\ Packages!Rows = Rows
        /\ Packages!ReleaseStates = ReleaseStates
        /\ Packages!Work = Work
    BY DEF Packages!Rows, Rows, Packages!ReleaseStates, ReleaseStates, Packages!Work, Work,
           Packages!States, States, Packages!Operations, Operations,
           Packages!RowOperations, RowOperations, Packages!ReleaseOperations, ReleaseOperations
  <2>2. /\ Installations # {} /\ {} \subseteq BindingRefs
        /\ None \notin Packages!Rows \cup Environments \cup Packages!ReleaseStates
        /\ Idle \notin Packages!Work
    BY <2>1, ScenarioAssumption, SentinelAssumption
  <2> QED
    BY <2>2, Packages!PackagesComeToRest
<1> QED
  BY <1>1, <1>2, BindingsImplementLifecycle, PTL
===============================================================================
