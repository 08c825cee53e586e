---------------------------- MODULE ScenarioProofs ----------------------------
(***************************************************************************)
(* Proofs about ScenarioLifecycle: what holds for any number of threads    *)
(* whose saves overwrite each other.                                       *)
(***************************************************************************)
EXTENDS ScenarioLifecycle, TLAPS

(* Where transitions lead: no two of them to the same state. *)
LEMMA TargetFacts ==
  /\ DOMAIN Target = {"markTested", "approve", "release", "enable", "disable", "revoke"}
  /\ \A operation \in DOMAIN Target :
       /\ operation \in Operations
       /\ Target[operation] \in States \ {"INSTALLED_DISABLED"}
       /\ operation \in ReleaseOperations \ {"release"} => Target[operation] \in ReleaseStates
  /\ \A one, other \in DOMAIN Target : Target[one] = Target[other] => one = other
<1> DEFINE D == {"markTested", "approve", "release", "enable", "disable", "revoke"}
<1>1. DOMAIN Target = D
  BY DEF Target, ReleaseOperations
<1>2. /\ Target["markTested"] = "TESTED"
      /\ Target["approve"] = "APPROVED"
      /\ Target["release"] = "RELEASED_TO_ENV"
      /\ Target["enable"] = "ENABLED"
      /\ Target["disable"] = "DISABLED"
      /\ Target["revoke"] = "REVOKED"
  BY DEF Target, ReleaseOperations
<1> QED
  BY <1>1, <1>2 DEF States, ReleaseStates, Operations, ReleaseOperations, RowOperations

(* The copies of a well-typed record are well-typed; a transition's copy is   *)
(* in the transition's state, every other copy stays in the record's.         *)
LEMMA CopiesFacts ==
  ASSUME NEW operation \in Operations \ {"install", "replay"}, NEW record \in Rows,
         NEW copy \in Copies(operation, record)
  PROVE  /\ copy \in Rows
         /\ operation \in DOMAIN Target => copy.state = Target[operation]
         /\ operation \notin DOMAIN Target => copy.state = record.state
<1>1. CASE operation \in DOMAIN Target
  BY <1>1, TargetFacts DEF Copies, Rows
<1>2. CASE operation = "grant"
  BY <1>2, TargetFacts DEF Copies, Rows
<1>3. CASE operation = "bind"
  BY <1>3, TargetFacts DEF Copies, Rows
<1>4. CASE operation = "uninstall"
  BY <1>4, TargetFacts DEF Copies, Rows
<1> QED
  BY <1>1, <1>2, <1>3, <1>4, TargetFacts DEF Operations, ReleaseOperations, RowOperations

(* A mix of two rows, column by column, is a row, with one of their states.   *)
LEMMA WrittenFacts ==
  ASSUME NEW row \in Rows, NEW copy \in Rows, NEW loaded
  PROVE  /\ Written(row, copy, loaded) \in Rows
         /\ Written(row, copy, loaded).state \in {row.state, copy.state}
  BY DEF Written, Rows

-------------------------------------------------------------------------------
(* What a handler holds, step by step.  The rows it works on exist; a fresh   *)
(* row is as install leaves it; and a copy that says "released" is only saved *)
(* when there is a release.                                                   *)

Steps == {"add", "readRelease", "addRelease", "saveRelease", "load", "update", "audit",
          "answer"}
Released == {"RELEASED_TO_ENV", "ENABLED", "DISABLED"}

HasRelease(i) == \E environment \in Environments : releases[i][environment] # None

NewRows == {NewRow(permissions) : permissions \in SUBSET Permissions}

Sound(work) ==
  /\ work.step = "add" => work.copy \in NewRows
  /\ work.step \in Saving \cup {"audit", "answer"} => rows[work.installation] # None
  /\ work.step \in Saving => work.operation \notin {"install", "replay"}
  /\ work.step \in {"readRelease", "addRelease", "saveRelease"} =>
       work.environment \in Environments /\ work.operation \in ReleaseOperations
  /\ work.step = "saveRelease" => work.operation # "release"
  /\ work.step = "load" \/ work.step = "update" =>
       (work.copy.state \in Released => HasRelease(work.installation))
  /\ work.step = "update" => work.loaded # None
  /\ work.step \in Saving /\ work.operation \in DOMAIN Target =>
       work.copy.state = Target[work.operation]

HandlersAreSound == \A h \in Handlers : handler[h] # Idle => Sound(handler[h])

LifecycleInv == TypeOK /\ HandlersAreSound /\ ReleasedPackagesHaveReleases

(* A handler that takes up work is the only one to move, and holds the work.  *)
LEMMA HoldMoves ==
  ASSUME TypeOK, NEW h \in Handlers, NEW step \in Steps,
         NEW operation \in Operations, NEW i \in Installations,
         NEW environment \in Environments \cup {None}, NEW copy \in Rows,
         NEW loaded \in Rows \cup {None},
         Hold(h, step, operation, i, environment, copy, loaded)
  PROVE  /\ handler' \in [Handlers -> Work \cup {Idle}]
         /\ \A g \in Handlers \ {h} : handler'[g] = handler[g]
         /\ handler'[h] = [step |-> step, operation |-> operation, installation |-> i,
                           environment |-> environment, copy |-> copy, loaded |-> loaded]
         /\ handler'[h] # Idle
<1> DEFINE work == [step |-> step, operation |-> operation, installation |-> i,
                    environment |-> environment, copy |-> copy, loaded |-> loaded]
<1>1. work \in Work
  BY DEF Work, Steps
<1>2. handler' = [handler EXCEPT ![h] = work]
  BY DEF Hold
<1> QED
  BY <1>1, <1>2, SentinelAssumption DEF TypeOK

LEMMA FinishMoves ==
  ASSUME TypeOK, NEW h \in Handlers, Finish(h)
  PROVE  /\ handler' \in [Handlers -> Work \cup {Idle}]
         /\ \A g \in Handlers \ {h} : handler'[g] = handler[g]
         /\ handler'[h] = Idle
  BY DEF TypeOK, Finish

(* What a busy handler holds. *)
LEMMA BusyType ==
  ASSUME TypeOK, NEW h \in Handlers, handler[h] # Idle
  PROVE  /\ handler[h].step \in Steps
         /\ handler[h].operation \in Operations
         /\ handler[h].installation \in Installations
         /\ handler[h].environment \in Environments \cup {None}
         /\ handler[h].copy \in Rows
         /\ handler[h].loaded \in Rows \cup {None}
  BY DEF TypeOK, Work, Steps

LEMMA AdvanceMoves ==
  ASSUME TypeOK, NEW h \in Handlers, handler[h] # Idle, NEW step \in Steps,
         Advance(h, step)
  PROVE  /\ handler' \in [Handlers -> Work \cup {Idle}]
         /\ \A g \in Handlers \ {h} : handler'[g] = handler[g]
         /\ handler'[h] = [step |-> step, operation |-> handler[h].operation,
                           installation |-> handler[h].installation,
                           environment |-> handler[h].environment,
                           copy |-> handler[h].copy, loaded |-> None]
         /\ handler'[h] # Idle
  BY BusyType, HoldMoves DEF Advance

(* The other handlers stay sound when rows and releases only come to exist.   *)
LEMMA OthersStaySound ==
  ASSUME LifecycleInv, NEW h \in Handlers,
         \A g \in Handlers \ {h} : handler'[g] = handler[g],
         \A i \in Installations : rows[i] # None => rows'[i] # None,
         \A i \in Installations : HasRelease(i) => HasRelease(i)',
         handler'[h] # Idle => Sound(handler[h])'
  PROVE  HandlersAreSound'
<1> SUFFICES ASSUME NEW g \in Handlers, handler'[g] # Idle
             PROVE  Sound(handler[g])'
  BY DEF HandlersAreSound
<1>1. CASE g = h
  BY <1>1
<1>2. CASE g # h
  <2>1. Sound(handler[g]) /\ handler[g].installation \in Installations
    BY <1>2, BusyType DEF LifecycleInv, HandlersAreSound
  <2> QED
    BY <2>1, <1>2 DEF Sound
<1> QED
  BY <1>1, <1>2

-------------------------------------------------------------------------------
(* Steps that leave the tables alone. *)
LEMMA TablesUnmoved ==
  ASSUME LifecycleInv, NEW h \in Handlers, UNCHANGED <<rows, releases>>,
         audit' \subseteq Installations \X Operations,
         handler' \in [Handlers -> Work \cup {Idle}],
         \A g \in Handlers \ {h} : handler'[g] = handler[g],
         handler'[h] # Idle => Sound(handler[h])'
  PROVE  LifecycleInv'
<1>1. TypeOK'
  BY DEF LifecycleInv, TypeOK
<1>2. ReleasedPackagesHaveReleases'
  BY DEF LifecycleInv, ReleasedPackagesHaveReleases
<1>3. HandlersAreSound'
  BY OthersStaySound DEF HasRelease
<1> QED
  BY <1>1, <1>2, <1>3 DEF LifecycleInv

LEMMA BeginSteps ==
  ASSUME LifecycleInv, NEW h \in Handlers, Receive(h)
  PROVE  LifecycleInv'
<1> USE DEF LifecycleInv
<1>1. ASSUME NEW i \in Installations, BeginInstall(h, i)
      PROVE  LifecycleInv'
  <2>1. /\ handler[h] = Idle
        /\ UNCHANGED <<rows, releases, audit>>
        /\ NewRows \subseteq Rows
        /\ rows[i] # None => rows[i] \in Rows
    <3>1. NewRows \subseteq Rows
      <4> SUFFICES ASSUME NEW permissions \in SUBSET Permissions
                   PROVE  NewRow(permissions) \in Rows
        BY DEF NewRows
      <4> QED BY DEF NewRow, Rows, States
    <3> QED BY <1>1, <3>1 DEF BeginInstall, TypeOK
  <2>2. CASE rows[i] = None
    <3>1. PICK row \in NewRows : Hold(h, "add", "install", i, None, row, None)
      BY <1>1, <2>2 DEF BeginInstall, NewRows
    <3>2. /\ handler' \in [Handlers -> Work \cup {Idle}]
          /\ \A g \in Handlers \ {h} : handler'[g] = handler[g]
          /\ handler'[h] = [step |-> "add", operation |-> "install", installation |-> i,
                            environment |-> None, copy |-> row, loaded |-> None]
      BY <3>1, <2>1, HoldMoves DEF Steps, Operations, RowOperations
    <3>3. Sound(handler[h])'
      BY <3>2, <2>1 DEF Sound, Saving
    <3> QED
      BY <3>2, <3>3, <2>1, TablesUnmoved DEF TypeOK
  <2>3. CASE rows[i] # None
    <3>1. Hold(h, "audit", "replay", i, None, rows[i], None)
      BY <1>1, <2>3 DEF BeginInstall
    <3>2. /\ handler' \in [Handlers -> Work \cup {Idle}]
          /\ \A g \in Handlers \ {h} : handler'[g] = handler[g]
          /\ handler'[h] = [step |-> "audit", operation |-> "replay", installation |-> i,
                            environment |-> None, copy |-> rows[i], loaded |-> None]
      BY <3>1, <2>1, <2>3, HoldMoves DEF Steps, Operations
    <3>3. Sound(handler[h])'
      BY <3>2, <2>1, <2>3 DEF Sound, Saving
    <3> QED
      BY <3>2, <3>3, <2>1, TablesUnmoved DEF TypeOK
  <2> QED
    BY <2>2, <2>3
<1>2. ASSUME NEW i \in Installations, UninstallAgain(h, i)
      PROVE  LifecycleInv'
  <2>1. /\ UNCHANGED <<rows, releases, audit>>
        /\ rows[i] # None
        /\ rows[i] \in Rows
        /\ Hold(h, "audit", "replay", i, None, rows[i], None)
    BY <1>2 DEF UninstallAgain, TypeOK
  <2>2. /\ handler' \in [Handlers -> Work \cup {Idle}]
        /\ \A g \in Handlers \ {h} : handler'[g] = handler[g]
        /\ handler'[h] = [step |-> "audit", operation |-> "replay", installation |-> i,
                          environment |-> None, copy |-> rows[i], loaded |-> None]
    BY <2>1, HoldMoves DEF Steps, Operations
  <2>3. Sound(handler[h])'
    BY <2>1, <2>2 DEF Sound, Saving
  <2> QED
    BY <2>1, <2>2, <2>3, TablesUnmoved DEF TypeOK
<1>3. ASSUME NEW i \in Installations, NEW operation \in Operations \ {"install", "replay"},
             NEW environment \in Environments \cup {None},
             operation \in ReleaseOperations => environment \in Environments,
             Begin(h, operation, i, environment)
      PROVE  LifecycleInv'
  <2>1. /\ UNCHANGED <<rows, releases, audit>>
        /\ rows[i] # None
        /\ rows[i] \in Rows
    BY <1>3 DEF Begin, TypeOK
  <2>2. PICK copy \in Copies(operation, rows[i]) :
          IF operation \in ReleaseOperations
          THEN Hold(h, "readRelease", operation, i, environment, copy, None)
          ELSE Hold(h, "load", operation, i, None, copy, None)
    BY <1>3 DEF Begin
  <2>3. /\ copy \in Rows
        /\ operation \in DOMAIN Target => copy.state = Target[operation]
        /\ operation \notin DOMAIN Target => copy.state = rows[i].state
    BY <2>1, CopiesFacts
  <2>4. CASE operation \in ReleaseOperations
    <3>1. /\ handler' \in [Handlers -> Work \cup {Idle}]
          /\ \A g \in Handlers \ {h} : handler'[g] = handler[g]
          /\ handler'[h] = [step |-> "readRelease", operation |-> operation,
                            installation |-> i, environment |-> environment,
                            copy |-> copy, loaded |-> None]
      BY <2>2, <2>3, <2>4, HoldMoves DEF Steps
    <3>2. Sound(handler[h])'
      BY <3>1, <2>1, <2>3, <2>4, <1>3 DEF Sound, Saving
    <3> QED
      BY <3>1, <3>2, <2>1, TablesUnmoved DEF TypeOK
  <2>5. CASE operation \notin ReleaseOperations
    <3>1. /\ handler' \in [Handlers -> Work \cup {Idle}]
          /\ \A g \in Handlers \ {h} : handler'[g] = handler[g]
          /\ handler'[h] = [step |-> "load", operation |-> operation,
                            installation |-> i, environment |-> None,
                            copy |-> copy, loaded |-> None]
      BY <2>2, <2>3, <2>5, HoldMoves DEF Steps
    <3>2. copy.state \in Released => HasRelease(i)
      <4>1. CASE operation \in {"markTested", "approve"}
        BY <4>1, <2>3 DEF Target, Released
      <4>2. CASE operation \notin {"markTested", "approve"}
        <5>1. copy.state = rows[i].state
          BY <4>2, <2>3, <2>5, TargetFacts DEF ReleaseOperations
        <5> QED
          BY <5>1, <2>1 DEF Released, HasRelease, ReleasedPackagesHaveReleases
      <4> QED
        BY <4>1, <4>2
    <3>3. Sound(handler[h])'
      BY <3>1, <3>2, <2>1, <2>3, <1>3 DEF Sound, Saving, HasRelease
    <3> QED
      BY <3>1, <3>3, <2>1, TablesUnmoved DEF TypeOK
  <2> QED
    BY <2>4, <2>5
<1> QED
  <2>1. CASE \E i \in Installations : BeginInstall(h, i)
    BY <2>1, <1>1
  <2>2. CASE \E i \in Installations : UninstallAgain(h, i)
    BY <2>2, <1>2
  <2>3. CASE \E i \in Installations, operation \in RowOperations \ {"install"} :
               Begin(h, operation, i, None)
    BY <2>3, <1>3 DEF Operations, RowOperations, ReleaseOperations
  <2>4. CASE \E i \in Installations, operation \in ReleaseOperations,
                environment \in Environments : Begin(h, operation, i, environment)
    BY <2>4, <1>3 DEF Operations, ReleaseOperations
  <2> QED
    BY <2>1, <2>2, <2>3, <2>4 DEF Receive

LEMMA AdvanceSteps ==
  ASSUME LifecycleInv, NEW h \in Handlers, Continue(h)
  PROVE  LifecycleInv'
<1> USE DEF LifecycleInv
<1> DEFINE work == handler[h]
           i == work.installation
           Moved(step) == [step |-> step, operation |-> work.operation,
                           installation |-> i, environment |-> work.environment,
                           copy |-> work.copy, loaded |-> None]
<1>a. ASSUME work # Idle
      PROVE  /\ work.step \in Steps
             /\ work.operation \in Operations
             /\ i \in Installations
             /\ work.environment \in Environments \cup {None}
             /\ work.copy \in Rows
             /\ work.loaded \in Rows \cup {None}
             /\ Sound(work)
  BY <1>a, BusyType DEF HandlersAreSound
<1>b. ASSUME work # Idle, NEW step \in Steps, Advance(h, step)
      PROVE  /\ handler' \in [Handlers -> Work \cup {Idle}]
             /\ \A g \in Handlers \ {h} : handler'[g] = handler[g]
             /\ handler'[h] = Moved(step)
  BY <1>b, AdvanceMoves
<1>1. CASE AddInstallation(h)
  <2>1. /\ work # Idle
        /\ work.step = "add"
        /\ rows[i] = None
        /\ rows' = [rows EXCEPT ![i] = work.copy]
        /\ UNCHANGED <<releases, audit>>
    BY <1>1 DEF AddInstallation, At
  <2>2. /\ handler' \in [Handlers -> Work \cup {Idle}]
        /\ \A g \in Handlers \ {h} : handler'[g] = handler[g]
        /\ handler'[h] = Moved("audit")
    BY <1>1, <2>1, <1>b DEF AddInstallation, Steps
  <2>3. work.copy \in NewRows /\ work.copy \in Rows /\ i \in Installations
    BY <2>1, <1>a DEF Sound
  <2>4. TypeOK'
    BY <2>1, <2>2, <2>3 DEF TypeOK
  <2>5. ReleasedPackagesHaveReleases'
    BY <2>1, <2>3 DEF ReleasedPackagesHaveReleases, NewRows, NewRow, TypeOK
  <2>6. Sound(handler[h])'
    BY <2>1, <2>2, <2>3, SentinelAssumption DEF Sound, Saving, TypeOK
  <2>7. HandlersAreSound'
    BY <2>1, <2>2, <2>3, <2>6, OthersStaySound, SentinelAssumption DEF HasRelease, TypeOK
  <2> QED
    BY <2>4, <2>5, <2>7
<1>2. CASE ReadRelease(h)
  <2> DEFINE next == AfterRead(work.operation, releases[i][work.environment])
  <2>1. /\ work # Idle
        /\ work.step = "readRelease"
        /\ UNCHANGED <<rows, releases, audit>>
        /\ IF next = "missing" THEN Finish(h) ELSE Advance(h, next)
    BY <1>2 DEF ReadRelease, At
  <2>2. CASE next = "missing"
    BY <2>1, <2>2, FinishMoves, TablesUnmoved DEF TypeOK
  <2>3. CASE next # "missing"
    <3>1. /\ next \in {"addRelease", "saveRelease", "answer"}
          /\ next = "saveRelease" => work.operation # "release"
      BY <2>3 DEF AfterRead
    <3>2. /\ handler' \in [Handlers -> Work \cup {Idle}]
          /\ \A g \in Handlers \ {h} : handler'[g] = handler[g]
          /\ handler'[h] = Moved(next)
      BY <2>1, <2>3, <3>1, <1>b DEF Steps
    <3>3. Sound(handler[h])'
      BY <2>1, <3>1, <3>2, <1>a DEF Sound, Saving
    <3> QED
      BY <2>1, <3>2, <3>3, TablesUnmoved DEF TypeOK
  <2> QED
    BY <2>2, <2>3
<1>3. ASSUME NEW state \in ReleaseStates,
             work # Idle, work.step \in {"addRelease", "saveRelease"},
             releases' = [releases EXCEPT ![i][work.environment] = state],
             Advance(h, "load"), UNCHANGED <<rows, audit>>
      PROVE  LifecycleInv'
  <2>1. /\ handler' \in [Handlers -> Work \cup {Idle}]
        /\ \A g \in Handlers \ {h} : handler'[g] = handler[g]
        /\ handler'[h] = Moved("load")
    BY <1>3, <1>b DEF Steps
  <2>2. Sound(work) /\ i \in Installations /\ work.environment \in Environments
    BY <1>3, <1>a DEF Sound
  <2>3. /\ TypeOK'
        /\ releases'[i][work.environment] # None
        /\ \A j \in Installations, e \in Environments :
             releases[j][e] # None => releases'[j][e] # None
    BY <1>3, <2>1, <2>2, SentinelAssumption DEF TypeOK
  <2>4. \A j \in Installations : HasRelease(j) => HasRelease(j)'
    BY <2>3 DEF HasRelease
  <2>5. ReleasedPackagesHaveReleases'
    BY <1>3, <2>3 DEF ReleasedPackagesHaveReleases
  <2>6. \E e \in Environments : releases'[i][e] # None
    BY <2>2, <2>3
  <2>7. Sound(handler[h])'
    BY <1>3, <2>1, <2>2, <2>6 DEF Sound, Saving, HasRelease
  <2>8. HandlersAreSound'
    BY <1>3, <2>1, <2>4, <2>7, OthersStaySound
  <2> QED
    BY <2>3, <2>5, <2>8
<1>4. CASE AddRelease(h)
  BY <1>4, <1>3 DEF AddRelease, At, ReleaseStates
<1>5. CASE SaveRelease(h)
  <2>1. /\ work # Idle
        /\ work.step = "saveRelease"
    BY <1>5 DEF SaveRelease, At
  <2>2. Target[work.operation] \in ReleaseStates
    BY <2>1, <1>a, TargetFacts DEF Sound, ReleaseOperations
  <2> QED
    BY <1>5, <2>1, <2>2, <1>3 DEF SaveRelease
<1>6. CASE LoadRow(h)
  <2>1. /\ work # Idle
        /\ work.step = "load"
        /\ UNCHANGED <<rows, releases, audit>>
        /\ Hold(h, "update", work.operation, i, work.environment, work.copy, rows[i])
    BY <1>6 DEF LoadRow, At
  <2>2. rows[i] # None /\ rows[i] \in Rows
    BY <2>1, <1>a DEF Sound, Saving, TypeOK
  <2>3. /\ handler' \in [Handlers -> Work \cup {Idle}]
        /\ \A g \in Handlers \ {h} : handler'[g] = handler[g]
        /\ handler'[h] = [step |-> "update", operation |-> work.operation,
                          installation |-> i, environment |-> work.environment,
                          copy |-> work.copy, loaded |-> rows[i]]
    BY <2>1, <2>2, <1>a, HoldMoves DEF Steps
  <2>4. Sound(handler[h])'
    BY <2>1, <2>2, <2>3, <1>a DEF Sound, Saving, HasRelease
  <2> QED
    BY <2>1, <2>3, <2>4, TablesUnmoved DEF TypeOK
<1>7. CASE UpdateRow(h)
  <2> DEFINE written == Written(rows[i], work.copy, work.loaded)
  <2>1. /\ work # Idle
        /\ work.step = "update"
        /\ UNCHANGED <<releases, audit>>
        /\ rows' = [rows EXCEPT ![i] = written]
    BY <1>7 DEF UpdateRow, At
  <2>2. rows[i] # None /\ rows[i] \in Rows /\ work.copy \in Rows /\ i \in Installations
    BY <2>1, <1>a DEF Sound, Saving, TypeOK
  <2>3. written \in Rows /\ written.state \in {rows[i].state, work.copy.state}
    BY <2>2, WrittenFacts
  <2>4. /\ handler' \in [Handlers -> Work \cup {Idle}]
        /\ \A g \in Handlers \ {h} : handler'[g] = handler[g]
        /\ handler'[h] = Moved("audit")
    BY <1>7, <2>1, <1>b DEF UpdateRow, Steps
  <2>5. TypeOK'
    BY <2>1, <2>2, <2>3, <2>4 DEF TypeOK
  <2>6. /\ rows'[i] = written
        /\ \A j \in Installations \ {i} : rows'[j] = rows[j]
    BY <2>1, <2>2 DEF TypeOK
  <2>7. ReleasedPackagesHaveReleases'
    <3> SUFFICES ASSUME NEW j \in Installations, rows'[j] # None,
                        rows'[j].state \in Released
                 PROVE  HasRelease(j)
      BY <2>1 DEF ReleasedPackagesHaveReleases, Released, HasRelease
    <3>1. CASE j # i
      BY <3>1, <2>6 DEF ReleasedPackagesHaveReleases, Released, HasRelease
    <3>2. CASE j = i /\ written.state = rows[i].state
      BY <3>2, <2>2, <2>6 DEF ReleasedPackagesHaveReleases, Released, HasRelease
    <3>3. CASE j = i /\ written.state = work.copy.state
      BY <3>3, <2>1, <2>6, <1>a DEF Sound
    <3> QED
      BY <3>1, <3>2, <3>3, <2>3
  <2>8. written # None
    BY <2>3, SentinelAssumption
  <2>9. Sound(handler[h])'
    BY <2>4, <2>6, <2>8 DEF Sound, Saving
  <2>10. HandlersAreSound'
    BY <2>1, <2>4, <2>6, <2>8, <2>9, OthersStaySound DEF HasRelease
  <2> QED
    BY <2>5, <2>7, <2>10
<1>8. CASE AppendAudit(h)
  <2>1. /\ work # Idle
        /\ work.step = "audit"
        /\ UNCHANGED <<rows, releases>>
        /\ audit' = audit \cup {<<i, work.operation>>}
    BY <1>8 DEF AppendAudit, At, Events
  <2>2. /\ handler' \in [Handlers -> Work \cup {Idle}]
        /\ \A g \in Handlers \ {h} : handler'[g] = handler[g]
        /\ handler'[h] = Moved("answer")
    BY <1>8, <2>1, <1>b DEF AppendAudit, Steps
  <2>3. Sound(handler[h])'
    BY <2>1, <2>2, <1>a DEF Sound, Saving
  <2> QED
    BY <2>1, <2>2, <2>3, <1>a, TablesUnmoved DEF TypeOK
<1>9. CASE Answer(h)
  BY <1>9, FinishMoves, TablesUnmoved DEF Answer, TypeOK
<1>10. CASE Collide(h)
  BY <1>10, FinishMoves, TablesUnmoved DEF Collide, TypeOK
<1> QED
  BY <1>1, <1>2, <1>4, <1>5, <1>6, <1>7, <1>8, <1>9, <1>10 DEF Continue

LEMMA LifecycleStep == LifecycleInv /\ [Next]_vars => LifecycleInv'
<1> SUFFICES ASSUME LifecycleInv, [Next]_vars PROVE LifecycleInv'
  OBVIOUS
<1>1. CASE UNCHANGED vars
  BY <1>1 DEF vars, LifecycleInv, TypeOK, HandlersAreSound, Sound, HasRelease,
     ReleasedPackagesHaveReleases
<1>2. ASSUME NEW h \in Handlers, Die(h)
      PROVE  LifecycleInv'
  BY <1>2, FinishMoves, TablesUnmoved DEF Die, LifecycleInv, TypeOK
<1> QED
  BY <1>1, <1>2, BeginSteps, AdvanceSteps DEF Next

LEMMA LifecycleInit == Init => LifecycleInv
  BY SentinelAssumption DEF Init, LifecycleInv, TypeOK, HandlersAreSound,
     ReleasedPackagesHaveReleases

LEMMA LifecycleInvariant == Spec => []LifecycleInv
  BY LifecycleInit, LifecycleStep, PTL DEF Spec

(* Every reachable state is well-typed, for any number of packages,           *)
(* environments and threads, dying or not.                                    *)
THEOREM LifecycleTypeCorrect == Spec => []TypeOK
<1>1. LifecycleInv => TypeOK
  BY DEF LifecycleInv
<1> QED
  BY <1>1, LifecycleInvariant, PTL

(* A package that was released has an EnvironmentRelease, whatever saves race *)
(* and wherever threads die: a stale copy can bring back no state that had    *)
(* none, because releases are never deleted.                                  *)
THEOREM ReleasesAreThere == Spec => []ReleasedPackagesHaveReleases
<1>1. LifecycleInv => ReleasedPackagesHaveReleases
  BY DEF LifecycleInv
<1> QED
  BY <1>1, LifecycleInvariant, PTL

-------------------------------------------------------------------------------
(* Audit.  An operation is accounted for once its event is in the audit or in *)
(* the hands of a handler that is about to append it.  What keeps the states  *)
(* accounted for is that every copy in flight only says what the rows have    *)
(* said before, or what its own operation will say when it is saved.          *)

Accounted(i, operation) ==
  \/ <<i, operation>> \in audit
  \/ \E g \in Handlers : /\ At(g, "audit")
                         /\ handler[g].installation = i
                         /\ handler[g].operation = operation

CopyAccounted(work) ==
  \A operation \in DOMAIN Target :
    /\ work.step \in Saving
    /\ work.copy.state = Target[operation]
    /\ work.operation # operation
    => Accounted(work.installation, operation)

CopiesAreAccounted == \A h \in Handlers : handler[h] # Idle => CopyAccounted(handler[h])

AuditInv == LifecycleInv /\ StatesAreAudited /\ CopiesAreAccounted

LEMMA StatesAccounted ==
  StatesAreAudited <=>
    \A i \in Installations, operation \in DOMAIN Target :
      rows[i] # None /\ rows[i].state = Target[operation] => Accounted(i, operation)
  BY DEF StatesAreAudited, Accounted

(* A step of a living thread forgets no event.                                *)
LEMMA AccountsLast ==
  ASSUME LifecycleInv, NEW h \in Handlers, audit \subseteq audit',
         \A g \in Handlers \ {h} : handler'[g] = handler[g],
         At(h, "audit") => <<handler[h].installation, handler[h].operation>> \in audit',
         NEW i, NEW operation, Accounted(i, operation)
  PROVE  Accounted(i, operation)'
<1>1. CASE <<i, operation>> \in audit
  BY <1>1 DEF Accounted
<1>2. CASE <<i, operation>> \notin audit
  <2>1. PICK g \in Handlers : /\ At(g, "audit")
                              /\ handler[g].installation = i
                              /\ handler[g].operation = operation
    BY <1>2 DEF Accounted
  <2>2. CASE g = h
    BY <2>1, <2>2 DEF Accounted
  <2>3. CASE g # h
    BY <2>1, <2>3 DEF Accounted, At
  <2> QED
    BY <2>2, <2>3
<1> QED
  BY <1>1, <1>2

(* A step that leaves the rows alone keeps what is accounted for.             *)
LEMMA RowsUnmoved ==
  ASSUME AuditInv, NEW h \in Handlers, UNCHANGED rows, LifecycleInv', audit \subseteq audit',
         \A g \in Handlers \ {h} : handler'[g] = handler[g],
         At(h, "audit") => <<handler[h].installation, handler[h].operation>> \in audit',
         handler'[h] # Idle => CopyAccounted(handler[h])'
  PROVE  AuditInv'
<1>1. \A i, operation : Accounted(i, operation) => Accounted(i, operation)'
  BY AccountsLast DEF AuditInv
<1>2. StatesAreAudited'
  BY <1>1 DEF AuditInv, StatesAreAudited, Accounted
<1>3. ASSUME NEW g \in Handlers, g # h, handler'[g] # Idle
      PROVE  CopyAccounted(handler[g])'
  <2>1. CopyAccounted(handler[g])
    BY <1>3 DEF AuditInv, CopiesAreAccounted
  <2> QED
    BY <1>1, <1>3, <2>1 DEF CopyAccounted
<1> QED
  BY <1>2, <1>3 DEF AuditInv, CopiesAreAccounted

LEMMA BeginAccounted ==
  ASSUME AuditInv, NEW h \in Handlers, Receive(h), LifecycleInv'
  PROVE  AuditInv'
<1>1. /\ handler[h] = Idle
      /\ UNCHANGED <<rows, audit>>
  BY DEF Receive, BeginInstall, Begin, UninstallAgain
<1>2. \A i, operation : Accounted(i, operation) => Accounted(i, operation)'
  <2>1. \A g \in Handlers \ {h} : handler'[g] = handler[g]
    BY DEF Receive, BeginInstall, Begin, UninstallAgain, Hold, AuditInv, LifecycleInv, TypeOK
  <2> QED
    BY <2>1, <1>1, AccountsLast DEF AuditInv, At
<1>3. CopyAccounted(handler[h])' /\ \A g \in Handlers \ {h} : handler'[g] = handler[g]
  <2> USE DEF AuditInv, LifecycleInv
  <2>1. ASSUME NEW i \in Installations, BeginInstall(h, i)
        PROVE  /\ handler'[h].step \notin Saving
               /\ \A g \in Handlers \ {h} : handler'[g] = handler[g]
    BY <2>1 DEF BeginInstall, Hold, Saving, TypeOK
  <2>2. ASSUME NEW i \in Installations, UninstallAgain(h, i)
        PROVE  /\ handler'[h].step \notin Saving
               /\ \A g \in Handlers \ {h} : handler'[g] = handler[g]
    BY <2>2 DEF UninstallAgain, Hold, Saving, TypeOK
  <2>3. ASSUME NEW i \in Installations, NEW operation \in Operations \ {"install", "replay"},
               NEW environment, Begin(h, operation, i, environment)
        PROVE  /\ CopyAccounted(handler[h])'
               /\ \A g \in Handlers \ {h} : handler'[g] = handler[g]
    <3>1. rows[i] # None /\ rows[i] \in Rows
      BY <2>3 DEF Begin, TypeOK
    <3>2. PICK copy \in Copies(operation, rows[i]) :
            IF operation \in ReleaseOperations
            THEN Hold(h, "readRelease", operation, i, environment, copy, None)
            ELSE Hold(h, "load", operation, i, None, copy, None)
      BY <2>3 DEF Begin
    <3>3. /\ operation \in DOMAIN Target => copy.state = Target[operation]
          /\ operation \notin DOMAIN Target => copy.state = rows[i].state
      BY <3>1, CopiesFacts
    <3>4. /\ handler'[h].copy = copy
          /\ handler'[h].operation = operation
          /\ handler'[h].installation = i
          /\ \A g \in Handlers \ {h} : handler'[g] = handler[g]
      BY <3>2 DEF Hold, TypeOK
    <3>5. ASSUME NEW other \in DOMAIN Target, copy.state = Target[other], operation # other
          PROVE  Accounted(i, other)
      <4>1. rows[i].state = Target[other]
        BY <3>3, <3>5, TargetFacts
      <4>2. \A j \in Installations, o \in DOMAIN Target :
              rows[j] # None /\ rows[j].state = Target[o] => Accounted(j, o)
        BY StatesAccounted
      <4> QED
        BY <4>1, <4>2, <3>1
    <3> QED
      BY <3>4, <3>5, <1>2 DEF CopyAccounted
  <2>4. CASE \E i \in Installations : BeginInstall(h, i)
    BY <2>1, <2>4 DEF CopyAccounted
  <2>5. CASE \E i \in Installations : UninstallAgain(h, i)
    BY <2>2, <2>5 DEF CopyAccounted
  <2>6. CASE \E i \in Installations, operation \in RowOperations \ {"install"} :
               Begin(h, operation, i, None)
    BY <2>6, <2>3 DEF Operations, RowOperations
  <2>7. CASE \E i \in Installations, operation \in ReleaseOperations,
                environment \in Environments : Begin(h, operation, i, environment)
    BY <2>7, <2>3 DEF Operations, ReleaseOperations
  <2> QED
    BY <2>4, <2>5, <2>6, <2>7 DEF Receive
<1> QED
  BY <1>1, <1>3, RowsUnmoved DEF At

LEMMA AdvanceAccounted ==
  ASSUME AuditInv, NEW h \in Handlers, Continue(h), LifecycleInv'
  PROVE  AuditInv'
<1> USE DEF AuditInv, LifecycleInv
<1> DEFINE work == handler[h]
           Kept(next) == /\ next.operation = work.operation
                         /\ next.installation = work.installation
                         /\ next.copy = work.copy
<1>a. ASSUME work # Idle, work.step \in Saving, handler'[h].step \in Saving,
             Kept(handler'[h]), UNCHANGED <<rows, audit>>,
             \A g \in Handlers \ {h} : handler'[g] = handler[g]
      PROVE  AuditInv'
  <2>1. CopyAccounted(work)
    BY <1>a DEF CopiesAreAccounted
  <2>2. \A i, operation : Accounted(i, operation) => Accounted(i, operation)'
    BY <1>a, AccountsLast DEF At, Saving
  <2>3. CopyAccounted(handler[h])'
    BY <1>a, <2>1, <2>2 DEF CopyAccounted
  <2> QED
    BY <1>a, <2>3, RowsUnmoved DEF At, Saving
<1>b. ASSUME work # Idle, NEW step \in Steps, Advance(h, step)
      PROVE  /\ \A g \in Handlers \ {h} : handler'[g] = handler[g]
             /\ handler'[h] # Idle
             /\ handler'[h].step = step
             /\ Kept(handler'[h])
  <2>1. /\ \A g \in Handlers \ {h} : handler'[g] = handler[g]
        /\ handler'[h] # Idle
        /\ handler'[h] = [step |-> step, operation |-> work.operation,
                          installation |-> work.installation,
                          environment |-> work.environment,
                          copy |-> work.copy, loaded |-> None]
    BY <1>b, AdvanceMoves
  <2> QED
    BY <2>1
<1>c. ASSUME Finish(h), UNCHANGED <<rows, audit>>, ~At(h, "audit")
      PROVE  AuditInv'
  BY <1>c, FinishMoves, RowsUnmoved
<1>1. CASE AddInstallation(h)
  <2>1. /\ work # Idle /\ work.step = "add"
        /\ rows[work.installation] = None
        /\ rows' = [rows EXCEPT ![work.installation] = work.copy]
        /\ audit' = audit
        /\ Advance(h, "audit")
    BY <1>1 DEF AddInstallation, At
  <2>2. work.copy.state = "INSTALLED_DISABLED"
    BY <2>1 DEF HandlersAreSound, Sound, NewRows, NewRow
  <2>3. \A i, operation : Accounted(i, operation) => Accounted(i, operation)'
    BY <2>1, <1>b, AccountsLast DEF At, Steps
  <2>4. \A i \in Installations : rows'[i] # rows[i] => rows'[i].state = "INSTALLED_DISABLED"
    BY <2>1, <2>2 DEF TypeOK
  <2>5. StatesAreAudited'
    <3> SUFFICES ASSUME NEW i \in Installations, NEW operation \in DOMAIN Target,
                        rows'[i] # None, rows'[i].state = Target[operation]
                 PROVE  Accounted(i, operation)'
      BY DEF StatesAreAudited, Accounted
    <3>1. rows'[i] = rows[i]
      BY <2>4, TargetFacts
    <3> QED
      BY <2>3, <3>1, StatesAccounted
  <2>6. CopiesAreAccounted'
    BY <2>1, <2>3, <1>b DEF CopiesAreAccounted, CopyAccounted, Saving, Steps
  <2> QED
    BY <2>5, <2>6
<1>2. CASE ReadRelease(h)
  <2> DEFINE next == AfterRead(work.operation,
                               releases[work.installation][work.environment])
  <2>1. /\ work # Idle /\ work.step = "readRelease"
        /\ UNCHANGED <<rows, audit>>
        /\ IF next = "missing" THEN Finish(h) ELSE Advance(h, next)
    BY <1>2 DEF ReadRelease, At
  <2>2. next \in {"missing", "addRelease", "saveRelease", "answer"}
    BY DEF AfterRead
  <2>3. CASE next = "missing"
    BY <2>1, <2>3, <1>c DEF At
  <2>4. CASE next = "answer"
    <3>1. /\ \A g \in Handlers \ {h} : handler'[g] = handler[g]
          /\ handler'[h].step = "answer"
      BY <2>1, <2>4, <1>b DEF Steps
    <3> QED
      BY <2>1, <3>1, RowsUnmoved DEF At, CopyAccounted, Saving
  <2>5. CASE next \in {"addRelease", "saveRelease"}
    BY <2>1, <2>5, <1>a, <1>b DEF Steps, Saving
  <2> QED
    BY <2>2, <2>3, <2>4, <2>5
<1>3. CASE AddRelease(h)
  BY <1>3, <1>a, <1>b DEF AddRelease, At, Steps, Saving
<1>4. CASE SaveRelease(h)
  BY <1>4, <1>a, <1>b DEF SaveRelease, At, Steps, Saving
<1>5. CASE LoadRow(h)
  <2>1. /\ work # Idle /\ work.step = "load"
        /\ UNCHANGED <<rows, audit>>
        /\ Kept(handler'[h])
        /\ handler'[h].step = "update"
        /\ \A g \in Handlers \ {h} : handler'[g] = handler[g]
    BY <1>5 DEF LoadRow, At, Hold, TypeOK
  <2> QED
    BY <2>1, <1>a DEF Saving
<1>6. CASE UpdateRow(h)
  <2> DEFINE i == work.installation
             written == Written(rows[i], work.copy, work.loaded)
  <2>1. /\ work # Idle /\ work.step = "update"
        /\ rows' = [rows EXCEPT ![i] = written]
        /\ audit' = audit
        /\ Advance(h, "audit")
    BY <1>6 DEF UpdateRow, At
  <2>2. /\ i \in Installations
        /\ rows[i] # None
        /\ rows[i] \in Rows
        /\ work.copy \in Rows
        /\ Sound(work)
        /\ CopyAccounted(work)
    BY <2>1, BusyType DEF HandlersAreSound, Sound, Saving, CopiesAreAccounted, TypeOK
  <2>3. /\ rows'[i].state \in {rows[i].state, work.copy.state}
        /\ \A j \in Installations \ {i} : rows'[j] = rows[j]
    BY <2>1, <2>2, WrittenFacts DEF TypeOK
  <2>4. /\ \A g \in Handlers \ {h} : handler'[g] = handler[g]
        /\ handler'[h] # Idle
        /\ handler'[h].step = "audit"
        /\ Kept(handler'[h])
    BY <2>1, <1>b DEF Steps
  <2>5. \A j, operation : Accounted(j, operation) => Accounted(j, operation)'
    BY <2>1, <2>4, AccountsLast DEF At
  <2>6. ASSUME NEW operation \in DOMAIN Target, rows'[i].state = Target[operation]
        PROVE  \/ Accounted(i, operation)
               \/ operation = work.operation
    BY <2>1, <2>2, <2>3, <2>6 DEF StatesAreAudited, CopyAccounted, Accounted, Saving
  <2>7. StatesAreAudited'
    <3> SUFFICES ASSUME NEW j \in Installations, NEW operation \in DOMAIN Target,
                        rows'[j] # None, rows'[j].state = Target[operation]
                 PROVE  Accounted(j, operation)'
      BY DEF StatesAreAudited, Accounted
    <3>1. CASE j # i
      BY <3>1, <2>3, <2>5 DEF StatesAreAudited, Accounted
    <3>2. CASE j = i /\ operation = work.operation
      BY <3>2, <2>4 DEF Accounted, At
    <3>3. CASE j = i /\ operation # work.operation
      BY <3>3, <2>5, <2>6
    <3> QED
      BY <3>1, <3>2, <3>3
  <2>8. CopiesAreAccounted'
    BY <2>4, <2>5 DEF CopiesAreAccounted, CopyAccounted, Saving
  <2> QED
    BY <2>7, <2>8
<1>7. CASE AppendAudit(h)
  <2>1. /\ work # Idle /\ work.step = "audit"
        /\ UNCHANGED rows
        /\ audit' = audit \cup {<<work.installation, work.operation>>}
        /\ Advance(h, "answer")
    BY <1>7 DEF AppendAudit, At, Events
  <2>2. /\ \A g \in Handlers \ {h} : handler'[g] = handler[g]
        /\ handler'[h].step = "answer"
    BY <2>1, <1>b DEF Steps
  <2> QED
    BY <2>1, <2>2, RowsUnmoved DEF At, CopyAccounted, Saving
<1>8. CASE Answer(h)
  BY <1>8, <1>c DEF Answer, At
<1>9. CASE Collide(h)
  BY <1>9, <1>c DEF Collide, At
<1> QED
  BY <1>1, <1>2, <1>3, <1>4, <1>5, <1>6, <1>7, <1>8, <1>9 DEF Continue

(* If no thread dies between a save and its audit, no package is in a state   *)
(* without the audit event of the operation that leads there, appended or     *)
(* about to be, whatever saves race and wherever else threads die.            *)
THEOREM AuditFollows ==
  ASSUME "audit" \notin DyingSteps
  PROVE  Spec => []StatesAreAudited
<1>1. Init => AuditInv
  BY LifecycleInit DEF Init, AuditInv, StatesAreAudited, CopiesAreAccounted
<1>2. AuditInv /\ [Next]_vars => AuditInv'
  <2> SUFFICES ASSUME AuditInv, [Next]_vars
               PROVE  AuditInv'
    OBVIOUS
  <2>1. LifecycleInv'
    BY LifecycleStep DEF AuditInv
  <2>2. CASE UNCHANGED vars
    BY <2>1, <2>2 DEF vars, AuditInv, StatesAreAudited, CopiesAreAccounted,
       CopyAccounted, Accounted, At
  <2>3. ASSUME NEW h \in Handlers, Die(h)
        PROVE  AuditInv'
    <3>1. Finish(h) /\ UNCHANGED <<rows, audit>> /\ ~At(h, "audit")
      BY <2>3 DEF Die, At
    <3> QED
      BY <2>1, <3>1, FinishMoves, RowsUnmoved DEF AuditInv, LifecycleInv
  <2> QED
    BY <2>1, <2>2, <2>3, BeginAccounted, AdvanceAccounted DEF Next
<1>3. AuditInv => StatesAreAudited
  BY DEF AuditInv
<1> QED
  BY <1>1, <1>2, <1>3, PTL DEF Spec

-------------------------------------------------------------------------------
(* What lasts although saves overwrite each other.  A copy that is still to   *)
(* be saved is as good as the row it was made of, and a row that is updated   *)
(* with a copy is good if both were.                                          *)

Good(what, record) ==
  CASE what = "revoked" -> record.state = "REVOKED"
    [] what = "uninstalled" -> record.uninstalled

Saves(h, i) == handler[h] # Idle /\ handler[h].step \in Saving /\ handler[h].installation = i

GoodForGood(what, i) ==
  /\ rows[i] # None
  /\ Good(what, rows[i])
  /\ \A h \in Handlers : Saves(h, i) => Good(what, handler[h].copy)

LEMMA CopiesStayGood ==
  ASSUME NEW what \in {"revoked", "uninstalled"},
         NEW operation \in Operations \ {"install", "replay"}, NEW record \in Rows,
         Accepted(operation, record), Good(what, record),
         NEW copy \in Copies(operation, record)
  PROVE  Good(what, copy)
<1>1. CASE what = "revoked"
  <2>1. \A target : ~RequireTransition("REVOKED", target)
    BY DEF RequireTransition, AllowedTransitions
  <2>2. operation \notin DOMAIN Target
    BY <1>1, <2>1 DEF Good, Accepted
  <2> QED BY <1>1, <2>2, CopiesFacts DEF Good
<1>2. CASE what = "uninstalled"
  BY <1>2 DEF Good, Accepted, RequireActiveRecord
<1> QED BY <1>1, <1>2

LEMMA WrittenStaysGood ==
  ASSUME NEW what \in {"revoked", "uninstalled"}, NEW row \in Rows, NEW copy \in Rows,
         NEW loaded, Good(what, row), Good(what, copy)
  PROVE  Good(what, Written(row, copy, loaded))
<1>1. CASE what = "revoked"
  BY <1>1, WrittenFacts DEF Good
<1>2. CASE what = "uninstalled"
  BY <1>2 DEF Good, Written, Rows
<1> QED BY <1>1, <1>2

(* An operation that made its copy of the row as it is. *)
Copied(work) ==
  LET i == work.installation IN
  /\ i \in Installations
  /\ rows[i] # None
  /\ work.operation \in Operations \ {"install", "replay"}
  /\ Accepted(work.operation, rows[i])
  /\ work.copy \in Copies(work.operation, rows[i])

(* The same operation as before, one step further. *)
Continued(h) ==
  /\ handler[h] # Idle
  /\ handler[h].step \in Saving
  /\ handler'[h].operation = handler[h].operation
  /\ handler'[h].installation = handler[h].installation
  /\ handler'[h].copy = handler[h].copy

LEMMA BeginCopies ==
  ASSUME LifecycleInv, NEW h \in Handlers, Receive(h)
  PROVE  /\ \A g \in Handlers \ {h} : handler'[g] = handler[g]
         /\ \A work : work = handler'[h] /\ work.step \in Saving => Copied(work)
<1> DEFINE Copying == /\ \A g \in Handlers \ {h} : handler'[g] = handler[g]
                      /\ \A work : work = handler'[h] /\ work.step \in Saving => Copied(work)
<1>1. ASSUME NEW step, NEW operation, NEW i, NEW environment, NEW copy, NEW loaded,
             Hold(h, step, operation, i, environment, copy, loaded)
      PROVE  /\ \A g \in Handlers \ {h} : handler'[g] = handler[g]
             /\ handler'[h].step = step
             /\ handler'[h].operation = operation
             /\ handler'[h].installation = i
             /\ handler'[h].copy = copy
  BY <1>1 DEF Hold, LifecycleInv, TypeOK
<1>2. ASSUME NEW i \in Installations, BeginInstall(h, i) PROVE Copying
  BY <1>1, <1>2 DEF BeginInstall, Saving
<1>3. ASSUME NEW i \in Installations, UninstallAgain(h, i) PROVE Copying
  BY <1>1, <1>3 DEF UninstallAgain, Saving
<1>4. ASSUME NEW i \in Installations, NEW operation \in Operations \ {"install", "replay"},
             NEW environment, Begin(h, operation, i, environment)
      PROVE  Copying
  <2>1. PICK copy \in Copies(operation, rows[i]) :
          IF operation \in ReleaseOperations
          THEN Hold(h, "readRelease", operation, i, environment, copy, None)
          ELSE Hold(h, "load", operation, i, None, copy, None)
    BY <1>4 DEF Begin
  <2>2. /\ \A g \in Handlers \ {h} : handler'[g] = handler[g]
        /\ handler'[h].operation = operation
        /\ handler'[h].installation = i
        /\ handler'[h].copy = copy
    BY <1>1, <2>1
  <2>3. rows[i] # None /\ Accepted(operation, rows[i])
    BY <1>4 DEF Begin
  <2> QED BY <2>2, <2>3 DEF Copied
<1>5. /\ RowOperations \ {"install"} \subseteq Operations \ {"install", "replay"}
      /\ ReleaseOperations \subseteq Operations \ {"install", "replay"}
  BY DEF Operations, RowOperations, ReleaseOperations
<1> QED BY <1>2, <1>3, <1>4, <1>5 DEF Receive

LEMMA UnsavedComeFrom ==
  ASSUME LifecycleInv, [Next]_vars, NEW g \in Handlers,
         handler'[g] # Idle, handler'[g].step \in Saving
  PROVE  Continued(g) \/ Copied(handler'[g])
<1>1. ASSUME handler'[g] = handler[g] PROVE Continued(g)
  BY <1>1 DEF Continued
<1>2. ASSUME NEW h \in Handlers, Receive(h) PROVE Continued(g) \/ Copied(handler'[g])
  BY <1>1, <1>2, BeginCopies
<1>3. ASSUME NEW h \in Handlers, Finish(h) PROVE handler'[g] = handler[g]
  BY <1>3 DEF Finish, LifecycleInv, TypeOK
<1>4. ASSUME NEW h \in Handlers, NEW step, NEW loaded, handler[h] # Idle,
             handler[h].step \in Saving \/ step \notin Saving,
             Hold(h, step, handler[h].operation, handler[h].installation,
                  handler[h].environment, handler[h].copy, loaded)
      PROVE  Continued(g)
  <2>1. CASE g = h
    <3>1. /\ handler'[h].step = step
          /\ handler'[h].operation = handler[h].operation
          /\ handler'[h].installation = handler[h].installation
          /\ handler'[h].copy = handler[h].copy
      BY <1>4 DEF Hold, LifecycleInv, TypeOK
    <3> QED BY <1>4, <2>1, <3>1 DEF Continued
  <2>2. CASE g # h
    BY <1>1, <1>4, <2>2 DEF Hold, Continued, LifecycleInv, TypeOK
  <2> QED BY <2>1, <2>2
<1>5. ASSUME NEW h \in Handlers, AddInstallation(h) \/ AppendAudit(h) PROVE Continued(g)
  BY <1>4, <1>5 DEF AddInstallation, AppendAudit, Advance, At, Saving
<1>6. ASSUME NEW h \in Handlers,
             AddRelease(h) \/ SaveRelease(h) \/ LoadRow(h) \/ UpdateRow(h)
      PROVE  Continued(g)
  BY <1>4, <1>6 DEF AddRelease, SaveRelease, LoadRow, UpdateRow, Advance, At, Saving
<1>7. ASSUME NEW h \in Handlers, ReadRelease(h) PROVE Continued(g)
  <2>1. handler[h] # Idle /\ handler[h].step \in Saving
    BY <1>7 DEF ReadRelease, At, Saving
  <2>2. Finish(h) \/ \E step : Advance(h, step)
    BY <1>7 DEF ReadRelease
  <2>3. ASSUME NEW step, Advance(h, step) PROVE Continued(g)
    BY <1>4, <2>1, <2>3 DEF Advance
  <2>4. CASE Finish(h)
    BY <1>1, <1>3, <2>4
  <2> QED BY <2>2, <2>3, <2>4
<1>8. ASSUME NEW h \in Handlers, Answer(h) \/ Collide(h) \/ Die(h) PROVE Finish(h)
  BY <1>8 DEF Answer, Collide, Die
<1>9. CASE UNCHANGED vars
  BY <1>1, <1>9 DEF vars
<1> QED BY <1>1, <1>2, <1>3, <1>5, <1>6, <1>7, <1>8, <1>9 DEF Next, Continue

(* Where the rows and releases come from. *)
LEMMA RowsComeFrom ==
  ASSUME LifecycleInv, [Next]_vars, NEW i \in Installations, rows[i] # None
  PROVE  \/ rows'[i] = rows[i]
         \/ \E h \in Handlers :
              /\ Saves(h, i)
              /\ rows'[i] = Written(rows[i], handler[h].copy, handler[h].loaded)
<1>1. ASSUME NEW h \in Handlers, AddInstallation(h) PROVE rows'[i] = rows[i]
  BY <1>1 DEF AddInstallation, LifecycleInv, TypeOK
<1>2. ASSUME NEW h \in Handlers, UpdateRow(h), rows'[i] # rows[i]
      PROVE  /\ Saves(h, i)
             /\ rows'[i] = Written(rows[i], handler[h].copy, handler[h].loaded)
  BY <1>2 DEF UpdateRow, At, Saves, Saving, LifecycleInv, TypeOK
<1>3. ASSUME NEW h \in Handlers, Receive(h) PROVE UNCHANGED rows
  BY <1>3 DEF Receive, BeginInstall, Begin, UninstallAgain
<1>4. ASSUME NEW h \in Handlers,
             \/ ReadRelease(h) \/ AddRelease(h) \/ SaveRelease(h) \/ LoadRow(h)
             \/ AppendAudit(h) \/ Answer(h) \/ Collide(h) \/ Die(h)
      PROVE  UNCHANGED rows
  BY <1>4 DEF ReadRelease, AddRelease, SaveRelease, LoadRow, AppendAudit, Answer, Collide, Die
<1> QED BY <1>1, <1>2, <1>3, <1>4 DEF Next, Continue, vars

LEMMA ReleasesComeFrom ==
  ASSUME LifecycleInv, [Next]_vars, NEW i \in Installations, releases'[i] # releases[i]
  PROVE  \E h \in Handlers : Saves(h, i) /\ handler[h].operation \in ReleaseOperations
<1>1. ASSUME NEW h \in Handlers, AddRelease(h) \/ SaveRelease(h)
      PROVE  Saves(h, i) /\ handler[h].operation \in ReleaseOperations
  <2>1. handler[h] # Idle /\ handler[h].step \in {"addRelease", "saveRelease"}
    BY <1>1 DEF AddRelease, SaveRelease, At
  <2>2. handler[h].installation = i
    BY <1>1 DEF AddRelease, SaveRelease, LifecycleInv, TypeOK
  <2>3. Sound(handler[h])
    BY <2>1 DEF LifecycleInv, HandlersAreSound
  <2> QED BY <2>1, <2>2, <2>3 DEF Sound, Saves, Saving
<1>2. ASSUME NEW h \in Handlers, Receive(h) PROVE UNCHANGED releases
  BY <1>2 DEF Receive, BeginInstall, Begin, UninstallAgain
<1>3. ASSUME NEW h \in Handlers,
             \/ AddInstallation(h) \/ ReadRelease(h) \/ LoadRow(h) \/ UpdateRow(h)
             \/ AppendAudit(h) \/ Answer(h) \/ Collide(h) \/ Die(h)
      PROVE  UNCHANGED releases
  BY <1>3 DEF AddInstallation, ReadRelease, LoadRow, UpdateRow, AppendAudit, Answer, Collide, Die
<1> QED BY <1>1, <1>2, <1>3 DEF Next, Continue, vars

LEMMA GoodStays ==
  ASSUME LifecycleInv, [Next]_vars, NEW what \in {"revoked", "uninstalled"},
         NEW i \in Installations, GoodForGood(what, i)
  PROVE  GoodForGood(what, i)'
<1>1. rows[i] # None /\ rows[i] \in Rows /\ Good(what, rows[i])
  BY DEF GoodForGood, LifecycleInv, TypeOK
<1>2. ASSUME NEW h \in Handlers, Saves(h, i)
      PROVE  handler[h].copy \in Rows /\ Good(what, handler[h].copy)
  BY <1>2, BusyType DEF GoodForGood, Saves, LifecycleInv
<1>3. rows'[i] \in Rows /\ Good(what, rows'[i])
  BY <1>1, <1>2, RowsComeFrom, WrittenStaysGood, WrittenFacts
<1>4. rows'[i] # None
  BY <1>3, SentinelAssumption
<1>5. ASSUME NEW g \in Handlers, Saves(g, i)' PROVE Good(what, handler'[g].copy)
  <2>1. CASE Continued(g)
    BY <1>2, <1>5, <2>1 DEF Saves, Continued
  <2>2. CASE Copied(handler'[g])
    BY <1>1, <1>5, <2>2, CopiesStayGood DEF Saves, Copied
  <2> QED BY <1>5, <2>1, <2>2, UnsavedComeFrom DEF Saves
<1> QED BY <1>3, <1>4, <1>5 DEF GoodForGood

(* Only an uninstall makes a copy that is uninstalled. *)
CopiesAreActive ==
  \A h \in Handlers : handler[h] # Idle /\ handler[h].step \in Saving =>
    handler[h].operation = "uninstall" \/ ~handler[h].copy.uninstalled

LEMMA ActiveStep ==
  ASSUME LifecycleInv, CopiesAreActive, [Next]_vars
  PROVE  CopiesAreActive'
<1> SUFFICES ASSUME NEW g \in Handlers, handler'[g] # Idle, handler'[g].step \in Saving,
                    handler'[g].operation # "uninstall"
             PROVE  ~handler'[g].copy.uninstalled
  BY DEF CopiesAreActive
<1>1. CASE Continued(g)
  BY <1>1 DEF Continued, CopiesAreActive
<1>2. CASE Copied(handler'[g])
  <2> DEFINE work == handler'[g]
             row == rows[work.installation]
  <2>1. /\ work.operation \in Operations \ {"install", "replay"}
        /\ row \in Rows /\ ~row.uninstalled
        /\ work.copy \in Copies(work.operation, row)
    BY <1>2 DEF Copied, Accepted, RequireActiveRecord, LifecycleInv, TypeOK
  <2>2. work.operation \in DOMAIN Target \cup {"grant", "bind"}
    BY <2>1, TargetFacts DEF Operations, ReleaseOperations, RowOperations
  <2> HIDE DEF work, row
  <2> QED BY <2>1, <2>2, TargetFacts DEF Copies, Rows, work
<1> QED BY <1>1, <1>2, UnsavedComeFrom

(* For any number of threads, dying or not: what a late save can undo is only *)
(* undone by a copy made before.  When no such copy is left, a revoked        *)
(* package is revoked for good, and an uninstalled one uninstalled.           *)
THEOREM PackagesComeToRest == Spec => PackagesSettle
<1> DEFINE Settles ==
      \A i \in Installations :
        /\ RevokedForGood(i) => RevokedForGood(i)'
        /\ UninstalledForGood(i) => UninstalledForGood(i)' /\ releases'[i] = releases[i]
<1>1. \A i : /\ RevokedForGood(i) <=> GoodForGood("revoked", i)
             /\ UninstalledForGood(i) <=> GoodForGood("uninstalled", i)
  BY DEF RevokedForGood, UninstalledForGood, GoodForGood, Good, Unsaved, Saves
<1>2. \A i : /\ RevokedForGood(i)' <=> GoodForGood("revoked", i)'
             /\ UninstalledForGood(i)' <=> GoodForGood("uninstalled", i)'
  BY DEF RevokedForGood, UninstalledForGood, GoodForGood, Good, Unsaved, Saves
<1>3. ASSUME LifecycleInv, CopiesAreActive, [Next]_vars PROVE Settles
  <2>1. ASSUME NEW i \in Installations, UninstalledForGood(i), releases'[i] # releases[i]
        PROVE  FALSE
    <3>1. PICK h \in Handlers : Saves(h, i) /\ handler[h].operation \in ReleaseOperations
      BY <1>3, <2>1, ReleasesComeFrom
    <3>2. ~handler[h].copy.uninstalled
      BY <1>3, <3>1 DEF CopiesAreActive, Saves, ReleaseOperations
    <3> QED BY <1>1, <2>1, <3>1, <3>2 DEF GoodForGood, Good
  <2> QED BY <1>1, <1>2, <1>3, <2>1, GoodStays
<1>4. Init => CopiesAreActive
  BY DEF Init, CopiesAreActive
<1>5. LifecycleInv /\ CopiesAreActive /\ [Next]_vars => CopiesAreActive'
  BY ActiveStep
<1>6. LifecycleInv /\ CopiesAreActive /\ [Next]_vars => [Settles]_vars
  BY <1>3
<1>7. PackagesSettle <=> [][Settles]_vars
  BY DEF PackagesSettle
<1> QED BY <1>4, <1>5, <1>6, <1>7, LifecycleInvariant, PTL DEF Spec
===============================================================================
