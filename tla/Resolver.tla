------------------------------- MODULE Resolver -------------------------------
(***************************************************************************)
(* The offline dependency resolver (DependencyResolver of fds_sdk).        *)
(*                                                                         *)
(* A depth-first search: `agenda' holds the calls of _search that are      *)
(* still to be made, the next one first, so a step takes the first call    *)
(* and puts the calls it makes in its place.  A call that fails makes      *)
(* none; the search then goes back to the next option of an earlier one.   *)
(*                                                                         *)
(* Versions, budgets and package identities are numbers, a version         *)
(* constraint is an interval, and capabilities stand for namespaces too.   *)
(* What else a reference may expect of a manifest, the kind of a Component *)
(* and a digest, are its traits.                                           *)
(* Which of several issues is reported is left out: a call that fails has  *)
(* some.                                                                   *)
(*                                                                         *)
(* The lock lists its packages in the order in which a second depth-first  *)
(* search leaves them: `trail' holds the calls of visit that are open, the *)
(* innermost last.                                                         *)
(***************************************************************************)
EXTENDS Naturals, SequencesExt

CONSTANTS
  Registries,      \* the sets of manifests a resolution may be asked about (a bound)
  Root,            \* the reference the resolution starts from
  Bound,           \* the highest value of a field of a budget
  Invalid,         \* the answer if there is no lock
  Error,           \* the exception that ends a resolution without an answer
  None

Kinds == {"DOMAIN", "COMPONENT", "ORGANIZATION_OVERLAY", "SCENARIO"}
Visibilities == {"PUBLIC", "PARTNER", "ORGANIZATION_PRIVATE", "PRIVATE"}

(* A reference asks for a package in an interval of versions and expects      *)
(* something of it; a requirement is a reference that is required or optional. *)
References ==
  [package: Nat, from: Nat, to: Nat, kind: Kinds \cup {None}, expects: SUBSET STRING]
Requirements ==
  [package: Nat, from: Nat, to: Nat, kind: Kinds \cup {None}, expects: SUBSET STRING,
   required: BOOLEAN]

(* A budget; access is to the network and to secrets.                         *)
SummedFields == {"cpu_millis", "memory_mib", "max_output_bytes"}
Budgets ==
  [cpu_millis: Nat, memory_mib: Nat, max_output_bytes: Nat, timeout_seconds: Nat,
   access: SUBSET STRING]

(* What a search over a set of candidates works with: selections, which are   *)
(* functions from packages to manifests, and the calls and locks built of them. *)
SelectionsFrom(candidates) ==
  UNION {[chosen -> candidates] : chosen \in SUBSET {m.id : m \in candidates}}

CallsOver(candidates) ==
  [selected: SelectionsFrom(candidates), edges: SUBSET (Nat \X Nat), skipped: SUBSET Nat,
   pending: SUBSET [parent: Nat, requirement: Requirements]]

LocksOver(candidates) ==
  [selected: SelectionsFrom(candidates), edges: SUBSET (Nat \X Nat), skipped: SUBSET Nat,
   order: Seq(Nat)]

ASSUME ResolverAssumption ==
  /\ Root \in References
  /\ Bound \in [SummedFields -> Nat]
  /\ \A candidates \in Registries :
       /\ IsFiniteSet(candidates)
       /\ \A m \in candidates :
            /\ {m.id, m.version} \subseteq Nat
            /\ {m.budget, m.allowance} \subseteq Budgets
            /\ m.kind \in Kinds
            /\ m.visibility \in Visibilities
            /\ m.compatible \in BOOLEAN
            /\ m.requires \subseteq Requirements
       /\ None \notin CallsOver(candidates)
       /\ {Invalid, Error} \cap LocksOver(candidates) = {}
  /\ Invalid # None /\ Error \notin {Invalid, None}

VARIABLES
  registry,        \* the candidates
  includeOptional,
  agenda,          \* the calls of _search to be made
  found,           \* the call that was successful
  trail,           \* the packages that are being visited for the order of the lock
  ordered,         \* the packages that have been visited
  answer           \* the lock, Invalid or Error, when the resolution is over

vars == <<registry, includeOptional, agenda, found, trail, ordered, answer>>

-------------------------------------------------------------------------------
(* A definition named Faulty... is a wrong variant of the one that follows.   *)

(* _prepare_candidates: no two manifests of one version.                      *)
Unambiguous(candidates) ==
  \A m, n \in candidates : m.id = n.id /\ m.version = n.version => m = n

Matches(m, reference) ==
  /\ m.version \in reference.from .. reference.to
  /\ reference.kind \in {None, m.kind}
  /\ reference.expects \subseteq m.provides \cup m.traits
  /\ m.compatible

Matching(candidates, reference) ==
  {m \in candidates : m.id = reference.package /\ Matches(m, reference)}

(* The options of a reference, the highest version first.                     *)
FaultyOptions(candidates, reference) ==  \* the lowest version first
  LET matching == Matching(candidates, reference) IN
  CHOOSE options \in [1..Cardinality(matching) -> matching] :
    \A i, j \in DOMAIN options : i < j =>
      options[i] # options[j] /\ options[i].version <= options[j].version
Options(candidates, reference) ==
  LET matching == Matching(candidates, reference) IN
  CHOOSE options \in [1..Cardinality(matching) -> matching] :
    \A i, j \in DOMAIN options : i < j =>
      options[i] # options[j] /\ options[i].version >= options[j].version

Pending(m) == {[parent |-> m.id, requirement |-> requirement] : requirement \in m.requires}

Key(item) ==
  <<item.parent, item.requirement.package, item.requirement.from, item.requirement.to,
    IF item.requirement.required THEN 1 ELSE 0>>

Before(item, other) ==
  \E i \in 1..5 :
    /\ Key(item)[i] < Key(other)[i]
    /\ \A j \in 1..i-1 : Key(item)[j] = Key(other)[j]

(* The first of them; of equal keys, it is not said which one.                *)
Current(call) ==
  CHOOSE item \in call.pending : \A other \in call.pending : ~Before(other, item)

FaultyRemainder(call) == call.pending  \* what was dealt with comes up again
Remainder(call) == call.pending \ {Current(call)}

Edge(item) == <<item.parent, item.requirement.package>>

Chosen(call) == DOMAIN call.selected

-------------------------------------------------------------------------------
(* _validate_graph: the whole selection is judged at once.                    *)

(* What the walks of _find_cycle and _transitive_visibility_issues come to, in *)
(* as many rounds as there are edges.                                         *)
Onwards(edges, reached) == reached \cup {edge[2] : edge \in {e \in edges : e[1] \in reached}}

Walk(edges, start) ==
  LET reached[n \in Nat] == IF n = 0 THEN start ELSE Onwards(edges, reached[n - 1]) IN reached

Reached(edges, start) == Walk(edges, start)[Cardinality(edges)]

Children(edges, p) == {edge[2] : edge \in {e \in edges : e[1] = p}}

AllowedKinds == [kind \in Kinds |->
  IF kind = "SCENARIO" THEN {"DOMAIN", "ORGANIZATION_OVERLAY", "COMPONENT"}
  ELSE {"DOMAIN", "COMPONENT"}]

Layered(selected, edges) ==
  \A edge \in edges : selected[edge[2]].kind \in AllowedKinds[selected[edge[1]].kind]

Acyclic(edges) == \A edge \in edges : edge[1] \notin Reached(edges, {edge[2]})

Public(m) == m.kind = "DOMAIN" /\ m.visibility = "PUBLIC"
Private(m) == m.visibility \in {"ORGANIZATION_PRIVATE", "PRIVATE"}

PublicStaysPublic(selected, edges) ==
  \A p \in DOMAIN selected : Public(selected[p]) =>
    \A q \in Reached(edges, Children(edges, p)) : ~Private(selected[q])

Capabilities(selected) == UNION {selected[p].provides : p \in DOMAIN selected}

NoConflicts(selected) ==
  \A p \in DOMAIN selected :
    /\ \A conflict \in selected[p].conflicts : conflict.package \in DOMAIN selected =>
         selected[conflict.package].version \notin conflict.from .. conflict.to
    /\ selected[p].excludes \cap Capabilities(selected) = {}

OneProvider(selected) ==
  \A p, q \in DOMAIN selected : p # q => selected[p].provides \cap selected[q].provides = {}

DomainCapabilities(selected) ==
  UNION {selected[p].provides : p \in {q \in DOMAIN selected : selected[q].kind = "DOMAIN"}}

NeedsAreMet(selected) ==
  \A p \in DOMAIN selected : selected[p].needs \subseteq DomainCapabilities(selected)

(* The root answers for all the others: it has or accepts their permissions,  *)
(* and its allowance covers their budgets.  Processors, memory and output add *)
(* up; the time counts that takes longest, and access has to be given.        *)
Permitted(m, root) == m.permissions \subseteq root.permissions \cup root.accepts

Affordable(m, root) ==
  /\ m.budget.timeout_seconds <= root.allowance.timeout_seconds
  /\ m.budget.access \subseteq root.allowance.access

Total(selected, packages, field) ==
  SumFunctionOnSet([p \in packages |-> selected[p].budget[field]], packages)

(* A budget of several packages is validated as that of one is.               *)
Overflows(selected, packages) ==
  \E field \in SummedFields : Total(selected, packages, field) > Bound[field]

WithinBudget(selected, root) ==
  LET dependencies == DOMAIN selected \ {root} IN
  /\ \A p \in dependencies :
       Permitted(selected[p], selected[root]) /\ Affordable(selected[p], selected[root])
  /\ \A field \in SummedFields :
       Total(selected, dependencies, field) <= selected[root].allowance[field]

ValidGraph(call) ==
  /\ Layered(call.selected, call.edges)
  /\ Acyclic(call.edges)
  /\ PublicStaysPublic(call.selected, call.edges)
  /\ NoConflicts(call.selected)
  /\ OneProvider(call.selected)
  /\ NeedsAreMet(call.selected)
  /\ WithinBudget(call.selected, Root.package)

-------------------------------------------------------------------------------
(* The steps of the search.                                                   *)

Call(selected, edges, skipped, pending) ==
  [selected |-> selected, edges |-> edges, skipped |-> skipped, pending |-> pending]

StartWith(m) == Call([p \in {m.id} |-> m], {}, {}, Pending(m))

Calls(options, callFor) == [i \in 1..Len(options) |-> callFor[options[i]]]

Init ==
  /\ registry \in Registries
  /\ includeOptional \in BOOLEAN
  /\ agenda = IF Unambiguous(registry)
              THEN Calls(Options(registry, Root), [m \in registry |-> StartWith(m)]) ELSE <<>>
  /\ found = None
  /\ trail = <<>>
  /\ ordered = <<>>
  /\ answer = None

Proceed(calls) ==
  /\ agenda' = calls \o Tail(agenda)
  /\ UNCHANGED <<registry, includeOptional, found, trail, ordered, answer>>

Searching == agenda # <<>>
Deciding == Searching /\ Head(agenda).pending # {}

NoOptions(requirement) == Matching(registry, requirement) = {}

(* An optional dependency is skipped if it is not wanted at all, or if        *)
(* nothing matches; but not if another version was chosen before.             *)
Skip ==
  LET call == Head(agenda)
      requirement == Current(call).requirement IN
  /\ Deciding
  /\ ~requirement.required
  /\ \/ ~includeOptional
     \/ requirement.package \notin Chosen(call) /\ NoOptions(requirement)
  /\ Proceed(<<[call EXCEPT !.skipped = @ \cup {requirement.package},
                            !.pending = Remainder(call)]>>)

Wanted(requirement) == requirement.required \/ includeOptional

FaultyReuses(call, requirement) == requirement.package \in Chosen(call)
Reuses(call, requirement) ==
  requirement.package \in Chosen(call) /\ Matches(call.selected[requirement.package], requirement)

Reuse ==
  LET call == Head(agenda)
      item == Current(call) IN
  /\ Deciding
  /\ Wanted(item.requirement)
  /\ Reuses(call, item.requirement)
  /\ Proceed(<<[call EXCEPT !.edges = @ \cup {Edge(item)}, !.pending = Remainder(call)]>>)

(* All the options are tried, in order.                                       *)
FaultyTried(options) == SubSeq(options, 1, 1)  \* the search does not go back
Tried(options) == options

Extended(selected, option) ==
  [p \in DOMAIN selected \cup {option.id} |-> IF p = option.id THEN option ELSE selected[p]]

Choose ==
  LET call == Head(agenda)
      item == Current(call)
      extended == [option \in registry |->
        Call(Extended(call.selected, option), call.edges \cup {Edge(item)},
             call.skipped, Remainder(call) \cup Pending(option))] IN
  /\ Deciding
  /\ Wanted(item.requirement)
  /\ item.requirement.package \notin Chosen(call)
  /\ ~NoOptions(item.requirement)
  /\ Proceed(Calls(Tried(Options(registry, item.requirement)), extended))

Refuse ==
  LET call == Head(agenda)
      requirement == Current(call).requirement IN
  /\ Deciding
  /\ Wanted(requirement)
  /\ IF requirement.package \in Chosen(call)
     THEN ~Matches(call.selected[requirement.package], requirement)
     ELSE requirement.required /\ NoOptions(requirement)
  /\ Proceed(<<>>)

Judging ==
  /\ Searching
  /\ Head(agenda).pending = {}

DependenciesOverflow(call) == Overflows(call.selected, Chosen(call) \ {Root.package})

RefuseGraph ==
  /\ Judging
  /\ ~DependenciesOverflow(Head(agenda))
  /\ ~ValidGraph(Head(agenda))
  /\ Proceed(<<>>)

-------------------------------------------------------------------------------
(* The end of the search.                                                     *)

(* The first call with a valid graph is the result; its root is visited.      *)
Accept ==
  /\ Judging
  /\ ~DependenciesOverflow(Head(agenda))
  /\ ValidGraph(Head(agenda))
  /\ found' = Head(agenda)
  /\ agenda' = <<>>
  /\ trail' = <<Root.package>>
  /\ UNCHANGED <<registry, includeOptional, ordered, answer>>

GiveUp ==
  /\ agenda = <<>>
  /\ found = None
  /\ answer = None
  /\ answer' = Invalid
  /\ UNCHANGED <<registry, includeOptional, agenda, found, trail, ordered>>

-------------------------------------------------------------------------------
(* _topological_order: what a package depends on before the package.  The     *)
(* loop over all packages after the visit of the root finds none left, which  *)
(* is the first line of DependenciesComeFirst.                                *)

Unvisited(p) == Children(found.edges, p) \ (ToSet(trail) \cup ToSet(ordered))

Visit ==
  /\ trail # <<>>
  /\ \E p \in Unvisited(Last(trail)) :
       /\ \A q \in Unvisited(Last(trail)) : p <= q
       /\ trail' = Append(trail, p)
  /\ UNCHANGED <<registry, includeOptional, agenda, found, ordered, answer>>

FaultyLeave ==  \* a package before what it depends on
  /\ trail # <<>>
  /\ Unvisited(Last(trail)) = {}
  /\ ordered' = <<Last(trail)>> \o ordered
  /\ trail' = Front(trail)
  /\ UNCHANGED <<registry, includeOptional, agenda, found, answer>>
Leave ==
  /\ trail # <<>>
  /\ Unvisited(Last(trail)) = {}
  /\ ordered' = Append(ordered, Last(trail))
  /\ trail' = Front(trail)
  /\ UNCHANGED <<registry, includeOptional, agenda, found, answer>>

Building == found # None /\ trail = <<>> /\ answer = None

BuildLock ==
  /\ Building
  /\ ~Overflows(found.selected, Chosen(found))
  /\ answer' = [selected |-> found.selected, edges |-> found.edges,
                skipped |-> found.skipped, order |-> ordered]
  /\ UNCHANGED <<registry, includeOptional, agenda, found, trail, ordered>>

(* A sum past the bound of its field raises an exception, in the judgement of *)
(* a selection that would have been refused, or in the lock of one that was   *)
(* not; nobody catches it.                                                    *)
Raise ==
  /\ \/ Judging /\ DependenciesOverflow(Head(agenda))
     \/ Building /\ Overflows(found.selected, Chosen(found))
  /\ agenda' = <<>>
  /\ answer' = Error
  /\ UNCHANGED <<registry, includeOptional, found, trail, ordered>>

Next ==
  \/ Skip \/ Reuse \/ Choose \/ Refuse \/ RefuseGraph \/ Accept \/ GiveUp
  \/ Visit \/ Leave \/ BuildLock \/ Raise

(* The search is one function call, which runs to its end.                    *)
Spec == Init /\ [][Next]_vars /\ WF_vars(Next)

-------------------------------------------------------------------------------
(* What a selection has to be, whatever way it was found.                     *)

Selections == SelectionsFrom(registry)

Dependencies(selection, p) ==
  {requirement \in selection[p].requires :
     /\ Wanted(requirement)
     /\ requirement.package \in DOMAIN selection
     /\ Matches(selection[requirement.package], requirement)}

(* The smallest set with the root in it that has, with a package, what that   *)
(* package depends on, is the whole selection.                                *)
OnlyWhatIsNeeded(selection) ==
  \A part \in SUBSET DOMAIN selection :
    /\ Root.package \in part
    /\ \A p \in part : \A requirement \in Dependencies(selection, p) : requirement.package \in part
    => part = DOMAIN selection

(* No set of packages each of which depends on one of them.                   *)
NoCycle(selection) ==
  \A part \in (SUBSET DOMAIN selection) \ {{}} :
    \E p \in part : \A requirement \in Dependencies(selection, p) : requirement.package \notin part

(* A set with a public Domain in it and none of the private packages, and     *)
(* with all that its members depend on.                                       *)
PublicAlone(selection) ==
  \A p \in DOMAIN selection : Public(selection[p]) =>
    \E part \in SUBSET DOMAIN selection :
      /\ p \in part
      /\ \A q \in part : ~Private(selection[q])
      /\ \A q \in part : \A requirement \in Dependencies(selection, q) : requirement.package \in part

Admissible(selection) ==
  /\ \A p \in DOMAIN selection : selection[p].id = p
  /\ Root.package \in DOMAIN selection
  /\ Matches(selection[Root.package], Root)
  /\ \A p \in DOMAIN selection : \A requirement \in selection[p].requires :
       requirement.required \/ (includeOptional /\ ~NoOptions(requirement)) =>
         requirement \in Dependencies(selection, p)
  /\ OnlyWhatIsNeeded(selection)
  /\ NoCycle(selection)
  /\ PublicAlone(selection)
  /\ \A p \in DOMAIN selection : \A requirement \in Dependencies(selection, p) :
       selection[requirement.package].kind \in AllowedKinds[selection[p].kind]
  /\ NoConflicts(selection)
  /\ OneProvider(selection)
  /\ NeedsAreMet(selection)
  /\ WithinBudget(selection, Root.package)

(* An optional dependency that nothing matches is left out, and no other      *)
(* version of it is there for another package: if that one is chosen first,   *)
(* the search refuses, and if it is chosen later, it does not.                *)
Strict(selection) ==
  \A p \in DOMAIN selection : \A requirement \in selection[p].requires :
    Wanted(requirement) /\ requirement.package \in DOMAIN selection =>
      requirement \in Dependencies(selection, p)

Better(other, selection) ==
  /\ other # selection
  /\ \A p \in DOMAIN other \cap DOMAIN selection : other[p].version >= selection[p].version

-------------------------------------------------------------------------------
(* Properties. *)

(* The calls, the found one and the lock select from the candidates.          *)
TypeOK ==
  /\ registry \in Registries
  /\ includeOptional \in BOOLEAN
  /\ agenda \in Seq(CallsOver(registry))
  /\ found \in CallsOver(registry) \cup {None}
  /\ trail \in Seq(Nat)
  /\ ordered \in Seq(Nat)
  /\ answer \in LocksOver(registry) \cup {None, Invalid, Error}

Locked == answer \notin {None, Invalid, Error}

(* A lock is admissible: what was judged dependency by dependency, on the way,*)
(* still holds of the whole that came out.                                    *)
LocksAreAdmissible == Locked => Admissible(answer.selected)

(* Invalid means that there is nothing Strict to find: no admissible selection *)
(* was missed by an option tried or dropped too early.  One that is not Strict *)
(* may be missed, although ADR 0006 would have its optional dependency skipped. *)
NothingIsMissed ==
  answer = Invalid /\ Unambiguous(registry) =>
    \A selection \in Selections : ~(Admissible(selection) /\ Strict(selection))

(* Highest versions first: no admissible selection that is Strict has, of     *)
(* every package in both, a version at least as high, and differs.            *)
NothingIsBetter ==
  Locked => \A selection \in Selections :
    Better(selection, answer.selected) => ~(Admissible(selection) /\ Strict(selection))

(* The lock lists every package once, after all it depends on.                *)
DependenciesComeFirst ==
  Locked =>
    /\ ToSet(answer.order) = DOMAIN answer.selected
    /\ Len(answer.order) = Cardinality(DOMAIN answer.selected)
    /\ \A i, j \in DOMAIN answer.order :
         <<answer.order[i], answer.order[j]>> \in answer.edges => j < i

(* Packages may depend on each other in circles: the search ends all the same.*)
Terminates == <>(answer # None)
===============================================================================
