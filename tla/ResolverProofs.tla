---------------------------- MODULE ResolverProofs ----------------------------
(***************************************************************************)
(* Proofs about Resolver, for any root and any finite sets of candidates:  *)
(* a lock is admissible and no admissible selection is better, the search  *)
(* gives up only if there is nothing to find, and the lock lists what a    *)
(* package depends on before the package.                                  *)
(***************************************************************************)
EXTENDS Resolver, FiniteSetTheorems, WellFoundedInduction, TLAPS

(* Least elements and induction, over sets of numbers. *)
LEMMA NatMin ==
  ASSUME NEW T \in SUBSET Nat, T # {}
  PROVE  \E n \in T : \A m \in T : n <= m
<1> DEFINE less == {ss \in Nat \X Nat : ss[1] < ss[2]}
<1>1. IsWellFoundedOn(less, Nat)
  BY NatLessThanWellFounded DEF OpToRel
<1>2. \A m, n \in Nat : m < n => <<m, n>> \in less
  OBVIOUS
<1> HIDE DEF less
<1>3. PICK n \in T : \A m \in T : <<m, n>> \notin less
  BY <1>1, WFMin
<1>4. ASSUME NEW m \in T PROVE n <= m
  <2>1. ~(m < n)
    BY <1>2, <1>3
  <2> QED BY <2>1
<1> QED BY <1>4

LEMMA Ind ==
  ASSUME NEW S \in SUBSET Nat, 0 \in S, \A n \in S : n + 1 \in S
  PROVE  S = Nat
<1> SUFFICES ASSUME S # Nat PROVE FALSE
  OBVIOUS
<1>1. PICK n \in Nat \ S : \A m \in Nat \ S : n <= m
  BY NatMin
<1>2. n - 1 \in S
  BY <1>1
<1> QED BY <1>1, <1>2

(* A set of finite sets that is not empty has a smallest one. *)
LEMMA FinMin ==
  ASSUME NEW W, IsFiniteSet(W), NEW sets \in SUBSET SUBSET W, sets # {}
  PROVE  \E s \in sets : \A t \in sets : ~(t \subseteq s /\ t # s)
<1> DEFINE sizes == {n \in Nat : \E s \in sets : Cardinality(s) = n}
<1>1. \A s \in sets : IsFiniteSet(s) /\ Cardinality(s) \in Nat
  BY FS_Subset, FS_CardinalityType
<1>2. sizes # {}
  BY <1>1
<1>3. PICK n \in sizes : \A m \in sizes : n <= m
  BY <1>2, NatMin
<1>4. PICK s \in sets : Cardinality(s) = n
  OBVIOUS
<1>5. ASSUME NEW t \in sets, t \subseteq s, t # s PROVE FALSE
  <2>1. Cardinality(t) < n
    BY <1>1, <1>4, <1>5, FS_Subset
  <2>2. n <= Cardinality(t)
    BY <1>1, <1>3
  <2> QED BY <1>1, <2>1, <2>2
<1> QED BY <1>5

-------------------------------------------------------------------------------
(* Walk: the recursive function exists, and what Reached then comes to.       *)

Round(edges, start, f, n) == IF n = 0 THEN start ELSE Onwards(edges, f[n - 1])

AreRounds(edges, start, n, f) == f = [k \in 0..n |-> Round(edges, start, f, k)]

LEMMA RoundsExist ==
  ASSUME NEW edges, NEW start, NEW n \in Nat
  PROVE  \E f : AreRounds(edges, start, n, f)
<1> DEFINE S == {k \in Nat : \E f : AreRounds(edges, start, k, f)}
<1>1. 0 \in S
  <2> DEFINE f == [k \in 0..0 |-> start]
  <2>1. AreRounds(edges, start, 0, f)
    BY DEF AreRounds, Round
  <2> QED BY <2>1
<1>2. ASSUME NEW k \in S PROVE k + 1 \in S
  <2>1. PICK f : AreRounds(edges, start, k, f)
    OBVIOUS
  <2> DEFINE g == [j \in 0..k+1 |-> IF j = k + 1 THEN Onwards(edges, f[k]) ELSE f[j]]
  <2>2. ASSUME NEW j \in 0..k+1 PROVE g[j] = Round(edges, start, g, j)
    <3>1. CASE j = k + 1
      BY <3>1 DEF Round
    <3>2. CASE j # k + 1
      BY <3>2, <2>1 DEF Round, AreRounds
    <3> QED BY <3>1, <3>2
  <2>3. AreRounds(edges, start, k + 1, g)
    BY <2>2 DEF AreRounds
  <2> QED BY <2>3
<1> HIDE DEF S
<1>3. S = Nat
  BY <1>1, <1>2, Ind DEF S
<1> QED BY <1>3 DEF S

LEMMA RoundsAgree ==
  ASSUME NEW edges, NEW start, NEW n \in Nat, NEW m \in Nat, NEW f, NEW g,
         AreRounds(edges, start, n, f), AreRounds(edges, start, m, g)
  PROVE  \A k \in Nat : k <= n /\ k <= m => f[k] = g[k]
<1> DEFINE S == {k \in Nat : k <= n /\ k <= m => f[k] = g[k]}
<1>1. 0 \in S
  BY DEF AreRounds, Round
<1>2. ASSUME NEW k \in S PROVE k + 1 \in S
  BY DEF AreRounds, Round
<1> HIDE DEF S
<1>3. S = Nat
  BY <1>1, <1>2, Ind DEF S
<1> QED BY <1>3 DEF S

LEMMA WalkRounds ==
  ASSUME NEW edges, NEW start
  PROVE  /\ Walk(edges, start)[0] = start
         /\ \A n \in Nat :
              Walk(edges, start)[n + 1] = Onwards(edges, Walk(edges, start)[n])
<1> DEFINE rounds == [n \in Nat |-> CHOOSE f : AreRounds(edges, start, n, f)]
           walk == [n \in Nat |-> rounds[n][n]]
<1>1. \A n \in Nat : AreRounds(edges, start, n, rounds[n])
  BY RoundsExist
<1>2. \A n \in Nat : walk[n] = rounds[n][n]
  OBVIOUS
<1>3. walk = [n \in Nat |-> walk[n]]
  OBVIOUS
<1> HIDE DEF rounds, walk
<1>4. ASSUME NEW n \in Nat
      PROVE  walk[n] = IF n = 0 THEN start ELSE Onwards(edges, walk[n - 1])
  <2>1. rounds[n] = [k \in 0..n |-> Round(edges, start, rounds[n], k)]
    BY <1>1 DEF AreRounds
  <2>2. rounds[n][n] = Round(edges, start, rounds[n], n)
    BY <2>1
  <2>3. CASE n = 0
    BY <2>2, <2>3, <1>2 DEF Round
  <2>4. CASE n # 0
    <3>1. PICK m \in Nat : n = m + 1
      BY <2>4
    <3>2. AreRounds(edges, start, m, rounds[m]) /\ AreRounds(edges, start, n, rounds[n])
      BY <1>1
    <3>3. \A k \in Nat : k <= n /\ k <= m => rounds[n][k] = rounds[m][k]
      BY <3>2, RoundsAgree
    <3>4. n - 1 = m /\ m <= n /\ m <= m
      BY <3>1
    <3>5. rounds[n][m] = rounds[m][m]
      BY <3>3, <3>4
    <3> QED BY <2>2, <2>4, <3>4, <3>5, <1>2 DEF Round
  <2> QED BY <2>3, <2>4
<1>5. walk = [n \in Nat |-> IF n = 0 THEN start ELSE Onwards(edges, walk[n - 1])]
  BY <1>3, <1>4
<1> DEFINE w == Walk(edges, start)
<1>6. w = [n \in Nat |-> IF n = 0 THEN start ELSE Onwards(edges, w[n - 1])]
  BY <1>5 DEF Walk
<1> HIDE DEF w
<1>7. w[0] = start /\ \A n \in Nat : w[n + 1] = Onwards(edges, w[n])
  BY <1>6
<1> QED BY <1>7 DEF w

(* A set of packages that has, with a package, what its edges lead to. *)
Closed(edges, part) == \A edge \in edges : edge[1] \in part => edge[2] \in part

(* As long as a round adds something, it follows an edge not followed before: *)
(* there are enough rounds.                                                   *)
LEMMA ReachedIsClosed ==
  ASSUME NEW edges, IsFiniteSet(edges), NEW start
  PROVE  start \subseteq Reached(edges, start) /\ Closed(edges, Reached(edges, start))
<1> DEFINE w == Walk(edges, start)
           followed(n) == {edge \in edges : edge[1] \in w[n]}
           S == {n \in Nat : start \subseteq w[n]
                   /\ (Closed(edges, w[n]) \/ Cardinality(followed(n)) >= n + 1)}
<1>1. w[0] = start /\ \A n \in Nat : w[n + 1] = Onwards(edges, w[n])
  BY WalkRounds
<1> HIDE DEF w
<1>2. \A n \in Nat : IsFiniteSet(followed(n)) /\ Cardinality(followed(n)) \in Nat
  BY FS_Subset, FS_CardinalityType
<1>3. \A n \in Nat : w[n] \subseteq w[n + 1]
  BY <1>1 DEF Onwards
<1>4. 0 \in S
  <2>1. ASSUME ~Closed(edges, w[0]) PROVE Cardinality(followed(0)) >= 1
    <3>1. followed(0) # {}
      BY <2>1 DEF Closed
    <3> QED BY <3>1, <1>2, FS_EmptySet
  <2> QED BY <2>1, <1>1
<1>5. ASSUME NEW n \in S PROVE n + 1 \in S
  <2>1. start \subseteq w[n + 1]
    BY <1>3
  <2>2. ASSUME ~Closed(edges, w[n + 1]) PROVE Cardinality(followed(n + 1)) >= n + 2
    <3>1. PICK edge \in edges : edge[1] \in w[n + 1] /\ edge[2] \notin w[n + 1]
      BY <2>2 DEF Closed
    <3>2. edge \notin followed(n) /\ edge \in followed(n + 1)
      BY <3>1, <1>1 DEF Onwards
    <3>3. ~Closed(edges, w[n])
      <4>1. Closed(edges, w[n]) => w[n + 1] = w[n]
        BY <1>1 DEF Closed, Onwards
      <4> QED BY <4>1, <2>2
    <3>4. Cardinality(followed(n)) >= n + 1
      BY <3>3
    <3>5. followed(n) \subseteq followed(n + 1) /\ followed(n) # followed(n + 1)
      BY <3>2, <1>3
    <3>6. n + 1 \in Nat
      OBVIOUS
    <3> HIDE DEF followed
    <3>7. Cardinality(followed(n)) < Cardinality(followed(n + 1))
      BY <1>2, <3>5, <3>6, FS_Subset
    <3> QED BY <3>4, <3>6, <3>7, <1>2
  <2> QED BY <2>1, <2>2
<1> HIDE DEF S
<1>6. S = Nat
  BY <1>4, <1>5, Ind DEF S
<1> DEFINE N == Cardinality(edges)
<1>7. N \in Nat
  BY FS_CardinalityType
<1>8. Cardinality(followed(N)) <= N
  BY FS_Subset
<1> HIDE DEF N
<1>9. start \subseteq w[N] /\ (Closed(edges, w[N]) \/ Cardinality(followed(N)) >= N + 1)
  BY <1>6, <1>7 DEF S
<1>10. start \subseteq w[N] /\ Closed(edges, w[N])
  <2> HIDE DEF followed
  <2> QED BY <1>2, <1>7, <1>8, <1>9
<1> QED BY <1>10 DEF Reached, N, w

LEMMA ReachedIsLeast ==
  ASSUME NEW edges, IsFiniteSet(edges), NEW start, NEW part,
         start \subseteq part, Closed(edges, part)
  PROVE  Reached(edges, start) \subseteq part
<1> DEFINE w == Walk(edges, start)
           S == {n \in Nat : w[n] \subseteq part}
<1>1. w[0] = start /\ \A n \in Nat : w[n + 1] = Onwards(edges, w[n])
  BY WalkRounds
<1> HIDE DEF w
<1>2. 0 \in S
  BY <1>1
<1>3. ASSUME NEW n \in S PROVE n + 1 \in S
  BY <1>1 DEF Onwards, Closed
<1> HIDE DEF S
<1>4. S = Nat
  BY <1>2, <1>3, Ind DEF S
<1>5. Cardinality(edges) \in Nat
  BY FS_CardinalityType
<1> QED BY <1>4, <1>5 DEF S, Reached, w

-------------------------------------------------------------------------------
(* The options of a reference and the next requirement: both CHOOSEs are      *)
(* satisfied.                                                                 *)

(* The highest version first. *)
Descending(options) ==
  \A i, j \in DOMAIN options : i < j =>
    options[i] # options[j] /\ options[i].version >= options[j].version

LEMMA DescendingExists ==
  ASSUME NEW candidates, IsFiniteSet(candidates), \A m \in candidates : m.version \in Nat
  PROVE  \E options \in [1..Cardinality(candidates) -> candidates] : Descending(options)
<1> DEFINE Enumerates(some) ==
             \E options \in [1..Cardinality(some) -> some] : Descending(options)
           S == {n \in Nat :
                   \A some \in SUBSET candidates : Cardinality(some) = n => Enumerates(some)}
<1>1. \A some \in SUBSET candidates : IsFiniteSet(some) /\ Cardinality(some) \in Nat
  BY FS_Subset, FS_CardinalityType
<1>2. 0 \in S
  <2> SUFFICES ASSUME NEW some \in SUBSET candidates, Cardinality(some) = 0
               PROVE  Enumerates(some)
    OBVIOUS
  <2>1. some = {}
    BY <1>1, FS_EmptySet
  <2>2. [i \in 1..0 |-> i] \in [1..0 -> some] /\ Descending([i \in 1..0 |-> i])
    BY DEF Descending
  <2> QED BY <2>2
<1>3. ASSUME NEW n \in S PROVE n + 1 \in S
  <2> SUFFICES ASSUME NEW some \in SUBSET candidates, Cardinality(some) = n + 1
               PROVE  Enumerates(some)
    OBVIOUS
  <2>1. some # {}
    BY FS_EmptySet
  <2> DEFINE versions == {m.version : m \in some}
  <2>2. PICK v \in versions : \A u \in versions : v <= u
    <3>1. versions \in SUBSET Nat /\ versions # {}
      BY <2>1
    <3> HIDE DEF versions
    <3> QED BY <3>1, NatMin
  <2>3. PICK least \in some : \A m \in some : least.version <= m.version
    BY <2>2
  <2> DEFINE rest == some \ {least}
  <2>4. rest \in SUBSET candidates /\ Cardinality(rest) = n
    BY <1>1, FS_RemoveElement
  <2>5. PICK options \in [1..n -> rest] : Descending(options)
    BY <2>4
  <2> DEFINE all == [i \in 1..n+1 |-> IF i = n + 1 THEN least ELSE options[i]]
  <2>6. all \in [1..n+1 -> some]
    BY <2>5
  <2>7. ASSUME NEW i \in 1..n+1, NEW j \in 1..n+1, i < j
        PROVE  all[i] # all[j] /\ all[i].version >= all[j].version
    <3>1. i \in 1..n /\ all[i] = options[i] /\ options[i] \in rest
      BY <2>5, <2>7
    <3>2. CASE j = n + 1
      BY <3>1, <3>2, <2>3
    <3>3. CASE j # n + 1
      BY <3>1, <3>3, <2>5, <2>7 DEF Descending
    <3> QED BY <3>2, <3>3
  <2>8. Descending(all)
    BY <2>6, <2>7 DEF Descending
  <2> QED BY <2>6, <2>8
<1> HIDE DEF S, Enumerates
<1>4. S = Nat
  BY <1>2, <1>3, Ind DEF S
<1> QED BY <1>1, <1>4 DEF S, Enumerates

(* A function from the first numbers is a sequence. *)
LEMMA FunctionIsSeq ==
  ASSUME NEW n \in Nat, NEW T, NEW f \in [1..n -> T]
  PROVE  f \in Seq(T) /\ Len(f) = n /\ DOMAIN f = 1..n
  OBVIOUS

LEMMA CandidatesType ==
  ASSUME registry \in Registries
  PROVE  /\ IsFiniteSet(registry)
         /\ \A m \in registry : /\ m.id \in Nat
                                /\ m.version \in Nat
                                /\ m.requires \subseteq Requirements
  BY ResolverAssumption

LEMMA OptionsMatch ==
  ASSUME registry \in Registries, NEW reference
  PROVE  LET options == Options(registry, reference) IN
         /\ options \in Seq(Matching(registry, reference))
         /\ DOMAIN options = 1..Len(options)
         /\ Descending(options)
         /\ \A m \in Matching(registry, reference) : \E i \in 1..Len(options) : options[i] = m
<1> DEFINE matching == Matching(registry, reference)
           options == Options(registry, reference)
           n == Cardinality(matching)
<1>1. IsFiniteSet(matching) /\ n \in Nat /\ \A m \in matching : m.version \in Nat
  BY CandidatesType, FS_Subset, FS_CardinalityType DEF Matching
<1>2. options \in [1..n -> matching] /\ Descending(options)
  <2>1. \E some \in [1..n -> matching] : Descending(some)
    BY <1>1, DescendingExists
  <2> HIDE DEF matching
  <2> QED BY <2>1 DEF Options, Descending, matching
<1> HIDE DEF matching, options
<1>3. options \in Seq(matching) /\ Len(options) = n /\ DOMAIN options = 1..n
  BY <1>1, <1>2, FunctionIsSeq
<1>4. options \in Surjection(1..n, matching)
  <2>1. options \in Injection(1..n, matching)
    <3>1. ASSUME NEW i \in 1..n, NEW j \in 1..n, options[i] = options[j] PROVE i = j
      BY <1>1, <1>2, <3>1 DEF Descending
    <3>2. IsInjective(options)
      BY <3>1, <1>2 DEF IsInjective
    <3> QED BY <3>2, <1>2 DEF Injection
  <2>2. IsFiniteSet(1..n) /\ Cardinality(1..n) = n
    BY <1>1, FS_Interval
  <2> QED BY <1>1, <2>1, <2>2, FS_Injection
<1>5. \A m \in matching : \E i \in 1..n : options[i] = m
  BY <1>4 DEF Surjection
<1> QED BY <1>2, <1>3, <1>5 DEF matching, options

LEMMA KeyType ==
  ASSUME NEW item \in [parent: Nat, requirement: Requirements]
  PROVE  Key(item) \in [1..5 -> Nat]
  BY DEF Key, Requirements

LEMMA LeastByKey ==
  ASSUME NEW items \in SUBSET [parent: Nat, requirement: Requirements], items # {},
         NEW i \in 1..5
  PROVE  \E item \in items : \A other \in items : Key(item)[i] <= Key(other)[i]
<1> DEFINE keys == {Key(item)[i] : item \in items}
<1>1. keys \in SUBSET Nat /\ keys # {}
  BY KeyType
<1>2. PICK k \in keys : \A l \in keys : k <= l
  <2> HIDE DEF keys
  <2> QED BY <1>1, NatMin
<1> QED BY <1>2

LEMMA CurrentIsPending ==
  ASSUME NEW call, call.pending \in SUBSET [parent: Nat, requirement: Requirements],
         call.pending # {}
  PROVE  Current(call) \in call.pending
<1> DEFINE Items == [parent: Nat, requirement: Requirements]
           Least(items, i) ==
             {item \in items : \A other \in items : Key(item)[i] <= Key(other)[i]}
           a == Least(call.pending, 1)
           b == Least(a, 2)
           c == Least(b, 3)
           d == Least(c, 4)
           e == Least(d, 5)
<1>1. \A items \in SUBSET Items, i \in 1..5 :
        Least(items, i) \in SUBSET items /\ (items # {} => Least(items, i) # {})
  BY LeastByKey
<1>2. /\ e \subseteq d /\ d \subseteq c /\ c \subseteq b /\ b \subseteq a
      /\ a \subseteq call.pending /\ e # {}
  <2>0. call.pending \in SUBSET Items /\ call.pending # {}
    OBVIOUS
  <2> HIDE DEF Least, Items
  <2>1. a \in SUBSET Items /\ a # {}
    BY <1>1, <2>0
  <2> HIDE DEF a
  <2>2. b \in SUBSET Items /\ b # {}
    BY <1>1, <2>1
  <2> HIDE DEF b
  <2>3. c \in SUBSET Items /\ c # {}
    BY <1>1, <2>2
  <2> HIDE DEF c
  <2>4. d \in SUBSET Items /\ d # {}
    BY <1>1, <2>3
  <2> HIDE DEF d
  <2>5. e # {}
    BY <1>1, <2>4
  <2>6. a \subseteq call.pending
    BY <1>1, <2>0 DEF a
  <2>7. b \subseteq a
    BY <1>1, <2>1 DEF b
  <2>8. c \subseteq b
    BY <1>1, <2>2 DEF c
  <2>9. d \subseteq c
    BY <1>1, <2>3 DEF d
  <2>10. e \subseteq d
    BY <1>1, <2>4
  <2> QED BY <2>5, <2>6, <2>7, <2>8, <2>9, <2>10
<1>3. PICK item : item \in e
  BY <1>2
<1>4. ASSUME NEW other \in call.pending, Before(other, item) PROVE FALSE
  <2>1. PICK i \in 1..5 : /\ Key(other)[i] < Key(item)[i]
                          /\ \A j \in 1..i-1 : Key(other)[j] = Key(item)[j]
    BY <1>4 DEF Before
  <2>2. Key(other) \in [1..5 -> Nat] /\ Key(item) \in [1..5 -> Nat]
    BY KeyType, <1>2, <1>3
  <2>3. item \in a /\ item \in b /\ item \in c /\ item \in d
    BY <1>2, <1>3
  <2>4. i # 1
    BY <2>1, <2>2, <2>3
  <2>5. other \in a
    BY <2>1, <2>2, <2>3, <2>4
  <2>6. i # 2
    BY <2>1, <2>2, <2>3, <2>5
  <2>7. other \in b
    BY <2>1, <2>2, <2>3, <2>4, <2>5, <2>6
  <2>8. i # 3
    BY <2>1, <2>2, <2>3, <2>7
  <2>9. other \in c
    BY <2>1, <2>2, <2>3, <2>4, <2>6, <2>7, <2>8
  <2>10. i # 4
    BY <2>1, <2>2, <2>3, <2>9
  <2>11. other \in d
    BY <2>1, <2>2, <2>3, <2>4, <2>6, <2>8, <2>9, <2>10
  <2>12. i # 5
    BY <2>1, <2>2, <1>3, <2>11
  <2> QED BY <2>4, <2>6, <2>8, <2>10, <2>12
<1>5. item \in call.pending
  BY <1>2, <1>3
<1> QED BY <1>4, <1>5 DEF Current

-------------------------------------------------------------------------------
(* What is true of every call of the search.                                  *)

MaySkip(requirement) ==
  ~requirement.required /\ (~includeOptional \/ NoOptions(requirement))

Followed(call, p, requirement) ==
  /\ requirement \in Dependencies(call.selected, p)
  /\ <<p, requirement.package>> \in call.edges

(* Every requirement of what was chosen is pending, followed or rightly       *)
(* skipped; every edge follows one; and all that was chosen is needed.        *)
Sound(call) ==
  /\ call \in CallsOver(registry)
  /\ IsFiniteSet(Chosen(call)) /\ IsFiniteSet(call.edges)
  /\ \A p \in Chosen(call) : call.selected[p].id = p
  /\ Root.package \in Chosen(call) /\ Matches(call.selected[Root.package], Root)
  /\ \A item \in call.pending :
       /\ item.parent \in Chosen(call)
       /\ item.requirement \in call.selected[item.parent].requires
  /\ \A p \in Chosen(call) : \A requirement \in call.selected[p].requires :
       \/ [parent |-> p, requirement |-> requirement] \in call.pending
       \/ Followed(call, p, requirement)
       \/ MaySkip(requirement)
  /\ \A edge \in call.edges :
       /\ edge[1] \in Chosen(call)
       /\ \E requirement \in Dependencies(call.selected, edge[1]) : edge[2] = requirement.package
  /\ \A part \in SUBSET Chosen(call) :
       Root.package \in part /\ Closed(call.edges, part) => part = Chosen(call)

LEMMA SelectionType ==
  ASSUME NEW selection
  PROVE  selection \in SelectionsFrom(registry) <=>
           /\ selection = [p \in DOMAIN selection |-> selection[p]]
           /\ \A p \in DOMAIN selection : selection[p] \in registry
           /\ DOMAIN selection \subseteq {m.id : m \in registry}
<1>1. ASSUME selection \in SelectionsFrom(registry)
      PROVE  /\ selection = [p \in DOMAIN selection |-> selection[p]]
             /\ \A p \in DOMAIN selection : selection[p] \in registry
             /\ DOMAIN selection \subseteq {m.id : m \in registry}
  BY <1>1 DEF SelectionsFrom
<1>2. ASSUME /\ selection = [p \in DOMAIN selection |-> selection[p]]
             /\ \A p \in DOMAIN selection : selection[p] \in registry
             /\ DOMAIN selection \subseteq {m.id : m \in registry}
      PROVE  selection \in SelectionsFrom(registry)
  <2>1. selection \in [DOMAIN selection -> registry]
    BY <1>2
  <2> QED BY <1>2, <2>1 DEF SelectionsFrom
<1> QED BY <1>1, <1>2

LEMMA CallType ==
  ASSUME registry \in Registries, NEW call \in CallsOver(registry)
  PROVE  /\ call.selected \in SelectionsFrom(registry)
         /\ \A p \in Chosen(call) :
              /\ p \in Nat /\ call.selected[p] \in registry
              /\ call.selected[p].requires \subseteq Requirements
         /\ call.edges \subseteq Nat \X Nat
         /\ call.skipped \subseteq Nat
         /\ call.pending \subseteq [parent: Nat, requirement: Requirements]
         /\ call.pending # {} =>
              /\ Current(call) \in call.pending
              /\ Current(call).parent \in Nat
              /\ Current(call).requirement \in Requirements
              /\ Current(call).requirement.package \in Nat
              /\ Current(call) = [parent |-> Current(call).parent,
                                  requirement |-> Current(call).requirement]
<1>1. /\ call.selected \in SelectionsFrom(registry)
      /\ call.edges \subseteq Nat \X Nat
      /\ call.skipped \subseteq Nat
      /\ call.pending \subseteq [parent: Nat, requirement: Requirements]
  BY DEF CallsOver
<1>2. \A p \in Chosen(call) :
        /\ p \in Nat /\ call.selected[p] \in registry
        /\ call.selected[p].requires \subseteq Requirements
  BY <1>1, SelectionType, CandidatesType DEF Chosen
<1>3. call.pending # {} => Current(call) \in call.pending
  BY <1>1, CurrentIsPending
<1>4. \A item \in call.pending :
        /\ item.parent \in Nat /\ item.requirement \in Requirements
        /\ item.requirement.package \in Nat
        /\ item = [parent |-> item.parent, requirement |-> item.requirement]
  BY <1>1 DEF Requirements
<1> QED BY <1>1, <1>2, <1>3, <1>4

LEMMA StartIsSound ==
  ASSUME registry \in Registries, NEW m \in Matching(registry, Root)
  PROVE  Sound(StartWith(m))
<1> DEFINE call == StartWith(m)
<1>1. /\ m \in registry /\ m.id = Root.package /\ Matches(m, Root)
      /\ m.id \in Nat /\ m.requires \subseteq Requirements
  BY CandidatesType DEF Matching
<1>2. /\ call.selected = [p \in {m.id} |-> m] /\ call.edges = {}
      /\ call.skipped = {} /\ call.pending = Pending(m)
      /\ call = Call(call.selected, call.edges, call.skipped, call.pending)
  BY DEF StartWith, Call
<1>3. Chosen(call) = {m.id} /\ call.selected[m.id] = m
  BY <1>2 DEF Chosen
<1>4. call.selected \in SelectionsFrom(registry)
  <2>1. DOMAIN call.selected = {m.id} /\ call.selected[m.id] = m
        /\ call.selected = [p \in {m.id} |-> call.selected[p]]
    BY <1>2
  <2> HIDE DEF call
  <2> QED BY <2>1, <1>1, SelectionType
<1>5. call.pending \subseteq [parent: Nat, requirement: Requirements]
  BY <1>1, <1>2 DEF Pending
<1>6. call \in CallsOver(registry)
  <2> HIDE DEF call
  <2> QED BY <1>2, <1>4, <1>5 DEF CallsOver, Call
<1>7. IsFiniteSet(Chosen(call)) /\ IsFiniteSet(call.edges)
  BY <1>2, <1>3, FS_Singleton, FS_EmptySet
<1> HIDE DEF call
<1>8. \A item \in call.pending :
        /\ item.parent \in Chosen(call)
        /\ item.requirement \in call.selected[item.parent].requires
  BY <1>2, <1>3 DEF Pending
<1>9. \A p \in Chosen(call) : \A requirement \in call.selected[p].requires :
        [parent |-> p, requirement |-> requirement] \in call.pending
  BY <1>2, <1>3 DEF Pending
<1> QED BY <1>1, <1>2, <1>3, <1>6, <1>7, <1>8, <1>9 DEF Sound, call

(* The calls that a call makes. *)
Skipping(call) ==
  [call EXCEPT !.skipped = @ \cup {Current(call).requirement.package},
               !.pending = Remainder(call)]

Reusing(call) ==
  [call EXCEPT !.edges = @ \cup {Edge(Current(call))}, !.pending = Remainder(call)]

Choosing(call, option) ==
  Call(Extended(call.selected, option), call.edges \cup {Edge(Current(call))},
       call.skipped, Remainder(call) \cup Pending(option))

LEMMA SkippingIsSound ==
  ASSUME registry \in Registries, NEW call, Sound(call), call.pending # {},
         MaySkip(Current(call).requirement)
  PROVE  Sound(Skipping(call))
<1> DEFINE item == Current(call)
           next == Skipping(call)
<1>1. call \in CallsOver(registry)
  BY DEF Sound
<1>2. /\ item \in call.pending /\ item.requirement.package \in Nat
      /\ call.pending \subseteq [parent: Nat, requirement: Requirements]
      /\ call.skipped \subseteq Nat
  BY <1>1, CallType
<1>3. item = [parent |-> item.parent, requirement |-> item.requirement]
  BY <1>1, CallType
<1>4. /\ next.selected = call.selected /\ next.edges = call.edges
      /\ next.skipped = call.skipped \cup {item.requirement.package}
      /\ next.pending = call.pending \ {item}
      /\ next \in CallsOver(registry)
  BY <1>1, <1>2 DEF Skipping, Remainder, CallsOver
<1>5. MaySkip(item.requirement)
  OBVIOUS
<1> HIDE DEF next, item
<1>6. Chosen(next) = Chosen(call)
  BY <1>4 DEF Chosen
<1>7. ASSUME NEW p \in Chosen(next), NEW requirement \in next.selected[p].requires
      PROVE  \/ [parent |-> p, requirement |-> requirement] \in next.pending
             \/ Followed(next, p, requirement)
             \/ MaySkip(requirement)
  <2>1. CASE [parent |-> p, requirement |-> requirement] = item
    BY <2>1, <1>3, <1>5
  <2>2. CASE [parent |-> p, requirement |-> requirement] # item
    BY <2>2, <1>4, <1>6 DEF Sound, Followed
  <2> QED BY <2>1, <2>2
<1> QED BY <1>4, <1>6, <1>7 DEF Sound, next

LEMMA ReusingIsSound ==
  ASSUME registry \in Registries, NEW call, Sound(call), call.pending # {},
         Wanted(Current(call).requirement), Reuses(call, Current(call).requirement)
  PROVE  Sound(Reusing(call))
<1> DEFINE item == Current(call)
           next == Reusing(call)
<1>1. call \in CallsOver(registry)
  BY DEF Sound
<1>2. /\ item \in call.pending /\ item.requirement.package \in Nat
      /\ item.parent \in Nat
      /\ call.pending \subseteq [parent: Nat, requirement: Requirements]
      /\ call.edges \subseteq Nat \X Nat
      /\ item = [parent |-> item.parent, requirement |-> item.requirement]
  BY <1>1, CallType
<1>3. /\ next.selected = call.selected
      /\ next.edges = call.edges \cup {<<item.parent, item.requirement.package>>}
      /\ next.pending = call.pending \ {item}
      /\ next \in CallsOver(registry)
  <2>1. Edge(item) = <<item.parent, item.requirement.package>> /\ Edge(item) \in Nat \X Nat
    BY <1>2 DEF Edge
  <2>2. call.edges \cup {Edge(item)} \subseteq Nat \X Nat
    BY <1>2, <2>1
  <2>3. next = [call EXCEPT !.edges = call.edges \cup {Edge(item)}, !.pending = call.pending \ {item}]
    BY DEF Reusing, Remainder
  <2> HIDE DEF next
  <2>4. /\ next.selected = call.selected /\ next.pending = call.pending \ {item}
        /\ next.edges = call.edges \cup {Edge(item)} /\ next \in CallsOver(registry)
    BY <1>1, <1>2, <2>2, <2>3 DEF CallsOver
  <2> QED BY <2>1, <2>4
<1>4. /\ Wanted(item.requirement)
      /\ item.requirement.package \in Chosen(call)
      /\ Matches(call.selected[item.requirement.package], item.requirement)
  BY DEF Reuses
<1> HIDE DEF next, item
<1>5. Chosen(next) = Chosen(call)
  BY <1>3 DEF Chosen
<1>6. item.parent \in Chosen(call) /\ item.requirement \in Dependencies(call.selected, item.parent)
  BY <1>2, <1>4 DEF Sound, Dependencies, Chosen
<1>7. IsFiniteSet(next.edges)
  <2>1. IsFiniteSet(call.edges)
    BY DEF Sound
  <2>2. \A edge : IsFiniteSet(call.edges \cup {edge})
    BY <2>1, FS_AddElement
  <2> QED BY <1>3, <2>2
<1>8. ASSUME NEW p \in Chosen(next), NEW requirement \in next.selected[p].requires
      PROVE  \/ [parent |-> p, requirement |-> requirement] \in next.pending
             \/ Followed(next, p, requirement)
             \/ MaySkip(requirement)
  <2>1. CASE [parent |-> p, requirement |-> requirement] = item
    <3>1. p = item.parent /\ requirement = item.requirement
      BY <2>1
    <3> QED BY <3>1, <1>3, <1>6 DEF Followed
  <2>2. CASE [parent |-> p, requirement |-> requirement] # item
    BY <2>2, <1>3, <1>5 DEF Sound, Followed
  <2> QED BY <2>1, <2>2
<1>9. \A edge \in next.edges :
        /\ edge[1] \in Chosen(next)
        /\ \E requirement \in Dependencies(next.selected, edge[1]) : edge[2] = requirement.package
  BY <1>3, <1>5, <1>6 DEF Sound
<1>10. \A part \in SUBSET Chosen(next) :
         Root.package \in part /\ Closed(next.edges, part) => part = Chosen(next)
  BY <1>3, <1>5 DEF Sound, Closed
<1> QED BY <1>3, <1>5, <1>7, <1>8, <1>9, <1>10 DEF Sound, next

LEMMA ExtendedSelection ==
  ASSUME registry \in Registries, NEW call \in CallsOver(registry), NEW option \in registry,
         option.id \notin Chosen(call)
  PROVE  LET extended == Extended(call.selected, option) IN
         /\ DOMAIN extended = Chosen(call) \cup {option.id}
         /\ extended[option.id] = option
         /\ \A p \in Chosen(call) : extended[p] = call.selected[p]
         /\ extended \in SelectionsFrom(registry)
<1> DEFINE extended == Extended(call.selected, option)
<1>1. /\ DOMAIN extended = Chosen(call) \cup {option.id}
      /\ extended[option.id] = option
      /\ \A p \in Chosen(call) : extended[p] = call.selected[p]
      /\ extended = [p \in DOMAIN extended |-> extended[p]]
  BY DEF Extended, Chosen
<1>2. /\ \A p \in Chosen(call) : call.selected[p] \in registry
      /\ Chosen(call) \subseteq {m.id : m \in registry}
  BY CallType, SelectionType DEF Chosen
<1> HIDE DEF extended
<1>3. extended \in SelectionsFrom(registry)
  BY <1>1, <1>2, SelectionType
<1> QED BY <1>1, <1>3 DEF extended

LEMMA ChoosingIsSound ==
  ASSUME registry \in Registries, NEW call, Sound(call), call.pending # {},
         Wanted(Current(call).requirement),
         Current(call).requirement.package \notin Chosen(call),
         NEW option \in Matching(registry, Current(call).requirement)
  PROVE  Sound(Choosing(call, option))
<1> DEFINE item == Current(call)
           next == Choosing(call, option)
<1>1. call \in CallsOver(registry)
  BY DEF Sound
<1>2. /\ item \in call.pending /\ item.requirement.package \in Nat
      /\ item.parent \in Nat
      /\ call.pending \subseteq [parent: Nat, requirement: Requirements]
      /\ call.edges \subseteq Nat \X Nat /\ call.skipped \subseteq Nat
      /\ item = [parent |-> item.parent, requirement |-> item.requirement]
  BY <1>1, CallType
<1>3. /\ option \in registry /\ option.id = item.requirement.package
      /\ Matches(option, item.requirement) /\ option.id \notin Chosen(call)
      /\ option.requires \subseteq Requirements
  BY CandidatesType DEF Matching
<1>4. Wanted(item.requirement)
  OBVIOUS
<1>5. /\ next.selected = Extended(call.selected, option)
      /\ next.edges = call.edges \cup {<<item.parent, option.id>>}
      /\ next.skipped = call.skipped
      /\ next.pending = (call.pending \ {item}) \cup Pending(option)
      /\ next = Call(next.selected, next.edges, next.skipped, next.pending)
  BY <1>3 DEF Choosing, Remainder, Edge, Call
<1> HIDE DEF next, item
<1>6. /\ Chosen(next) = Chosen(call) \cup {option.id}
      /\ next.selected[option.id] = option
      /\ \A p \in Chosen(call) : next.selected[p] = call.selected[p]
      /\ next.selected \in SelectionsFrom(registry)
  BY <1>1, <1>3, <1>5, ExtendedSelection DEF Chosen
<1>7. next \in CallsOver(registry)
  <2>1. Pending(option) \subseteq [parent: Nat, requirement: Requirements]
    BY <1>2, <1>3 DEF Pending
  <2>2. next.edges \subseteq Nat \X Nat /\ next.pending \subseteq [parent: Nat, requirement: Requirements]
    BY <1>2, <1>3, <1>5, <2>1
  <2> QED BY <1>2, <1>5, <1>6, <2>2 DEF CallsOver, Call
<1>8. IsFiniteSet(Chosen(next)) /\ IsFiniteSet(next.edges)
  <2>1. IsFiniteSet(call.edges) /\ IsFiniteSet(Chosen(call))
    BY DEF Sound
  <2>2. \A edge, p : IsFiniteSet(call.edges \cup {edge}) /\ IsFiniteSet(Chosen(call) \cup {p})
    BY <2>1, FS_AddElement
  <2> QED BY <1>5, <1>6, <2>2
<1>9. \A p \in Chosen(call) : Dependencies(call.selected, p) \subseteq Dependencies(next.selected, p)
  BY <1>6 DEF Dependencies, Chosen
<1>10. item.parent \in Chosen(call) /\ item.requirement \in Dependencies(next.selected, item.parent)
  <2>1. item.parent \in Chosen(call) /\ item.requirement \in call.selected[item.parent].requires
    BY <1>2 DEF Sound
  <2>2. item.requirement \in next.selected[item.parent].requires
    BY <1>6, <2>1
  <2> QED BY <1>3, <1>4, <1>6, <2>1, <2>2 DEF Dependencies, Chosen
<1>11. \A p \in Chosen(next) : next.selected[p].id = p
  BY <1>6 DEF Sound
<1>12. Root.package \in Chosen(next) /\ Matches(next.selected[Root.package], Root)
  BY <1>6 DEF Sound
<1>13. \A other \in next.pending :
         /\ other.parent \in Chosen(next)
         /\ other.requirement \in next.selected[other.parent].requires
  <2>1. ASSUME NEW other \in Pending(option)
        PROVE  other.parent = option.id /\ other.requirement \in option.requires
    BY DEF Pending
  <2>2. ASSUME NEW other \in call.pending
        PROVE  other.parent \in Chosen(call) /\ other.requirement \in call.selected[other.parent].requires
    BY DEF Sound
  <2> QED BY <1>5, <1>6, <2>1, <2>2
<1>14. ASSUME NEW p \in Chosen(next), NEW requirement \in next.selected[p].requires
       PROVE  \/ [parent |-> p, requirement |-> requirement] \in next.pending
              \/ Followed(next, p, requirement)
              \/ MaySkip(requirement)
  <2>1. CASE p = option.id
    BY <2>1, <1>5, <1>6 DEF Pending
  <2>2. CASE p \in Chosen(call) /\ [parent |-> p, requirement |-> requirement] = item
    <3>1. p = item.parent /\ requirement = item.requirement
      BY <2>2
    <3> QED BY <3>1, <1>3, <1>5, <1>10 DEF Followed
  <2>3. CASE p \in Chosen(call) /\ [parent |-> p, requirement |-> requirement] # item
    <3>1. \/ [parent |-> p, requirement |-> requirement] \in call.pending
          \/ Followed(call, p, requirement)
          \/ MaySkip(requirement)
      BY <2>3, <1>6 DEF Sound
    <3> QED BY <2>3, <3>1, <1>5, <1>9 DEF Followed
  <2> QED BY <2>1, <2>2, <2>3, <1>6
<1>15. ASSUME NEW edge \in next.edges
       PROVE  /\ edge[1] \in Chosen(next)
              /\ \E requirement \in Dependencies(next.selected, edge[1]) :
                   edge[2] = requirement.package
  <2>1. CASE edge \in call.edges
    BY <2>1, <1>6, <1>9 DEF Sound
  <2>2. CASE edge = <<item.parent, option.id>>
    BY <2>2, <1>3, <1>6, <1>10
  <2> QED BY <2>1, <2>2, <1>5
<1>16. ASSUME NEW part \in SUBSET Chosen(next), Root.package \in part, Closed(next.edges, part)
       PROVE  part = Chosen(next)
  <2>1. Root.package \in part \cap Chosen(call)
    BY <1>16 DEF Sound
  <2>2. \A edge \in call.edges : edge[1] \in Chosen(call) /\ edge[2] \in Chosen(call)
    BY DEF Sound, Dependencies, Chosen
  <2>3. Closed(call.edges, part \cap Chosen(call))
    BY <1>16, <1>5, <2>2 DEF Closed
  <2>4. part \cap Chosen(call) = Chosen(call)
    BY <2>1, <2>3 DEF Sound
  <2>5. item.parent \in part /\ <<item.parent, option.id>> \in next.edges
    BY <1>5, <1>10, <2>4
  <2>6. option.id \in part
    BY <1>16, <2>5 DEF Closed
  <2> QED BY <2>4, <2>6, <1>6
<1> QED BY <1>7, <1>8, <1>11, <1>12, <1>13, <1>14, <1>15, <1>16 DEF Sound, next

-------------------------------------------------------------------------------
(* A call with nothing pending: its edges are the dependencies of what it     *)
(* chose, and the walks along them say what Admissible says of parts.         *)

LEMMA DependenciesHaveOptions ==
  ASSUME NEW selection \in Selections, \A p \in DOMAIN selection : selection[p].id = p,
         NEW p \in DOMAIN selection, NEW requirement \in Dependencies(selection, p)
  PROVE  /\ ~NoOptions(requirement)
         /\ ~MaySkip(requirement)
         /\ selection[requirement.package] \in Matching(registry, requirement)
<1>1. selection[requirement.package] \in Matching(registry, requirement)
  BY SelectionType DEF Dependencies, Matching, Selections
<1> QED BY <1>1 DEF NoOptions, MaySkip, Dependencies, Wanted

LEMMA FinishedFollows ==
  ASSUME registry \in Registries, NEW call, Sound(call), call.pending = {}
  PROVE  /\ call.selected \in Selections
         /\ \A p \in Chosen(call) : \A requirement \in Dependencies(call.selected, p) :
              <<p, requirement.package>> \in call.edges
         /\ \A p \in Chosen(call) : \A requirement \in call.selected[p].requires :
              requirement \in Dependencies(call.selected, p) \/ MaySkip(requirement)
<1>1. call.selected \in Selections
  BY CallType DEF Sound, Selections
<1>2. \A p \in Chosen(call) : \A requirement \in call.selected[p].requires :
        Followed(call, p, requirement) \/ MaySkip(requirement)
  BY DEF Sound
<1>3. \A p \in DOMAIN call.selected : call.selected[p].id = p
  BY DEF Sound, Chosen
<1>4. ASSUME NEW p \in Chosen(call), NEW requirement \in Dependencies(call.selected, p)
      PROVE  <<p, requirement.package>> \in call.edges
  <2>1. ~MaySkip(requirement)
    BY <1>1, <1>3, DependenciesHaveOptions DEF Chosen
  <2>2. requirement \in call.selected[p].requires
    BY DEF Dependencies
  <2> QED BY <1>2, <2>1, <2>2 DEF Followed
<1> QED BY <1>1, <1>2, <1>4 DEF Followed

(* Closed under the edges is closed under the dependencies. *)
LEMMA FinishedCloses ==
  ASSUME registry \in Registries, NEW call, Sound(call), call.pending = {},
         NEW part \in SUBSET Chosen(call)
  PROVE  Closed(call.edges, part) <=>
           \A p \in part : \A requirement \in Dependencies(call.selected, p) :
             requirement.package \in part
<1>1. ASSUME Closed(call.edges, part), NEW p \in part,
             NEW requirement \in Dependencies(call.selected, p)
      PROVE  requirement.package \in part
  <2>1. <<p, requirement.package>> \in call.edges
    BY FinishedFollows
  <2> QED BY <1>1, <2>1 DEF Closed
<1>2. ASSUME \A p \in part : \A requirement \in Dependencies(call.selected, p) :
               requirement.package \in part,
             NEW edge \in call.edges, edge[1] \in part
      PROVE  edge[2] \in part
  <2>1. PICK requirement \in Dependencies(call.selected, edge[1]) : edge[2] = requirement.package
    BY DEF Sound
  <2> QED BY <1>2, <2>1
<1> QED BY <1>1, <1>2 DEF Closed

(* The walks stay within what was chosen. *)
LEMMA WalksStayChosen ==
  ASSUME NEW call, Sound(call), NEW start \in SUBSET Chosen(call)
  PROVE  /\ Reached(call.edges, start) \subseteq Chosen(call)
         /\ start \subseteq Reached(call.edges, start)
         /\ Closed(call.edges, Reached(call.edges, start))
         /\ \A part : start \subseteq part /\ Closed(call.edges, part) =>
              Reached(call.edges, start) \subseteq part
<1>1. IsFiniteSet(call.edges)
  BY DEF Sound
<1>2. Closed(call.edges, Chosen(call))
  BY DEF Sound, Closed, Dependencies, Chosen
<1> QED BY <1>1, <1>2, ReachedIsClosed, ReachedIsLeast

LEMMA WalksFromOne ==
  ASSUME NEW call, Sound(call), NEW p \in Chosen(call)
  PROVE  /\ Reached(call.edges, {p}) \subseteq Chosen(call)
         /\ p \in Reached(call.edges, {p})
         /\ Closed(call.edges, Reached(call.edges, {p}))
         /\ \A part : p \in part /\ Closed(call.edges, part) =>
              Reached(call.edges, {p}) \subseteq part
<1>1. {p} \in SUBSET Chosen(call)
  OBVIOUS
<1> QED BY <1>1, WalksStayChosen

LEMMA AcyclicIsNoCycle ==
  ASSUME registry \in Registries, NEW call, Sound(call), call.pending = {},
         Acyclic(call.edges)
  PROVE  NoCycle(call.selected)
<1> SUFFICES ASSUME NEW part \in SUBSET Chosen(call), part # {},
                    \A p \in part : \E requirement \in Dependencies(call.selected, p) :
                      requirement.package \in part
             PROVE  FALSE
  BY DEF NoCycle, Chosen
<1> DEFINE reach(p) == Reached(call.edges, {p})
           sets == {reach(p) : p \in part}
<1>1. \A p \in Chosen(call) :
        /\ reach(p) \subseteq Chosen(call) /\ p \in reach(p) /\ Closed(call.edges, reach(p))
        /\ \A other : p \in other /\ Closed(call.edges, other) => reach(p) \subseteq other
  BY WalksFromOne
<1>2. IsFiniteSet(Chosen(call))
  BY DEF Sound
<1>3. PICK s \in sets : \A t \in sets : ~(t \subseteq s /\ t # s)
  <2>1. sets \in SUBSET SUBSET Chosen(call) /\ sets # {}
    <3> HIDE DEF reach
    <3> QED BY <1>1
  <2> HIDE DEF sets
  <2> QED BY <2>1, <1>2, FinMin
<1>4. PICK p \in part : s = reach(p)
  OBVIOUS
<1>5. PICK requirement \in Dependencies(call.selected, p) : requirement.package \in part
  OBVIOUS
<1> DEFINE q == requirement.package
           edge == <<p, q>>
<1>6. edge \in call.edges /\ edge[1] = p /\ edge[2] = q
  BY FinishedFollows
<1> HIDE DEF reach
<1>7. q \in reach(p) /\ reach(q) \subseteq reach(p)
  BY <1>1, <1>5, <1>6 DEF Closed
<1>8. p \notin reach(q)
  BY <1>6 DEF Acyclic, reach
<1>9. reach(q) \in sets /\ reach(q) # reach(p)
  BY <1>1, <1>5, <1>8
<1> QED BY <1>3, <1>4, <1>7, <1>9

LEMMA NoCycleIsAcyclic ==
  ASSUME registry \in Registries, NEW call, Sound(call), call.pending = {},
         NoCycle(call.selected)
  PROVE  Acyclic(call.edges)
<1> DEFINE reach(p) == Reached(call.edges, {p})
<1> SUFFICES ASSUME NEW edge \in call.edges, edge[1] \in reach(edge[2])
             PROVE  FALSE
  BY DEF Acyclic
<1> DEFINE p == edge[1]
           q == edge[2]
           part == {x \in reach(q) : p \in reach(x)}
<1>1. \A x \in Chosen(call) :
        /\ reach(x) \subseteq Chosen(call) /\ x \in reach(x) /\ Closed(call.edges, reach(x))
        /\ \A other : x \in other /\ Closed(call.edges, other) => reach(x) \subseteq other
  BY WalksFromOne
<1> HIDE DEF reach
<1>2. p \in Chosen(call) /\ q \in Chosen(call)
  BY DEF Sound, Dependencies, Chosen
<1>3. part \in (SUBSET Chosen(call)) \ {{}}
  BY <1>1, <1>2
<1>4. PICK x \in part : \A requirement \in Dependencies(call.selected, x) :
                          requirement.package \notin part
  BY <1>3 DEF NoCycle, Chosen
<1>5. x \in Chosen(call) /\ x \in reach(q) /\ p \in reach(x)
  BY <1>3
<1>6. \A e \in call.edges : e[1] = x => e[2] \in reach(q) /\ e[2] \in Chosen(call) /\ e[2] \notin part
  <2> SUFFICES ASSUME NEW e \in call.edges, e[1] = x
               PROVE  e[2] \in reach(q) /\ e[2] \in Chosen(call) /\ e[2] \notin part
    OBVIOUS
  <2>1. PICK requirement \in Dependencies(call.selected, x) : e[2] = requirement.package
    BY DEF Sound
  <2>2. e[2] \in reach(q)
    BY <1>1, <1>2, <1>5 DEF Closed
  <2> QED BY <2>1, <2>2, <1>1, <1>2, <1>4
<1>7. p # x
  <2>1. q \in part
    BY <1>1, <1>2
  <2> QED BY <1>6, <2>1
<1> DEFINE children == {e \in call.edges : e[1] = x}
           beyond == {x} \cup UNION {reach(e[2]) : e \in children}
<1>8. Closed(call.edges, beyond)
  <2> SUFFICES ASSUME NEW f \in call.edges, f[1] \in beyond PROVE f[2] \in beyond
    BY DEF Closed
  <2>1. CASE f[1] = x
    <3>1. f[2] \in reach(f[2])
      BY <1>1, <1>6, <2>1
    <3> QED BY <2>1, <3>1
  <2>2. CASE f[1] # x
    <3>1. PICK e \in children : f[1] \in reach(e[2])
      BY <2>2
    <3>2. f[2] \in reach(e[2])
      BY <1>1, <1>6, <3>1 DEF Closed
    <3> QED BY <3>2
  <2> QED BY <2>1, <2>2
<1>9. p \in beyond
  <2>1. x \in beyond
    OBVIOUS
  <2> HIDE DEF beyond
  <2> QED BY <1>1, <1>5, <1>8, <2>1
<1>10. PICK e \in children : p \in reach(e[2])
  BY <1>7, <1>9
<1> QED BY <1>6, <1>10

LEMMA PublicIsAlone ==
  ASSUME registry \in Registries, NEW call, Sound(call), call.pending = {}
  PROVE  PublicStaysPublic(call.selected, call.edges) <=> PublicAlone(call.selected)
<1> DEFINE beyond(p) == Reached(call.edges, Children(call.edges, p))
           Apart(p, part) ==
             /\ p \in part
             /\ \A q \in part : ~Private(call.selected[q])
             /\ \A q \in part : \A requirement \in Dependencies(call.selected, q) :
                  requirement.package \in part
<1>1. \A p \in Chosen(call) : Children(call.edges, p) \subseteq Chosen(call)
  BY DEF Sound, Children, Dependencies, Chosen
<1>2. ASSUME PublicStaysPublic(call.selected, call.edges), NEW p \in Chosen(call), Public(call.selected[p])
      PROVE  \E part \in SUBSET Chosen(call) : Apart(p, part)
  <2> DEFINE part == {p} \cup beyond(p)
  <2>1. /\ beyond(p) \subseteq Chosen(call) /\ Children(call.edges, p) \subseteq beyond(p)
        /\ Closed(call.edges, beyond(p))
    BY <1>1, WalksStayChosen
  <2>2. \A q \in part : ~Private(call.selected[q])
    BY <1>2 DEF PublicStaysPublic, Chosen, Public, Private
  <2> HIDE DEF beyond
  <2>3. part \in SUBSET Chosen(call) /\ Closed(call.edges, part)
    BY <2>1 DEF Closed, Children
  <2> HIDE DEF part
  <2>4. \A q \in part : \A requirement \in Dependencies(call.selected, q) :
          requirement.package \in part
    BY <2>3, FinishedCloses
  <2>5. p \in part
    BY DEF part
  <2> QED BY <2>2, <2>3, <2>4, <2>5
<1>3. ASSUME NEW p \in Chosen(call), Public(call.selected[p]),
             NEW part \in SUBSET Chosen(call), Apart(p, part)
      PROVE  \A q \in beyond(p) : ~Private(call.selected[q])
  <2>1. Closed(call.edges, part)
    BY <1>3, FinishedCloses
  <2>2. Children(call.edges, p) \subseteq part
    BY <1>3, <2>1 DEF Closed, Children
  <2>3. beyond(p) \subseteq part
    BY <1>1, <2>1, <2>2, WalksStayChosen
  <2> QED BY <1>3, <2>3
<1> HIDE DEF beyond
<1> QED BY <1>2, <1>3 DEF PublicStaysPublic, PublicAlone, Chosen, beyond

LEMMA LayersAreDependencies ==
  ASSUME registry \in Registries, NEW call, Sound(call), call.pending = {}
  PROVE  Layered(call.selected, call.edges) <=>
           \A p \in Chosen(call) : \A requirement \in Dependencies(call.selected, p) :
             call.selected[requirement.package].kind \in AllowedKinds[call.selected[p].kind]
<1>1. ASSUME Layered(call.selected, call.edges), NEW p \in Chosen(call),
             NEW requirement \in Dependencies(call.selected, p)
      PROVE  call.selected[requirement.package].kind \in AllowedKinds[call.selected[p].kind]
  <2>1. <<p, requirement.package>> \in call.edges
    BY FinishedFollows
  <2> QED BY <1>1, <2>1 DEF Layered
<1>2. ASSUME \A p \in Chosen(call) : \A requirement \in Dependencies(call.selected, p) :
               call.selected[requirement.package].kind \in AllowedKinds[call.selected[p].kind],
             NEW edge \in call.edges
      PROVE  call.selected[edge[2]].kind \in AllowedKinds[call.selected[edge[1]].kind]
  <2>1. PICK requirement \in Dependencies(call.selected, edge[1]) : edge[2] = requirement.package
    BY DEF Sound
  <2>2. edge[1] \in Chosen(call)
    BY DEF Sound
  <2> QED BY <1>2, <2>1, <2>2
<1> QED BY <1>1, <1>2 DEF Layered

(* What a finished call chose is admissible if and only if its graph is valid. *)
LEMMA ValidIsAdmissible ==
  ASSUME registry \in Registries, NEW call, Sound(call), call.pending = {}
  PROVE  ValidGraph(call) <=> Admissible(call.selected)
<1> DEFINE selection == call.selected
<1>1. /\ \A p \in DOMAIN selection : selection[p].id = p
      /\ Root.package \in DOMAIN selection
      /\ Matches(selection[Root.package], Root)
  BY DEF Sound, Chosen
<1>2. \A p \in DOMAIN selection : \A requirement \in selection[p].requires :
        requirement.required \/ (includeOptional /\ ~NoOptions(requirement)) =>
          requirement \in Dependencies(selection, p)
  BY FinishedFollows DEF MaySkip, Chosen
<1>3. OnlyWhatIsNeeded(selection)
  <2> SUFFICES ASSUME NEW part \in SUBSET Chosen(call), Root.package \in part,
                      \A p \in part : \A requirement \in Dependencies(selection, p) :
                        requirement.package \in part
               PROVE  part = Chosen(call)
    BY DEF OnlyWhatIsNeeded, Chosen
  <2>1. Closed(call.edges, part)
    BY FinishedCloses
  <2> QED BY <2>1 DEF Sound
<1>4. Acyclic(call.edges) <=> NoCycle(selection)
  BY AcyclicIsNoCycle, NoCycleIsAcyclic
<1>5. PublicStaysPublic(selection, call.edges) <=> PublicAlone(selection)
  BY PublicIsAlone
<1>6. Layered(selection, call.edges) <=>
        \A p \in DOMAIN selection : \A requirement \in Dependencies(selection, p) :
          selection[requirement.package].kind \in AllowedKinds[selection[p].kind]
  BY LayersAreDependencies DEF Chosen
<1> QED BY <1>1, <1>2, <1>3, <1>4, <1>5, <1>6, Zenon DEF ValidGraph, Admissible

-------------------------------------------------------------------------------
(* Nothing is missed: an admissible selection that extends what a call chose  *)
(* extends what one of the calls chose that it makes.                         *)

Extends(selection, part) ==
  \A p \in DOMAIN part : p \in DOMAIN selection /\ selection[p] = part[p]

Sought(selection) == selection \in Selections /\ Admissible(selection) /\ Strict(selection)

(* Calls in the order of the versions they chose. *)
Ranked(calls) ==
  \A i, j \in DOMAIN calls : i < j =>
    \E p \in DOMAIN calls[i].selected \cap DOMAIN calls[j].selected :
      calls[i].selected[p].version > calls[j].selected[p].version

(* What is sought has what it needs of the items of a call. *)
LEMMA SoughtDepends ==
  ASSUME NEW selection, Sought(selection), NEW p \in DOMAIN selection,
         NEW requirement \in selection[p].requires,
         \/ requirement.required
         \/ includeOptional /\ ~NoOptions(requirement)
         \/ Wanted(requirement) /\ requirement.package \in DOMAIN selection
  PROVE  /\ requirement \in Dependencies(selection, p)
         /\ ~NoOptions(requirement)
         /\ ~MaySkip(requirement)
         /\ requirement.package \in DOMAIN selection
         /\ Matches(selection[requirement.package], requirement)
         /\ selection[requirement.package] \in Matching(registry, requirement)
<1>1. requirement \in Dependencies(selection, p)
  BY DEF Sought, Admissible, Strict
<1>2. \A q \in DOMAIN selection : selection[q].id = q
  BY DEF Sought, Admissible
<1>3. selection \in Selections
  BY DEF Sought
<1>4. /\ ~NoOptions(requirement) /\ ~MaySkip(requirement)
      /\ selection[requirement.package] \in Matching(registry, requirement)
  BY <1>1, <1>2, <1>3, DependenciesHaveOptions
<1> QED BY <1>1, <1>4 DEF Dependencies

(* A finished call is not a part of another one. *)
LEMMA FinishedIsWhole ==
  ASSUME registry \in Registries, NEW call, Sound(call), call.pending = {},
         NEW selection, Sought(selection), Extends(selection, call.selected)
  PROVE  selection = call.selected
<1> DEFINE part == Chosen(call)
<1>1. part \in SUBSET DOMAIN selection /\ \A p \in part : selection[p] = call.selected[p]
  BY DEF Extends, Chosen
<1>2. ASSUME NEW p \in part, NEW requirement \in Dependencies(selection, p)
      PROVE  requirement.package \in part
  <2>1. /\ requirement \in selection[p].requires /\ Wanted(requirement)
        /\ requirement.package \in DOMAIN selection
    BY DEF Dependencies
  <2>2. ~MaySkip(requirement)
    BY <1>1, <2>1, SoughtDepends
  <2>3. requirement \in Dependencies(call.selected, p)
    BY <1>1, <2>1, <2>2, FinishedFollows
  <2> QED BY <2>3 DEF Dependencies, Chosen
<1>3. Root.package \in part
  BY DEF Sound
<1>4. part = DOMAIN selection
  BY <1>1, <1>2, <1>3 DEF Sought, Admissible, OnlyWhatIsNeeded
<1>5. call.selected \in Selections /\ selection \in Selections
  BY FinishedFollows DEF Sought
<1> QED BY <1>1, <1>4, <1>5, SelectionType DEF Chosen, Selections

(* The calls that take the place of a call. *)
Replaces(calls, call) ==
  /\ calls \in Seq(CallsOver(registry))
  /\ \A i \in 1..Len(calls) : Sound(calls[i]) /\ Extends(calls[i].selected, call.selected)
  /\ Unambiguous(registry) => Ranked(calls)
  /\ \A selection : Sought(selection) /\ Extends(selection, call.selected) =>
       \E i \in 1..Len(calls) : Extends(selection, calls[i].selected)

LEMMA OneReplaces ==
  ASSUME NEW call, NEW next, Sound(next), next.selected = call.selected
  PROVE  Replaces(<<next>>, call)
  BY DEF Replaces, Sound, Extends, Ranked

(* One call for every option. *)
LEMMA OptionsAreSorted ==
  ASSUME registry \in Registries, NEW reference, NEW callFor,
         \A m \in Matching(registry, reference) :
           /\ Sound(callFor[m])
           /\ m.id \in Chosen(callFor[m]) /\ callFor[m].selected[m.id] = m
  PROVE  LET options == Options(registry, reference)
             calls == Calls(options, callFor) IN
         /\ calls \in Seq(CallsOver(registry))
         /\ DOMAIN calls = 1..Len(calls)
         /\ \A i \in 1..Len(calls) : \E m \in Matching(registry, reference) : calls[i] = callFor[m]
         /\ \A m \in Matching(registry, reference) :
              \E i \in 1..Len(calls) : calls[i] = callFor[m]
         /\ Unambiguous(registry) => Ranked(calls)
<1> DEFINE options == Options(registry, reference)
           calls == Calls(options, callFor)
           matching == Matching(registry, reference)
<1>1. /\ options \in Seq(matching) /\ DOMAIN options = 1..Len(options)
      /\ Descending(options)
      /\ \A m \in matching : \E i \in 1..Len(options) : options[i] = m
  BY OptionsMatch
<1>2. \A m \in matching : m \in registry /\ m.id = reference.package /\ m.version \in Nat
  BY CandidatesType DEF Matching
<1> HIDE DEF options, matching
<1>3. Len(options) \in Nat /\ \A i \in 1..Len(options) : options[i] \in matching
  BY <1>1
<1>4. \A m \in matching : callFor[m] \in CallsOver(registry)
  BY DEF Sound, matching
<1>5. calls \in [1..Len(options) -> CallsOver(registry)]
      /\ \A i \in 1..Len(options) : calls[i] = callFor[options[i]]
  BY <1>3, <1>4 DEF Calls
<1> HIDE DEF calls
<1>6. calls \in Seq(CallsOver(registry)) /\ Len(calls) = Len(options) /\ DOMAIN calls = 1..Len(options)
  BY <1>3, <1>5, FunctionIsSeq
<1>7. ASSUME Unambiguous(registry), NEW i \in 1..Len(options), NEW j \in 1..Len(options), i < j
      PROVE  \E p \in DOMAIN calls[i].selected \cap DOMAIN calls[j].selected :
               calls[i].selected[p].version > calls[j].selected[p].version
  <2> DEFINE m == options[i]
             n == options[j]
  <2>1. m \in matching /\ n \in matching
    BY <1>3
  <2>2. m # n /\ m.version >= n.version
    BY <1>1, <1>7 DEF Descending
  <2>3. m.version > n.version /\ m.id = n.id
    BY <1>2, <1>7, <2>1, <2>2 DEF Unambiguous
  <2>4. /\ m.id \in DOMAIN calls[i].selected /\ calls[i].selected[m.id] = m
        /\ n.id \in DOMAIN calls[j].selected /\ calls[j].selected[n.id] = n
    BY <1>5, <2>1 DEF Chosen, matching
  <2> QED BY <2>3, <2>4
<1>8. Unambiguous(registry) => Ranked(calls)
  BY <1>6, <1>7 DEF Ranked
<1>9. \A i \in 1..Len(calls) : \E m \in matching : calls[i] = callFor[m]
  BY <1>3, <1>5, <1>6
<1>10. \A m \in matching : \E i \in 1..Len(calls) : calls[i] = callFor[m]
  BY <1>1, <1>5, <1>6
<1> QED BY <1>6, <1>8, <1>9, <1>10 DEF calls, options, matching

-------------------------------------------------------------------------------
(* The search.                                                                *)

AgendaIsSound == \A call \in ToSet(agenda) : Sound(call)

LEMMA HeadIsSound ==
  ASSUME TypeOK, AgendaIsSound, Searching
  PROVE  /\ registry \in Registries
         /\ Head(agenda) \in CallsOver(registry)
         /\ Sound(Head(agenda))
<1>1. agenda \in Seq(CallsOver(registry)) /\ agenda # <<>>
  BY DEF TypeOK, Searching
<1>2. Head(agenda) = agenda[1] /\ 1 \in DOMAIN agenda
  BY <1>1
<1>3. Head(agenda) \in ToSet(agenda)
  BY <1>2 DEF ToSet
<1> QED BY <1>1, <1>2, <1>3 DEF AgendaIsSound, TypeOK

LEMMA SkipReplaces ==
  ASSUME TypeOK, AgendaIsSound, Skip
  PROVE  \E calls : Replaces(calls, Head(agenda)) /\ Proceed(calls)
<1> DEFINE call == Head(agenda)
<1>1. registry \in Registries /\ call \in CallsOver(registry) /\ Sound(call)
  BY HeadIsSound DEF Skip, Deciding
<1>2. /\ MaySkip(Current(call).requirement) /\ call.pending # {}
      /\ Proceed(<<Skipping(call)>>)
  BY DEF Skip, Deciding, MaySkip, Skipping
<1>3. Skipping(call).selected = call.selected
  BY <1>1 DEF Skipping, CallsOver
<1> HIDE DEF call
<1>4. Sound(Skipping(call))
  BY <1>1, <1>2, SkippingIsSound
<1>5. Replaces(<<Skipping(call)>>, call)
  BY <1>3, <1>4, OneReplaces
<1> QED BY <1>2, <1>5 DEF call

LEMMA ReuseReplaces ==
  ASSUME TypeOK, AgendaIsSound, Reuse
  PROVE  \E calls : Replaces(calls, Head(agenda)) /\ Proceed(calls)
<1> DEFINE call == Head(agenda)
<1>1. registry \in Registries /\ call \in CallsOver(registry) /\ Sound(call)
  BY HeadIsSound DEF Reuse, Deciding
<1>2. /\ Wanted(Current(call).requirement) /\ Reuses(call, Current(call).requirement)
      /\ call.pending # {}
      /\ Proceed(<<Reusing(call)>>)
  BY DEF Reuse, Deciding, Reusing
<1>3. Reusing(call).selected = call.selected
  BY <1>1 DEF Reusing, CallsOver
<1> HIDE DEF call
<1>4. Sound(Reusing(call))
  BY <1>1, <1>2, ReusingIsSound
<1>5. Replaces(<<Reusing(call)>>, call)
  BY <1>3, <1>4, OneReplaces
<1> QED BY <1>2, <1>5 DEF call

(* The current item of a call belongs to what is sought, too. *)
LEMMA ItemIsSought ==
  ASSUME registry \in Registries, NEW call, Sound(call), call.pending # {},
         NEW selection, Sought(selection), Extends(selection, call.selected)
  PROVE  /\ Current(call).parent \in DOMAIN selection
         /\ Current(call).requirement \in selection[Current(call).parent].requires
<1> DEFINE item == Current(call)
<1>1. item \in call.pending
  BY CallType DEF Sound
<1> HIDE DEF item
<1>2. /\ item.parent \in Chosen(call)
      /\ item.requirement \in call.selected[item.parent].requires
  BY <1>1 DEF Sound
<1>3. /\ item.parent \in DOMAIN selection
      /\ item.requirement \in selection[item.parent].requires
  BY <1>2 DEF Extends, Chosen
<1> QED BY <1>3 DEF item

LEMMA ChooseReplaces ==
  ASSUME TypeOK, AgendaIsSound, Choose
  PROVE  \E calls : Replaces(calls, Head(agenda)) /\ Proceed(calls)
<1> DEFINE call == Head(agenda)
           requirement == Current(call).requirement
           matching == Matching(registry, requirement)
           extended == [option \in registry |->
             Call(Extended(call.selected, option), call.edges \cup {Edge(Current(call))},
                  call.skipped, Remainder(call) \cup Pending(option))]
           calls == Calls(Options(registry, requirement), extended)
<1>1. registry \in Registries /\ call \in CallsOver(registry) /\ Sound(call)
  BY HeadIsSound DEF Choose, Deciding
<1>2. /\ Wanted(requirement) /\ requirement.package \notin Chosen(call)
      /\ ~NoOptions(requirement) /\ call.pending # {}
      /\ Proceed(calls)
  BY DEF Choose, Deciding, Tried
<1>3. \A option \in matching :
        /\ extended[option] = Choosing(call, option)
        /\ option \in registry /\ option.id = requirement.package
  BY DEF Choosing, Matching
<1> HIDE DEF extended, calls, call
<1>4. ASSUME NEW option \in matching
      PROVE  /\ Sound(extended[option])
             /\ Chosen(extended[option]) = Chosen(call) \cup {option.id}
             /\ extended[option].selected[option.id] = option
             /\ \A p \in Chosen(call) : extended[option].selected[p] = call.selected[p]
  <2>1. Sound(Choosing(call, option))
    BY <1>1, <1>2, ChoosingIsSound
  <2>2. Choosing(call, option).selected = Extended(call.selected, option)
    BY DEF Choosing, Call
  <2>3. option \in registry /\ option.id \notin Chosen(call)
    BY <1>2, <1>3
  <2> DEFINE e == Extended(call.selected, option)
  <2>4. /\ DOMAIN e = Chosen(call) \cup {option.id} /\ e[option.id] = option
        /\ \A p \in Chosen(call) : e[p] = call.selected[p]
    BY <1>1, <2>3, ExtendedSelection
  <2> HIDE DEF e
  <2>5. extended[option].selected = e /\ Sound(extended[option])
    BY <1>3, <2>1, <2>2 DEF e
  <2> QED BY <2>4, <2>5 DEF Chosen
<1> HIDE DEF matching
<1>5. /\ calls \in Seq(CallsOver(registry))
      /\ \A i \in 1..Len(calls) : \E m \in matching : calls[i] = extended[m]
      /\ \A m \in matching : \E i \in 1..Len(calls) : calls[i] = extended[m]
      /\ Unambiguous(registry) => Ranked(calls)
  <2> HIDE DEF requirement
  <2> QED BY <1>1, <1>4, OptionsAreSorted DEF calls, matching
<1>6. \A i \in 1..Len(calls) : Sound(calls[i]) /\ Extends(calls[i].selected, call.selected)
  BY <1>4, <1>5 DEF Extends, Chosen
<1>7. ASSUME NEW selection, Sought(selection), Extends(selection, call.selected)
      PROVE  \E i \in 1..Len(calls) : Extends(selection, calls[i].selected)
  <2> DEFINE p == Current(call).parent
             option == selection[requirement.package]
  <2>1. p \in DOMAIN selection /\ requirement \in selection[p].requires
    BY <1>1, <1>2, <1>7, ItemIsSought
  <2> HIDE DEF p, requirement
  <2>2. option \in matching /\ requirement.package \in DOMAIN selection
    BY <1>2, <1>7, <2>1, SoughtDepends DEF matching, Wanted
  <2>3. PICK i \in 1..Len(calls) : calls[i] = extended[option]
    BY <1>5, <2>2
  <2>4. option.id = requirement.package
    BY <1>3, <2>2 DEF matching, requirement
  <2>5. Extends(selection, extended[option].selected)
    BY <1>4, <1>7, <2>2, <2>4 DEF Extends, Chosen
  <2> QED BY <2>3, <2>5
<1>8. Replaces(calls, call)
  BY <1>5, <1>6, <1>7 DEF Replaces
<1> QED BY <1>2, <1>8 DEF call

LEMMA NoneReplaces ==
  ASSUME NEW call,
         \A selection : Sought(selection) => ~Extends(selection, call.selected)
  PROVE  Replaces(<<>>, call)
  BY DEF Replaces, Ranked

LEMMA RefuseReplaces ==
  ASSUME TypeOK, AgendaIsSound, Refuse
  PROVE  \E calls : Replaces(calls, Head(agenda)) /\ Proceed(calls)
<1> DEFINE call == Head(agenda)
           requirement == Current(call).requirement
<1>1. registry \in Registries /\ Sound(call)
  BY HeadIsSound DEF Refuse, Deciding
<1>2. /\ Wanted(requirement) /\ call.pending # {}
      /\ Proceed(<<>>)
      /\ \/ /\ requirement.package \in Chosen(call)
            /\ ~Matches(call.selected[requirement.package], requirement)
         \/ requirement.required /\ NoOptions(requirement)
  BY DEF Refuse, Deciding
<1> HIDE DEF call
<1>3. ASSUME NEW selection, Sought(selection), Extends(selection, call.selected)
      PROVE  FALSE
  <2> DEFINE p == Current(call).parent
  <2>1. p \in DOMAIN selection /\ requirement \in selection[p].requires
    BY <1>1, <1>2, <1>3, ItemIsSought
  <2> HIDE DEF p, requirement
  <2>2. CASE /\ requirement.package \in Chosen(call)
             /\ ~Matches(call.selected[requirement.package], requirement)
    <3>1. /\ requirement.package \in DOMAIN selection
          /\ selection[requirement.package] = call.selected[requirement.package]
      BY <1>3, <2>2 DEF Extends, Chosen
    <3>2. Matches(selection[requirement.package], requirement)
      BY <1>2, <1>3, <2>1, <3>1, SoughtDepends
    <3> QED BY <2>2, <3>1, <3>2
  <2>3. CASE requirement.required /\ NoOptions(requirement)
    BY <1>3, <2>1, <2>3, SoughtDepends
  <2> QED BY <1>2, <2>2, <2>3
<1>4. Replaces(<<>>, call)
  BY <1>3, NoneReplaces
<1> QED BY <1>2, <1>4 DEF call

LEMMA RefuseGraphReplaces ==
  ASSUME TypeOK, AgendaIsSound, RefuseGraph
  PROVE  \E calls : Replaces(calls, Head(agenda)) /\ Proceed(calls)
<1> DEFINE call == Head(agenda)
<1>1. registry \in Registries /\ Sound(call)
  BY HeadIsSound DEF RefuseGraph, Judging, Searching
<1>2. call.pending = {} /\ ~ValidGraph(call) /\ Proceed(<<>>)
  BY DEF RefuseGraph, Judging
<1> HIDE DEF call
<1>3. ASSUME NEW selection, Sought(selection), Extends(selection, call.selected)
      PROVE  FALSE
  <2>1. selection = call.selected
    BY <1>1, <1>2, <1>3, FinishedIsWhole
  <2> QED BY <1>1, <1>2, <1>3, <2>1, ValidIsAdmissible DEF Sought
<1>4. Replaces(<<>>, call)
  BY <1>3, NoneReplaces
<1> QED BY <1>2, <1>4 DEF call

(* No call of an earlier option is behind one of a later option. *)
AgendaIsRanked == (agenda # <<>> => Unambiguous(registry)) /\ Ranked(agenda)

(* As long as nothing is found, and no exception is raised, what is sought is *)
(* ahead.                                                                     *)
NothingIsDropped ==
  found = None /\ answer # Error /\ Unambiguous(registry) =>
    \A selection \in Selections : Sought(selection) =>
      \E call \in ToSet(agenda) : Extends(selection, call.selected)

(* What was found is judged, whole, and as good as any. *)
FoundIsBest ==
  \A call \in {found} \ {None} :
    /\ agenda = <<>>
    /\ Sound(call) /\ call.pending = {} /\ ValidGraph(call)
    /\ \A selection \in Selections : Sought(selection) => ~Better(selection, call.selected)

(* The answer is made of what was found, or of its absence. *)
AnswerIsFound ==
  /\ answer = Invalid => agenda = <<>> /\ found = None /\ trail = <<>>
  /\ answer = Error => agenda = <<>> /\ trail = <<>>
  /\ Locked => /\ found # None /\ trail = <<>>
               /\ answer.selected = found.selected /\ answer.edges = found.edges
               /\ answer.order = ordered

(* Nothing is visited before something is found. *)
NothingVisitedYet == found = None => trail = <<>> /\ ordered = <<>>

SearchInv ==
  /\ TypeOK /\ AgendaIsSound /\ AgendaIsRanked /\ NothingIsDropped
  /\ FoundIsBest /\ AnswerIsFound /\ NothingVisitedYet

SearchSteps == Skip \/ Reuse \/ Choose \/ Refuse \/ RefuseGraph

LEMMA SearchReplaces ==
  ASSUME TypeOK, AgendaIsSound, SearchSteps
  PROVE  agenda # <<>> /\ \E calls : Replaces(calls, Head(agenda)) /\ Proceed(calls)
<1>1. agenda # <<>>
  BY DEF SearchSteps, Skip, Reuse, Choose, Refuse, RefuseGraph, Judging, Deciding, Searching
<1> QED BY <1>1, SkipReplaces, ReuseReplaces, ChooseReplaces, RefuseReplaces,
           RefuseGraphReplaces DEF SearchSteps

(* What is sought, and what a sound call is, does not change. *)
LEMMA SameQuestion ==
  ASSUME UNCHANGED <<registry, includeOptional>>
  PROVE  /\ Selections' = Selections
         /\ \A selection : Sought(selection)' <=> Sought(selection)
         /\ \A call : Sound(call)' <=> Sound(call)
         /\ Unambiguous(registry)' <=> Unambiguous(registry)
<1>1. Selections' = Selections
  BY DEF Selections
<1>2. \A requirement : /\ Wanted(requirement)' <=> Wanted(requirement)
                       /\ NoOptions(requirement)' <=> NoOptions(requirement)
                       /\ MaySkip(requirement)' <=> MaySkip(requirement)
  BY DEF Wanted, NoOptions, MaySkip
<1>3. \A selection, p : Dependencies(selection, p)' = Dependencies(selection, p)
  BY DEF Dependencies, Wanted
<1>4. \A selection : Sought(selection)' <=> Sought(selection)
  BY <1>1, <1>2, <1>3
     DEF Sought, Admissible, Strict, OnlyWhatIsNeeded, NoCycle, PublicAlone
<1>5. \A call : Sound(call)' <=> Sound(call)
  BY <1>2, <1>3 DEF Sound, Followed
<1> QED BY <1>1, <1>4, <1>5

LEMMA ReplacedAgenda ==
  ASSUME NEW T, NEW before \in Seq(T), before # <<>>, NEW calls \in Seq(T)
  PROVE  LET after == calls \o Tail(before) IN
         /\ after \in Seq(T)
         /\ Len(after) = Len(calls) + Len(before) - 1
         /\ \A i \in 1..Len(calls) : after[i] = calls[i]
         /\ \A i \in 2..Len(before) :
              /\ i - 1 + Len(calls) \in 1..Len(after)
              /\ after[i - 1 + Len(calls)] = before[i]
         /\ \A i \in 1..Len(after) :
              \/ i <= Len(calls)
              \/ i > Len(calls) /\ i - Len(calls) + 1 \in 2..Len(before)
                 /\ after[i] = before[i - Len(calls) + 1]
  OBVIOUS

LEMMA RankedAgenda ==
  ASSUME NEW T, NEW before \in Seq(T), before # <<>>, NEW calls \in Seq(T),
         Ranked(before), Ranked(calls),
         \A i \in 1..Len(calls) : Extends(calls[i].selected, Head(before).selected)
  PROVE  Ranked(calls \o Tail(before))
<1> DEFINE after == calls \o Tail(before)
           Above(c, d) ==
             \E p \in DOMAIN c.selected \cap DOMAIN d.selected :
               c.selected[p].version > d.selected[p].version
<1>1. /\ after \in Seq(T) /\ DOMAIN after = 1..Len(after)
      /\ \A i \in 1..Len(calls) : after[i] = calls[i]
      /\ \A i \in 1..Len(after) :
           \/ i <= Len(calls)
           \/ i > Len(calls) /\ i - Len(calls) + 1 \in 2..Len(before)
              /\ after[i] = before[i - Len(calls) + 1]
  BY ReplacedAgenda
<1> HIDE DEF after
<1>2. \A i, j \in 1..Len(calls) : i < j => Above(calls[i], calls[j])
  BY DEF Ranked
<1>3. \A i, j \in 1..Len(before) : i < j => Above(before[i], before[j])
  BY DEF Ranked
<1>4. \A i \in 1..Len(calls), j \in 2..Len(before) : Above(calls[i], before[j])
  <2> SUFFICES ASSUME NEW i \in 1..Len(calls), NEW j \in 2..Len(before)
               PROVE  Above(calls[i], before[j])
    OBVIOUS
  <2>1. Above(before[1], before[j])
    BY <1>3
  <2>2. Extends(calls[i].selected, before[1].selected)
    OBVIOUS
  <2> QED BY <2>1, <2>2 DEF Extends
<1> HIDE DEF Above
<1>5. ASSUME NEW i \in 1..Len(after), NEW j \in 1..Len(after), i < j
      PROVE  Above(after[i], after[j])
  <2>1. CASE j <= Len(calls)
    BY <2>1, <1>1, <1>2, <1>5
  <2>2. CASE i <= Len(calls) /\ j > Len(calls)
    <3>1. after[i] = calls[i] /\ i \in 1..Len(calls)
      BY <2>2, <1>1
    <3>2. PICK k \in 2..Len(before) : after[j] = before[k]
      BY <2>2, <1>1
    <3> QED BY <3>1, <3>2, <1>4
  <2>3. CASE i > Len(calls)
    <3>1. /\ after[i] = before[i - Len(calls) + 1] /\ i - Len(calls) + 1 \in 1..Len(before)
          /\ after[j] = before[j - Len(calls) + 1] /\ j - Len(calls) + 1 \in 1..Len(before)
          /\ i - Len(calls) + 1 < j - Len(calls) + 1
      BY <2>3, <1>1, <1>5
    <3> QED BY <3>1, <1>3
  <2> QED BY <1>1, <1>5, <2>1, <2>2, <2>3
<1> QED BY <1>1, <1>5 DEF Ranked, Above, after

LEMMA SearchStepsKeep ==
  ASSUME SearchInv, SearchSteps
  PROVE  SearchInv'
<1>1. agenda \in Seq(CallsOver(registry)) /\ agenda # <<>> /\ Unambiguous(registry)
  BY SearchReplaces DEF SearchInv, TypeOK, AgendaIsRanked
<1>2. PICK calls : Replaces(calls, Head(agenda)) /\ Proceed(calls)
  BY SearchReplaces DEF SearchInv
<1>3. /\ calls \in Seq(CallsOver(registry))
      /\ \A i \in 1..Len(calls) : Sound(calls[i]) /\ Extends(calls[i].selected, Head(agenda).selected)
      /\ Ranked(calls)
      /\ \A selection : Sought(selection) /\ Extends(selection, Head(agenda).selected) =>
           \E i \in 1..Len(calls) : Extends(selection, calls[i].selected)
  BY <1>1, <1>2 DEF Replaces
<1>4. /\ agenda' = calls \o Tail(agenda)
      /\ UNCHANGED <<registry, includeOptional, found, trail, ordered, answer>>
  BY <1>2 DEF Proceed
<1>5. /\ agenda' \in Seq(CallsOver(registry)) /\ DOMAIN agenda' = 1..Len(agenda')
      /\ Len(agenda') = Len(calls) + Len(agenda) - 1
      /\ \A i \in 1..Len(calls) : agenda'[i] = calls[i]
      /\ \A i \in 2..Len(agenda) :
           /\ i - 1 + Len(calls) \in 1..Len(agenda')
           /\ agenda'[i - 1 + Len(calls)] = agenda[i]
      /\ \A i \in 1..Len(agenda') :
           \/ i <= Len(calls)
           \/ i > Len(calls) /\ i - Len(calls) + 1 \in 2..Len(agenda)
              /\ agenda'[i] = agenda[i - Len(calls) + 1]
  BY <1>1, <1>3, <1>4, ReplacedAgenda
<1>6. TypeOK'
  BY <1>4, <1>5 DEF SearchInv, TypeOK
<1>7. AgendaIsSound'
  <2>1. ASSUME NEW i \in 1..Len(agenda') PROVE Sound(agenda'[i])
    <3>1. CASE i <= Len(calls)
      BY <3>1, <1>3, <1>5
    <3>2. CASE i > Len(calls)
      <4>1. agenda'[i] \in ToSet(agenda)
        BY <3>2, <1>1, <1>5 DEF ToSet
      <4> QED BY <4>1 DEF SearchInv, AgendaIsSound
    <3> QED BY <3>1, <3>2, <1>3, <1>5
  <2>2. \A call \in ToSet(agenda)' : Sound(call)
    BY <1>5, <2>1 DEF ToSet
  <2> QED BY <1>4, <2>2, SameQuestion DEF AgendaIsSound
<1>8. AgendaIsRanked'
  <2>1. Ranked(agenda')
    BY <1>1, <1>3, <1>4, RankedAgenda DEF SearchInv, AgendaIsRanked
  <2> QED BY <1>1, <1>4, <2>1 DEF AgendaIsRanked
<1>9. NothingIsDropped'
  <2>1. ASSUME NEW selection \in Selections, Sought(selection), found = None, answer # Error
        PROVE  \E call \in ToSet(agenda') : Extends(selection, call.selected)
    <3>1. PICK i \in 1..Len(agenda) : Extends(selection, agenda[i].selected)
      BY <1>1, <2>1 DEF SearchInv, NothingIsDropped, ToSet
    <3>2. \A j \in 1..Len(agenda') : agenda'[j] \in ToSet(agenda')
      BY <1>5 DEF ToSet
    <3>3. CASE i = 1
      <4>1. PICK j \in 1..Len(calls) : Extends(selection, calls[j].selected)
        BY <1>1, <1>3, <2>1, <3>1, <3>3
      <4>2. j \in 1..Len(agenda') /\ agenda'[j] = calls[j]
        BY <1>1, <1>3, <1>5
      <4> QED BY <3>2, <4>1, <4>2
    <3>4. CASE i # 1
      <4>1. i \in 2..Len(agenda)
        BY <1>1, <3>4
      <4> QED BY <1>5, <3>1, <3>2, <4>1
    <3> QED BY <3>3, <3>4
  <2> QED BY <1>4, <2>1, SameQuestion DEF NothingIsDropped
<1>10. FoundIsBest'
  <2>1. found = None
    BY <1>1 DEF SearchInv, FoundIsBest
  <2> QED BY <2>1, <1>4 DEF FoundIsBest
<1>11. AnswerIsFound' /\ NothingVisitedYet'
  BY <1>1, <1>4 DEF SearchInv, AnswerIsFound, NothingVisitedYet, FoundIsBest, Locked
<1> QED BY <1>6, <1>7, <1>8, <1>9, <1>10, <1>11 DEF SearchInv

LEMMA SearchStarts ==
  ASSUME Init
  PROVE  SearchInv
<1> DEFINE callFor == [m \in registry |-> StartWith(m)]
           calls == Calls(Options(registry, Root), callFor)
<1>1. /\ registry \in Registries /\ includeOptional \in BOOLEAN
      /\ agenda = IF Unambiguous(registry) THEN calls ELSE <<>>
      /\ found = None /\ trail = <<>> /\ ordered = <<>> /\ answer = None
  BY DEF Init
<1>2. ASSUME NEW m \in Matching(registry, Root)
      PROVE  /\ callFor[m] = StartWith(m) /\ Sound(callFor[m])
             /\ Chosen(callFor[m]) = {m.id} /\ callFor[m].selected[m.id] = m
  <2>1. callFor[m] = StartWith(m) /\ Sound(callFor[m])
    BY <1>1, StartIsSound DEF Matching
  <2>2. callFor[m].selected = [p \in {m.id} |-> m]
    BY <2>1 DEF StartWith, Call
  <2> QED BY <2>1, <2>2 DEF Chosen
<1> HIDE DEF callFor, calls
<1>3. /\ calls \in Seq(CallsOver(registry))
      /\ \A i \in 1..Len(calls) : \E m \in Matching(registry, Root) : calls[i] = callFor[m]
      /\ \A m \in Matching(registry, Root) : \E i \in 1..Len(calls) : calls[i] = callFor[m]
      /\ Unambiguous(registry) => Ranked(calls)
  <2>1. \A m \in Matching(registry, Root) :
          /\ Sound(callFor[m])
          /\ m.id \in Chosen(callFor[m]) /\ callFor[m].selected[m.id] = m
    BY <1>2
  <2> QED BY <1>1, <2>1, OptionsAreSorted DEF calls
<1>4. TypeOK
  BY <1>1, <1>3 DEF TypeOK
<1>5. AgendaIsSound
  <2>1. \A i \in 1..Len(calls) : Sound(calls[i])
    BY <1>2, <1>3
  <2> QED BY <1>1, <1>3, <2>1 DEF AgendaIsSound, ToSet
<1>6. AgendaIsRanked
  BY <1>1, <1>3 DEF AgendaIsRanked, Ranked
<1>7. NothingIsDropped
  <2> SUFFICES ASSUME Unambiguous(registry), NEW selection \in Selections, Sought(selection)
               PROVE  \E call \in ToSet(calls) : Extends(selection, call.selected)
    BY <1>1 DEF NothingIsDropped
  <2> DEFINE m == selection[Root.package]
  <2>1. /\ Root.package \in DOMAIN selection /\ m.id = Root.package /\ Matches(m, Root)
    BY DEF Sought, Admissible
  <2>2. m \in Matching(registry, Root)
    BY <2>1, SelectionType DEF Matching, Selections
  <2>3. PICK i \in 1..Len(calls) : calls[i] = callFor[m]
    BY <1>3, <2>2
  <2>4. Extends(selection, callFor[m].selected)
    <3>1. DOMAIN callFor[m].selected = {Root.package}
          /\ callFor[m].selected[Root.package] = selection[Root.package]
      BY <1>2, <2>1, <2>2 DEF Chosen
    <3> QED BY <2>1, <3>1 DEF Extends
  <2>5. calls[i] \in ToSet(calls)
    BY <1>3 DEF ToSet
  <2> QED BY <2>3, <2>4, <2>5
<1> QED BY <1>1, <1>4, <1>5, <1>6, <1>7, ResolverAssumption
        DEF SearchInv, FoundIsBest, AnswerIsFound, NothingVisitedYet, Locked

(* The first call that is accepted is as good as any that is still ahead. *)
LEMMA AcceptKeeps ==
  ASSUME SearchInv, Accept
  PROVE  SearchInv'
<1> DEFINE call == Head(agenda)
<1>1. /\ registry \in Registries /\ call \in CallsOver(registry) /\ Sound(call)
      /\ call = agenda[1] /\ agenda \in Seq(CallsOver(registry)) /\ agenda # <<>>
  BY HeadIsSound DEF SearchInv, Accept, Judging, Searching, TypeOK
<1>2. /\ call.pending = {} /\ ValidGraph(call) /\ found' = call /\ agenda' = <<>>
      /\ trail' = <<Root.package>>
      /\ UNCHANGED <<registry, includeOptional, ordered, answer>>
  BY DEF Accept, Judging
<1>3. found = None /\ answer # Error /\ Unambiguous(registry) /\ call # None
  BY <1>1, ResolverAssumption DEF SearchInv, FoundIsBest, AnswerIsFound, AgendaIsRanked
<1> HIDE DEF call
<1>4. ASSUME NEW selection \in Selections, Sought(selection)
      PROVE  ~Better(selection, call.selected)
  <2>1. PICK i \in 1..Len(agenda) : Extends(selection, agenda[i].selected)
    BY <1>1, <1>3, <1>4 DEF SearchInv, NothingIsDropped, ToSet
  <2>2. CASE i = 1
    <3>1. selection = call.selected
      BY <1>1, <1>2, <1>4, <2>1, <2>2, FinishedIsWhole
    <3> QED BY <3>1 DEF Better
  <2>3. CASE i # 1
    <3>1. PICK p \in DOMAIN call.selected \cap DOMAIN agenda[i].selected :
            call.selected[p].version > agenda[i].selected[p].version
      <4>1. 1 \in DOMAIN agenda /\ i \in DOMAIN agenda /\ 1 < i
        BY <1>1, <2>3
      <4> QED BY <1>1, <4>1 DEF SearchInv, AgendaIsRanked, Ranked
    <3>2. p \in DOMAIN selection /\ selection[p] = agenda[i].selected[p]
      BY <2>1, <3>1 DEF Extends
    <3>3. call.selected[p].version \in Nat /\ selection[p].version \in Nat
      BY <1>1, <3>1, <3>2, CallType, SelectionType, CandidatesType DEF Chosen, Selections
    <3> QED BY <3>1, <3>2, <3>3 DEF Better
  <2> QED BY <2>2, <2>3
<1>5. TypeOK'
  BY <1>1, <1>2, ResolverAssumption DEF SearchInv, TypeOK, References
<1>6. AgendaIsSound' /\ AgendaIsRanked' /\ NothingVisitedYet' /\ NothingIsDropped'
  BY <1>2, <1>3 DEF AgendaIsSound, AgendaIsRanked, NothingIsDropped, NothingVisitedYet, Ranked, ToSet
<1>7. FoundIsBest'
  <2>1. \A c \in {found'} \ {None} :
          /\ agenda' = <<>>
          /\ Sound(c) /\ c.pending = {} /\ ValidGraph(c)
          /\ \A selection \in Selections : Sought(selection) => ~Better(selection, c.selected)
    BY <1>1, <1>2, <1>4
  <2> QED BY <1>2, <2>1, SameQuestion DEF FoundIsBest
<1>8. AnswerIsFound'
  BY <1>1, <1>2, <1>3 DEF SearchInv, AnswerIsFound, Locked
<1> QED BY <1>5, <1>6, <1>7, <1>8 DEF SearchInv

(* What comes after the search leaves it alone. *)
LEMMA AfterTheSearch ==
  ASSUME SearchInv, UNCHANGED <<registry, includeOptional, agenda, found>>,
         answer = Error => answer' = Error
  PROVE  AgendaIsSound' /\ AgendaIsRanked' /\ NothingIsDropped' /\ FoundIsBest'
<1>1. AgendaIsSound'
  BY SameQuestion DEF SearchInv, AgendaIsSound
<1>2. AgendaIsRanked'
  BY DEF SearchInv, AgendaIsRanked
<1>3. NothingIsDropped'
  BY SameQuestion DEF SearchInv, NothingIsDropped
<1>4. FoundIsBest'
  BY SameQuestion DEF SearchInv, FoundIsBest
<1> QED BY <1>1, <1>2, <1>3, <1>4

LEMMA FoundType ==
  ASSUME SearchInv, found # None
  PROVE  /\ registry \in Registries /\ agenda = <<>>
         /\ found \in CallsOver(registry) /\ Sound(found)
         /\ found.pending = {} /\ ValidGraph(found)
         /\ found.edges \subseteq Nat \X Nat
  BY CallType DEF SearchInv, TypeOK, FoundIsBest

LEMMA OtherStepsKeep ==
  ASSUME SearchInv, GiveUp \/ Visit \/ Leave \/ BuildLock \/ Raise \/ UNCHANGED vars
  PROVE  SearchInv'
<1>1. CASE GiveUp
  <2>1. TypeOK'
    BY <1>1 DEF GiveUp, SearchInv, TypeOK
  <2>2. AnswerIsFound' /\ NothingVisitedYet'
    BY <1>1 DEF GiveUp, SearchInv, AnswerIsFound, NothingVisitedYet, Locked
  <2>3. UNCHANGED <<registry, includeOptional, agenda, found>> /\ answer # Error
    BY <1>1, ResolverAssumption DEF GiveUp
  <2> QED BY <2>1, <2>2, <2>3, AfterTheSearch DEF SearchInv
<1>2. CASE Visit
  <2>1. found # None /\ trail # <<>>
    BY <1>2 DEF Visit, SearchInv, NothingVisitedYet
  <2>2. TypeOK'
    <3>1. \A p \in Unvisited(Last(trail)) : p \in Nat
      BY <2>1, FoundType DEF Unvisited, Children
    <3> QED BY <1>2, <3>1 DEF Visit, SearchInv, TypeOK
  <2>3. AnswerIsFound' /\ NothingVisitedYet'
    BY <1>2, <2>1 DEF Visit, SearchInv, AnswerIsFound, NothingVisitedYet, Locked
  <2>4. UNCHANGED <<registry, includeOptional, agenda, found, answer>>
    BY <1>2 DEF Visit
  <2> QED BY <2>2, <2>3, <2>4, AfterTheSearch DEF SearchInv
<1>3. CASE Leave
  <2>1. found # None /\ trail # <<>>
    BY <1>3 DEF Leave, SearchInv, NothingVisitedYet
  <2>2. TypeOK'
    BY <1>3, <2>1 DEF Leave, SearchInv, TypeOK, Last, Front
  <2>3. AnswerIsFound' /\ NothingVisitedYet'
    BY <1>3, <2>1 DEF Leave, SearchInv, AnswerIsFound, NothingVisitedYet, Locked
  <2>4. UNCHANGED <<registry, includeOptional, agenda, found, answer>>
    BY <1>3 DEF Leave
  <2> QED BY <2>2, <2>3, <2>4, AfterTheSearch DEF SearchInv
<1>4. CASE BuildLock
  <2>1. /\ found # None /\ trail = <<>> /\ answer = None
        /\ answer' = [selected |-> found.selected, edges |-> found.edges,
                      skipped |-> found.skipped, order |-> ordered]
        /\ UNCHANGED <<registry, includeOptional, agenda, found, trail, ordered>>
    BY <1>4 DEF BuildLock, Building
  <2>2. answer' \in LocksOver(registry) /\ answer' \notin {Invalid, Error} /\ answer # Error
    <3>1. answer' \in LocksOver(registry) /\ registry \in Registries
      BY <2>1, FoundType DEF SearchInv, TypeOK, CallsOver, LocksOver
    <3> QED BY <2>1, <3>1, ResolverAssumption
  <2>3. TypeOK'
    BY <2>1, <2>2 DEF SearchInv, TypeOK
  <2>4. AnswerIsFound' /\ NothingVisitedYet'
    BY <2>1, <2>2 DEF SearchInv, AnswerIsFound, NothingVisitedYet, Locked
  <2> QED BY <2>1, <2>2, <2>3, <2>4, AfterTheSearch DEF SearchInv
<1>5. CASE UNCHANGED vars
  <2>1. TypeOK' /\ AnswerIsFound' /\ NothingVisitedYet'
    BY <1>5 DEF vars, SearchInv, TypeOK, AnswerIsFound, NothingVisitedYet, Locked
  <2>2. UNCHANGED <<registry, includeOptional, agenda, found, answer>>
    BY <1>5 DEF vars
  <2> QED BY <2>1, <2>2, AfterTheSearch DEF SearchInv
<1>6. CASE Raise
  <2>1. /\ agenda' = <<>> /\ answer' = Error /\ trail = <<>>
        /\ UNCHANGED <<registry, includeOptional, found, trail, ordered>>
    BY <1>6 DEF Raise, Judging, Searching, Building, SearchInv, FoundIsBest, NothingVisitedYet
  <2>2. TypeOK' /\ AnswerIsFound' /\ NothingVisitedYet'
    BY <2>1, ResolverAssumption DEF SearchInv, TypeOK, AnswerIsFound, NothingVisitedYet, Locked
  <2>3. AgendaIsSound' /\ AgendaIsRanked' /\ NothingIsDropped'
    BY <2>1 DEF AgendaIsSound, AgendaIsRanked, NothingIsDropped, Ranked, ToSet
  <2>4. FoundIsBest'
    BY <2>1, SameQuestion DEF SearchInv, FoundIsBest
  <2> QED BY <2>2, <2>3, <2>4 DEF SearchInv
<1> QED BY <1>1, <1>2, <1>3, <1>4, <1>5, <1>6

LEMMA SearchInvariant == Spec => []SearchInv
<1>1. SearchInv /\ [Next]_vars => SearchInv'
  BY SearchStepsKeep, AcceptKeeps, OtherStepsKeep DEF Next, SearchSteps
<1> QED BY <1>1, SearchStarts, PTL DEF Spec

-------------------------------------------------------------------------------
(* The order of the lock.                                                     *)

(* Every package is visited once, at most.                                    *)
VisitsAreUnique ==
  /\ \A i, j \in DOMAIN trail : trail[i] = trail[j] => i = j
  /\ \A i, j \in DOMAIN ordered : ordered[i] = ordered[j] => i = j
  /\ \A i \in DOMAIN trail, j \in DOMAIN ordered : trail[i] # ordered[j]

(* The packages that are being visited depend on each other in a row.         *)
TrailIsAPath ==
  \A i \in 1..Len(trail)-1 : <<trail[i], trail[i + 1]>> \in found.edges

(* Whatever a package depends on has been visited before it.                  *)
OrderIsClosed ==
  \A i \in DOMAIN ordered : \A q \in Children(found.edges, ordered[i]) :
    \E j \in 1..i-1 : ordered[j] = q

VisitsAreChosen ==
  /\ \A i \in DOMAIN trail : trail[i] \in Chosen(found)
  /\ \A i \in DOMAIN ordered : ordered[i] \in Chosen(found)
  /\ Root.package \in ToSet(trail) \cup ToSet(ordered)

OrderInv == found # None => VisitsAreUnique /\ TrailIsAPath /\ OrderIsClosed /\ VisitsAreChosen

(* From a package on the trail, the walk reaches all that came after it. *)
LEMMA TrailIsReached ==
  ASSUME trail \in Seq(Nat), TrailIsAPath, NEW k \in DOMAIN trail, NEW part,
         trail[k] \in part, Closed(found.edges, part)
  PROVE  trail # <<>> => Last(trail) \in part
<1> DEFINE S == {n \in Nat : k + n <= Len(trail) => trail[k + n] \in part}
<1>1. k \in Nat /\ Len(trail) \in Nat /\ k >= 1 /\ k <= Len(trail)
  OBVIOUS
<1>2. 0 \in S
  BY <1>1
<1>3. ASSUME NEW n \in S PROVE n + 1 \in S
  <2> SUFFICES ASSUME k + (n + 1) <= Len(trail) PROVE trail[k + (n + 1)] \in part
    OBVIOUS
  <2>1. trail[k + n] \in part /\ k + n \in 1..Len(trail)-1 /\ (k + n) + 1 = k + (n + 1)
    BY <1>1
  <2>2. <<trail[k + n], trail[k + (n + 1)]>> \in found.edges
    BY <2>1 DEF TrailIsAPath
  <2> QED BY <2>1, <2>2 DEF Closed
<1> HIDE DEF S
<1>4. S = Nat
  BY <1>2, <1>3, Ind DEF S
<1>5. Len(trail) - k \in S /\ k + (Len(trail) - k) = Len(trail)
  BY <1>1, <1>4
<1>6. trail[Len(trail)] \in part
  BY <1>1, <1>5 DEF S
<1> QED BY <1>6 DEF Last

LEMMA AcceptOrders ==
  ASSUME SearchInv, Accept
  PROVE  OrderInv'
<1>1. /\ found' = Head(agenda) /\ trail' = <<Root.package>> /\ ordered' = ordered
      /\ ordered = <<>> /\ Sound(Head(agenda))
  BY HeadIsSound DEF SearchInv, Accept, Judging, Searching, NothingVisitedYet, FoundIsBest
<1>2. Root.package \in Chosen(Head(agenda))
  BY <1>1 DEF Sound
<1>3. DOMAIN trail' = {1} /\ Len(trail') = 1 /\ trail'[1] = Root.package /\ DOMAIN ordered' = {}
  BY <1>1
<1>4. Root.package \in ToSet(trail')
  BY <1>3 DEF ToSet
<1> QED BY <1>1, <1>2, <1>3, <1>4
        DEF OrderInv, VisitsAreUnique, TrailIsAPath, OrderIsClosed, VisitsAreChosen, Chosen

LEMMA VisitOrders ==
  ASSUME SearchInv, OrderInv, Visit
  PROVE  OrderInv'
<1>1. /\ found # None /\ trail # <<>> /\ UNCHANGED <<found, ordered>>
      /\ trail \in Seq(Nat) /\ ordered \in Seq(Nat)
  BY DEF Visit, SearchInv, NothingVisitedYet, TypeOK
<1>2. PICK p \in Unvisited(Last(trail)) : trail' = Append(trail, p)
  BY DEF Visit
<1>3. VisitsAreUnique /\ TrailIsAPath /\ OrderIsClosed /\ VisitsAreChosen
  BY <1>1 DEF OrderInv
<1> DEFINE x == Last(trail)
           n == Len(trail)
<1>4. x = trail[n] /\ n \in 1..n /\ n \in Nat /\ DOMAIN trail = 1..n
  BY <1>1 DEF Last
<1>5. PICK edge \in found.edges : edge[1] = x /\ edge[2] = p
  BY <1>2 DEF Unvisited, Children
<1>6. found.edges \subseteq Nat \X Nat /\ Sound(found)
  BY <1>1, FoundType
<1>7. p \in Nat /\ p \in Chosen(found) /\ <<x, p>> \in found.edges
  BY <1>5, <1>6 DEF Sound, Dependencies, Chosen
<1>8. /\ \A i \in DOMAIN trail : trail[i] # p
      /\ \A i \in DOMAIN ordered : ordered[i] # p
  BY <1>2 DEF Unvisited, ToSet
<1> HIDE DEF x, n
<1>9. /\ DOMAIN trail' = 1..n+1 /\ Len(trail') = n + 1 /\ trail'[n + 1] = p
      /\ \A i \in 1..n : trail'[i] = trail[i]
  BY <1>1, <1>2, <1>4, <1>7 DEF n
<1>10. VisitsAreUnique'
  <2>1. \A i, j \in 1..n+1 : trail'[i] = trail'[j] => i = j
    BY <1>3, <1>4, <1>8, <1>9 DEF VisitsAreUnique
  <2>2. \A i \in 1..n+1, j \in DOMAIN ordered : trail'[i] # ordered[j]
    BY <1>3, <1>4, <1>8, <1>9 DEF VisitsAreUnique
  <2> QED BY <1>1, <1>3, <1>9, <2>1, <2>2 DEF VisitsAreUnique
<1>11. TrailIsAPath'
  <2>1. ASSUME NEW i \in 1..n PROVE <<trail'[i], trail'[i + 1]>> \in found.edges
    <3>1. CASE i = n
      BY <3>1, <1>4, <1>7, <1>9
    <3>2. CASE i # n
      <4>1. i \in 1..n-1 /\ i + 1 \in 1..n
        BY <3>2, <1>4
      <4> QED BY <4>1, <1>3, <1>9 DEF TrailIsAPath, n
    <3> QED BY <3>1, <3>2
  <2>2. Len(trail') - 1 = n /\ found' = found
    BY <1>1, <1>4, <1>9
  <2> QED BY <2>1, <2>2 DEF TrailIsAPath
<1>12. OrderIsClosed'
  <2>1. found' = found /\ ordered' = ordered
    BY <1>1
  <2> QED BY <1>3, <2>1 DEF OrderIsClosed
<1>13. VisitsAreChosen'
  <2>1. \A i \in 1..n+1 : trail'[i] \in Chosen(found)
    BY <1>3, <1>4, <1>7, <1>9 DEF VisitsAreChosen
  <2>2. ToSet(trail) \subseteq ToSet(trail')
    BY <1>4, <1>9 DEF ToSet
  <2> QED BY <1>1, <1>3, <1>9, <2>1, <2>2 DEF VisitsAreChosen, Chosen, ToSet
<1> QED BY <1>10, <1>11, <1>12, <1>13 DEF OrderInv

LEMMA LeaveOrders ==
  ASSUME SearchInv, OrderInv, Leave
  PROVE  OrderInv'
<1> DEFINE x == Last(trail)
           n == Len(trail)
           k == Len(ordered)
<1>1. /\ found # None /\ trail # <<>> /\ UNCHANGED found
      /\ trail \in Seq(Nat) /\ ordered \in Seq(Nat)
      /\ Unvisited(x) = {} /\ ordered' = Append(ordered, x) /\ trail' = Front(trail)
  BY DEF Leave, SearchInv, NothingVisitedYet, TypeOK
<1>2. VisitsAreUnique /\ TrailIsAPath /\ OrderIsClosed /\ VisitsAreChosen
  BY <1>1 DEF OrderInv
<1>3. /\ x = trail[n] /\ n \in 1..n /\ n \in Nat /\ k \in Nat
      /\ DOMAIN trail = 1..n /\ DOMAIN ordered = 1..k
  BY <1>1 DEF Last
<1>4. /\ DOMAIN trail' = 1..n-1 /\ Len(trail') = n - 1
      /\ \A i \in 1..n-1 : trail'[i] = trail[i]
  BY <1>1, <1>3 DEF Front
<1>5. /\ DOMAIN ordered' = 1..k+1 /\ Len(ordered') = k + 1 /\ ordered'[k + 1] = x
      /\ \A i \in 1..k : ordered'[i] = ordered[i]
  BY <1>1, <1>3
<1>6. Sound(found) /\ ValidGraph(found) /\ found.edges \subseteq Nat \X Nat
  BY <1>1, FoundType
<1>7. ASSUME NEW q \in Children(found.edges, x)
      PROVE  \E j \in 1..k : ordered[j] = q
  <2>1. PICK edge \in found.edges : edge[1] = x /\ edge[2] = q
    BY DEF Children
  <2>2. q \in ToSet(trail) \cup ToSet(ordered)
    BY <1>1 DEF Unvisited
  <2>3. ASSUME NEW i \in DOMAIN trail, trail[i] = q PROVE FALSE
    <3> DEFINE part == Reached(found.edges, {q})
    <3>1. q \in part /\ Closed(found.edges, part)
      BY <1>6, ReachedIsClosed DEF Sound
    <3> HIDE DEF part
    <3>2. x \in part
      BY <1>1, <1>2, <2>3, <3>1, TrailIsReached
    <3> QED BY <1>6, <2>1, <3>2 DEF ValidGraph, Acyclic, part
  <2> QED BY <1>3, <2>2, <2>3 DEF ToSet
<1> HIDE DEF x, n, k
<1>8. VisitsAreUnique'
  <2>1. \A i, j \in 1..n-1 : trail'[i] = trail'[j] => i = j
    BY <1>2, <1>3, <1>4 DEF VisitsAreUnique
  <2>2. \A j \in 1..k : ordered[j] # x
    BY <1>2, <1>3 DEF VisitsAreUnique
  <2>3. \A i, j \in 1..k+1 : ordered'[i] = ordered'[j] => i = j
    BY <1>2, <1>3, <1>5, <2>2 DEF VisitsAreUnique
  <2>4. \A i \in 1..n-1, j \in 1..k+1 : trail'[i] # ordered'[j]
    BY <1>2, <1>3, <1>4, <1>5 DEF VisitsAreUnique
  <2> QED BY <1>4, <1>5, <2>1, <2>3, <2>4 DEF VisitsAreUnique
<1>9. TrailIsAPath'
  BY <1>1, <1>2, <1>3, <1>4 DEF TrailIsAPath, n
<1>10. OrderIsClosed'
  <2>1. ASSUME NEW i \in 1..k+1, NEW q \in Children(found.edges, ordered'[i])
        PROVE  \E j \in 1..i-1 : ordered'[j] = q
    <3>1. CASE i = k + 1
      BY <3>1, <1>3, <1>5, <1>7
    <3>2. CASE i # k + 1
      <4>1. i \in 1..k
        BY <3>2, <1>3
      <4>2. PICK j \in 1..i-1 : ordered[j] = q
        BY <4>1, <1>2, <1>3, <1>5 DEF OrderIsClosed
      <4> QED BY <4>1, <4>2, <1>3, <1>5
    <3> QED BY <3>1, <3>2
  <2> QED BY <1>1, <1>5, <2>1 DEF OrderIsClosed
<1>11. VisitsAreChosen'
  <2>1. \A i \in 1..n-1 : trail'[i] \in Chosen(found)
    BY <1>2, <1>3, <1>4 DEF VisitsAreChosen
  <2>2. \A i \in 1..k+1 : ordered'[i] \in Chosen(found)
    BY <1>2, <1>3, <1>5 DEF VisitsAreChosen
  <2>3. Root.package \in ToSet(trail') \cup ToSet(ordered')
    <3>1. PICK i : \/ i \in 1..n /\ trail[i] = Root.package
                   \/ i \in 1..k /\ ordered[i] = Root.package
      BY <1>2, <1>3 DEF VisitsAreChosen, ToSet
    <3>2. CASE i \in 1..n-1 /\ trail[i] = Root.package
      BY <3>2, <1>4 DEF ToSet
    <3>3. CASE i = n /\ trail[i] = Root.package
      BY <3>3, <1>3, <1>5 DEF ToSet
    <3>4. CASE i \in 1..k /\ ordered[i] = Root.package
      BY <3>4, <1>3, <1>5 DEF ToSet
    <3> QED BY <3>1, <3>2, <3>3, <3>4, <1>3
  <2> QED BY <1>1, <1>4, <1>5, <2>1, <2>2, <2>3 DEF VisitsAreChosen, Chosen
<1> QED BY <1>8, <1>9, <1>10, <1>11 DEF OrderInv

LEMMA OrderInvariant == Spec => []OrderInv
<1>1. Init => OrderInv
  BY DEF Init, OrderInv
<1>2. ASSUME SearchInv, OrderInv, [Next]_vars PROVE OrderInv'
  <2>1. ASSUME UNCHANGED <<found, trail, ordered>> PROVE OrderInv'
    BY <1>2, <2>1 DEF OrderInv, VisitsAreUnique, TrailIsAPath, OrderIsClosed, VisitsAreChosen, Chosen
  <2>2. CASE SearchSteps
    <3>1. PICK calls : Proceed(calls)
      BY <1>2, <2>2, SearchReplaces DEF SearchInv
    <3> QED BY <2>1, <3>1 DEF Proceed
  <2>3. CASE GiveUp \/ BuildLock \/ Raise \/ UNCHANGED vars
    BY <2>1, <2>3 DEF GiveUp, BuildLock, Raise, vars
  <2> QED BY <1>2, <2>2, <2>3, AcceptOrders, VisitOrders, LeaveOrders DEF Next, SearchSteps
<1> QED BY <1>1, <1>2, SearchInvariant, PTL DEF Spec

-------------------------------------------------------------------------------
(* Theorems. *)

(* The calls, the found one and the lock select from the candidates.          *)
THEOREM TypeCorrect == Spec => []TypeOK
<1>1. SearchInv => TypeOK
  BY DEF SearchInv
<1> QED BY <1>1, SearchInvariant, PTL

LEMMA LockIsFound ==
  ASSUME SearchInv, Locked
  PROVE  /\ found # None /\ trail = <<>> /\ Sound(found) /\ found.pending = {}
         /\ ValidGraph(found) /\ registry \in Registries
         /\ answer.selected = found.selected /\ answer.edges = found.edges
         /\ answer.order = ordered
<1>1. /\ found # None /\ trail = <<>>
      /\ answer.selected = found.selected /\ answer.edges = found.edges
      /\ answer.order = ordered
  BY DEF SearchInv, AnswerIsFound
<1> QED BY <1>1, FoundType

(* A lock is admissible: what the search judged dependency by dependency, and *)
(* by walks along the edges, holds of the selection as a whole.               *)
THEOREM LocksAreSound == Spec => []LocksAreAdmissible
<1>1. SearchInv => LocksAreAdmissible
  BY LockIsFound, ValidIsAdmissible DEF LocksAreAdmissible
<1> QED BY <1>1, SearchInvariant, PTL

(* The search gives up only if there is no admissible selection: none is lost *)
(* with a call that fails, or with an option not tried.                       *)
THEOREM SearchIsComplete == Spec => []NothingIsMissed
<1>1. ASSUME SearchInv, answer = Invalid, Unambiguous(registry),
             NEW selection \in Selections, Sought(selection)
      PROVE  FALSE
  <2>1. agenda = <<>> /\ found = None /\ answer # Error
    BY <1>1, ResolverAssumption DEF SearchInv, AnswerIsFound
  <2> QED BY <1>1, <2>1 DEF SearchInv, NothingIsDropped, ToSet
<1>2. SearchInv => NothingIsMissed
  BY <1>1 DEF NothingIsMissed, Sought
<1> QED BY <1>2, SearchInvariant, PTL

(* The highest versions are tried first, so that no other admissible          *)
(* selection is as high in every package it shares with the lock.             *)
THEOREM HighestComeFirst == Spec => []NothingIsBetter
<1>1. ASSUME SearchInv, Locked, NEW selection \in Selections, Sought(selection)
      PROVE  ~Better(selection, answer.selected)
  BY <1>1, LockIsFound DEF SearchInv, FoundIsBest
<1>2. SearchInv => NothingIsBetter
  BY <1>1 DEF NothingIsBetter, Sought
<1> QED BY <1>2, SearchInvariant, PTL

(* When all is visited, what was found is in order: the graph was judged free *)
(* of cycles, and all that was chosen hangs on the root.                      *)
LEMMA AllIsOrdered ==
  ASSUME SearchInv, OrderInv, Locked
  PROVE  /\ ToSet(ordered) = Chosen(found)
         /\ Len(ordered) = Cardinality(Chosen(found))
         /\ \A i, j \in DOMAIN ordered :
              <<ordered[i], ordered[j]>> \in found.edges => j < i
<1>1. /\ found # None /\ trail = <<>> /\ Sound(found) /\ ordered \in Seq(Nat)
      /\ VisitsAreUnique /\ OrderIsClosed /\ VisitsAreChosen
  BY LockIsFound DEF OrderInv, SearchInv, TypeOK
<1> DEFINE n == Len(ordered)
<1>2. n \in Nat /\ DOMAIN ordered = 1..n
  BY <1>1
<1>3. ToSet(ordered) \in SUBSET Chosen(found) /\ Root.package \in ToSet(ordered)
  BY <1>1 DEF VisitsAreChosen, ToSet
<1>4. \A i \in DOMAIN ordered : \A q : <<ordered[i], q>> \in found.edges =>
        \E j \in 1..i-1 : ordered[j] = q
  <2> SUFFICES ASSUME NEW i \in DOMAIN ordered, NEW q, <<ordered[i], q>> \in found.edges
               PROVE  \E j \in 1..i-1 : ordered[j] = q
    OBVIOUS
  <2>1. q \in Children(found.edges, ordered[i])
    BY DEF Children
  <2> QED BY <1>1, <2>1 DEF OrderIsClosed
<1>5. found.edges \subseteq Nat \X Nat
  BY <1>1, FoundType
<1>6. Closed(found.edges, ToSet(ordered))
  <2> SUFFICES ASSUME NEW edge \in found.edges, edge[1] \in ToSet(ordered)
               PROVE  edge[2] \in ToSet(ordered)
    BY DEF Closed
  <2>1. PICK i \in 1..n : ordered[i] = edge[1]
    BY <1>2 DEF ToSet
  <2>2. edge = <<ordered[i], edge[2]>>
    BY <1>5, <2>1
  <2>3. PICK j \in 1..i-1 : ordered[j] = edge[2]
    BY <1>2, <1>4, <2>2
  <2>4. j \in 1..n
    BY <1>2
  <2> QED BY <1>2, <2>3, <2>4 DEF ToSet
<1>7. ToSet(ordered) = Chosen(found)
  BY <1>1, <1>3, <1>6 DEF Sound
<1>8. n = Cardinality(Chosen(found))
  <2>1. IsFiniteSet(1..n) /\ Cardinality(1..n) = n
    <3>1. n \in Nat
      BY <1>2
    <3> HIDE DEF n
    <3> QED BY <3>1, FS_Interval
  <2>2. ordered \in Bijection(1..n, Chosen(found))
    BY <1>1, <1>2, <1>7
       DEF VisitsAreUnique, Bijection, Injection, IsInjective, Surjection, ToSet
  <2>3. ExistsBijection(1..n, Chosen(found))
    BY <2>2 DEF ExistsBijection
  <2> QED BY <2>1, <2>3, FS_Bijection
<1>9. ASSUME NEW i \in DOMAIN ordered, NEW j \in DOMAIN ordered,
             <<ordered[i], ordered[j]>> \in found.edges
      PROVE  j < i
  <2>1. PICK k \in 1..i-1 : ordered[k] = ordered[j]
    BY <1>4, <1>9
  <2>2. k \in DOMAIN ordered
    BY <1>2
  <2>3. k = j
    BY <1>1, <2>1, <2>2 DEF VisitsAreUnique
  <2> QED BY <1>2, <2>1, <2>3
<1> QED BY <1>7, <1>8, <1>9

(* The lock lists all its packages once, each after what it depends on.       *)
THEOREM OrderIsTopological == Spec => []DependenciesComeFirst
<1>1. SearchInv /\ OrderInv => DependenciesComeFirst
  BY LockIsFound, AllIsOrdered DEF DependenciesComeFirst, Chosen
<1> QED BY <1>1, SearchInvariant, OrderInvariant, PTL
===============================================================================
