--------------------------- MODULE ObjectStoreProofs ---------------------------
(***************************************************************************)
(* Proofs about ObjectStore: for any number of contents, files and threads *)
(* that put what they like at the same time and may die anywhere.          *)
(***************************************************************************)
EXTENDS ObjectStore, TLAPS

(* What holds of all contents: the files a content goes by, under its address,*)
(* its temporary name or in the hands of a put, are no other content's, and   *)
(* hold that content or nothing.                                              *)
Held(c, f) ==
  \/ target[c] = f
  \/ temporary[c] = f
  \/ \E p \in Putters : putter[p] # Idle /\ putter[p].content = c /\ putter[p].file = f

FilesAreApart ==
  \A f \in Files, c, d \in Contents : Held(c, f) /\ Held(d, f) => c = d

FilesHoldTheirOwn ==
  \A f \in Files, c \in Contents : Held(c, f) => data[f] \in {c, None}

StoredIsThere == \A c \in stored : target[c] # None

Holds(work) ==
  /\ work.step = "compare" => target[work.content] # None
  /\ work.step = "write" => work.file # None

PuttersHold == \A p \in Putters : putter[p] # Idle => Holds(putter[p])

(* What holds of a content that no two puts were writing at a time: who       *)
(* writes it is alone, has found the address free and still finds the file it *)
(* opened, with the content from "chmod" on; and what is at the address is    *)
(* the content.                                                               *)
Sound(work) ==
  /\ target[work.content] = None
  /\ work.step = "write" => work.file = temporary[work.content]
  /\ work.step \in {"chmod", "replace"} =>
       temporary[work.content] # None /\ data[temporary[work.content]] = work.content

Quiet(c) ==
  /\ \A p, q \in Writers(c) : p = q
  /\ \A p \in Writers(c) : Sound(putter[p])
  /\ target[c] # None => data[target[c]] = c

StoreInv ==
  /\ TypeOK
  /\ FilesAreApart
  /\ FilesHoldTheirOwn
  /\ StoredIsThere
  /\ PuttersHold
  /\ \A c \in Contents \ overlapped : Quiet(c)

Steps == {"compare", "open", "write", "chmod", "replace"}

-------------------------------------------------------------------------------
LEMMA BusyType ==
  ASSUME TypeOK, NEW p \in Putters, putter[p] # Idle
  PROVE  /\ putter[p].step \in Steps
         /\ putter[p].content \in Contents
         /\ putter[p].file \in Files \cup {None}
  BY DEF TypeOK, Work, Steps

(* A put that goes on is the only one to move. *)
LEMMA GoOnMoves ==
  ASSUME TypeOK, NEW p \in Putters, NEW step \in Steps, NEW c \in Contents,
         NEW file \in Files \cup {None}, GoOn(p, step, c, file)
  PROVE  /\ putter' \in [Putters -> Work \cup {Idle}]
         /\ \A q \in Putters \ {p} : putter'[q] = putter[q]
         /\ putter'[p] # Idle
         /\ putter'[p].step = step
         /\ putter'[p].content = c
         /\ putter'[p].file = file
<1> DEFINE work == [step |-> step, content |-> c, file |-> file]
<1>1. /\ work \in Work
      /\ work.step = step
      /\ work.content = c
      /\ work.file = file
  BY DEF Work, Steps
<1>2. putter' = [putter EXCEPT ![p] = work]
  BY DEF GoOn
<1> HIDE DEF work
<1> QED
  BY <1>1, <1>2, ObjectAssumption DEF TypeOK

LEMMA FinishMoves ==
  ASSUME TypeOK, NEW p \in Putters, Finish(p)
  PROVE  /\ putter' \in [Putters -> Work \cup {Idle}]
         /\ \A q \in Putters \ {p} : putter'[q] = putter[q]
         /\ putter'[p] = Idle
  BY DEF Finish, TypeOK

(* No put holds a new file, no name leads to one, and no file gets other      *)
(* bytes than those of the content it is held for: files stay apart.          *)
LEMMA FilesStay ==
  ASSUME FilesAreApart, FilesHoldTheirOwn,
         \A c \in Contents, f \in Files : Held(c, f)' => Held(c, f),
         \A c \in Contents, f \in Files :
           Held(c, f) => data'[f] = data[f] \/ data'[f] \in {c, None}
  PROVE  FilesAreApart' /\ FilesHoldTheirOwn'
  BY DEF FilesAreApart, FilesHoldTheirOwn

(* Of the contents it does not put, a put changes nothing.                    *)
LEMMA OthersStayQuiet ==
  ASSUME NEW p \in Putters, NEW d \in Contents, Quiet(d),
         putter[p] # Idle => putter[p].content # d,
         putter'[p] # Idle => putter'[p].content # d,
         \A q \in Putters \ {p} : putter'[q] = putter[q],
         target'[d] = target[d], temporary'[d] = temporary[d],
         target[d] # None => data'[target[d]] = data[target[d]],
         temporary[d] # None => data'[temporary[d]] = data[temporary[d]]
  PROVE  Quiet(d)'
<1>1. Writers(d)' = Writers(d) /\ \A q \in Writers(d) : putter'[q] = putter[q] /\ q \in Putters
  BY DEF Writers
<1>2. \A q \in Writers(d) : putter[q].content = d
  BY DEF Writers
<1>3. \A q \in Writers(d) : Sound(putter[q])'
  BY <1>1, <1>2 DEF Quiet, Sound
<1> QED
  BY <1>1, <1>3 DEF Quiet

(* The only writer of a content is the only one afterwards.                   *)
LEMMA WriterIsAlone ==
  ASSUME NEW p \in Putters, NEW c \in Contents, Quiet(c), p \in Writers(c),
         \A q \in Putters \ {p} : putter'[q] = putter[q]
  PROVE  Writers(c)' \subseteq {p}
  BY DEF Quiet, Writers

(* Steps that move nothing but the put itself. *)
LEMMA FilesUnmoved ==
  ASSUME StoreInv, NEW p \in Putters,
         UNCHANGED <<target, temporary, data, readonly, overlapped>>,
         stored' \subseteq Contents, \A c \in stored' : target[c] # None,
         putter' \in [Putters -> Work \cup {Idle}],
         \A q \in Putters \ {p} : putter'[q] = putter[q],
         putter'[p] = Idle
  PROVE  StoreInv'
<1>1. FilesAreApart' /\ FilesHoldTheirOwn'
  <2>1. \A c \in Contents, f \in Files : Held(c, f)' => Held(c, f)
    BY DEF Held
  <2> QED
    BY <2>1, FilesStay DEF StoreInv
<1>2. PuttersHold'
  BY DEF StoreInv, PuttersHold, Holds
<1>3. ASSUME NEW c \in Contents \ overlapped
      PROVE  Quiet(c)'
  <2>1. Writers(c)' \subseteq Writers(c) /\ \A q \in Writers(c)' : putter'[q] = putter[q]
    BY DEF Writers
  <2>2. Quiet(c)
    BY DEF StoreInv
  <2>3. \A q \in Writers(c)' : Sound(putter[q])'
    BY <2>1, <2>2 DEF Quiet, Sound
  <2> QED
    BY <2>1, <2>2, <2>3 DEF Quiet
<1> QED
  BY <1>1, <1>2, <1>3 DEF StoreInv, TypeOK, StoredIsThere

-------------------------------------------------------------------------------
LEMMA BeginStep ==
  ASSUME StoreInv, NEW p \in Putters, NEW c \in Contents, BeginPut(p, c)
  PROVE  StoreInv'
<1> DEFINE step == IF Exists(c) THEN "compare" ELSE "open"
<1>1. /\ putter[p] = Idle
      /\ GoOn(p, step, c, None)
      /\ overlapped' = IF Exists(c) \/ Writers(c) = {} THEN overlapped ELSE overlapped \cup {c}
      /\ UNCHANGED <<target, temporary, data, readonly, stored>>
  BY DEF BeginPut
<1>2. /\ step \in Steps
      /\ step \in {"compare", "open"}
      /\ step = "compare" <=> target[c] # None
      /\ step = "open" <=> ~Exists(c)
  BY DEF Steps, Exists
<1> HIDE DEF step
<1>3. /\ putter' \in [Putters -> Work \cup {Idle}]
      /\ \A q \in Putters \ {p} : putter'[q] = putter[q]
      /\ putter'[p] # Idle
      /\ putter'[p].step = step
      /\ putter'[p].content = c
      /\ putter'[p].file = None
  BY <1>1, <1>2, GoOnMoves DEF StoreInv
<1>4. TypeOK'
  BY <1>1, <1>3 DEF StoreInv, TypeOK
<1>5. FilesAreApart' /\ FilesHoldTheirOwn'
  <2>1. \A d \in Contents, f \in Files : Held(d, f)' => Held(d, f)
    BY <1>1, <1>3, ObjectAssumption DEF Held
  <2> QED
    BY <1>1, <2>1, FilesStay DEF StoreInv
<1>6. StoredIsThere' /\ PuttersHold'
  BY <1>1, <1>2, <1>3 DEF StoreInv, StoredIsThere, PuttersHold, Holds
<1>7. ASSUME NEW d \in Contents \ overlapped'
      PROVE  Quiet(d)'
  <2>1. Quiet(d)
    BY <1>1, <1>7 DEF StoreInv
  <2>2. CASE d # c
    BY <1>1, <1>3, <2>1, <2>2, OthersStayQuiet
  <2>3. CASE d = c /\ Exists(c)
    <3>1. Writers(c)' = Writers(c) /\ \A q \in Writers(c) : putter'[q] = putter[q]
      BY <1>1, <1>2, <1>3, <2>3 DEF Writers, Writing
    <3>2. \A q \in Writers(c) : Sound(putter[q])'
      BY <1>1, <2>1, <2>3, <3>1 DEF Quiet, Sound
    <3> QED
      BY <1>1, <2>1, <2>3, <3>1, <3>2 DEF Quiet
  <2>4. CASE d = c /\ ~Exists(c)
    <3>1. Writers(c) = {}
      BY <1>1, <1>7, <2>4
    <3>2. Writers(c)' \subseteq {p}
      BY <1>3, <3>1 DEF Writers
    <3>3. Sound(putter[p])'
      BY <1>1, <1>2, <1>3, <2>4 DEF Sound, Exists
    <3> QED
      BY <1>1, <2>4, <3>2, <3>3 DEF Quiet, Exists
  <2> QED
    BY <2>2, <2>3, <2>4
<1> QED
  BY <1>4, <1>5, <1>6, <1>7 DEF StoreInv

LEMMA CompareStep ==
  ASSUME StoreInv, NEW p \in Putters, Compare(p)
  PROVE  StoreInv'
<1>1. /\ putter[p] # Idle
      /\ putter[p].step = "compare"
      /\ stored' \subseteq stored \cup {putter[p].content}
      /\ Finish(p)
      /\ UNCHANGED <<target, temporary, data, readonly, overlapped>>
  BY DEF Compare, At
<1>2. target[putter[p].content] # None /\ putter[p].content \in Contents
  BY <1>1, BusyType DEF StoreInv, PuttersHold, Holds
<1>3. /\ stored' \subseteq Contents
      /\ \A c \in stored' : target[c] # None
  BY <1>1, <1>2 DEF StoreInv, TypeOK, StoredIsThere
<1> QED
  BY <1>1, <1>3, FinishMoves, FilesUnmoved DEF StoreInv

(* A put that fails or dies leaves everything where it is. *)
LEMMA EndStep ==
  ASSUME StoreInv, NEW p \in Putters, Fail(p) \/ Die(p)
  PROVE  StoreInv'
<1>1. Finish(p) /\ UNCHANGED <<target, temporary, data, readonly, stored, overlapped>>
  BY DEF Fail, Die
<1> QED
  BY <1>1, FinishMoves, FilesUnmoved DEF StoreInv, TypeOK, StoredIsThere

(* A step of a writer concerns its content and one file, which that content   *)
(* went by before or nobody did.                                              *)
LEMMA WriterStep ==
  ASSUME StoreInv, NEW p \in Putters, NEW c \in Contents, NEW f \in Files, p \in Writers(c),
         Held(c, f) \/ Unused(f),
         putter' \in [Putters -> Work \cup {Idle}],
         \A q \in Putters \ {p} : putter'[q] = putter[q],
         putter'[p] # Idle =>
           putter'[p].content = c /\ putter'[p].file \in {f, None} /\ Holds(putter[p])',
         target' \in [Contents -> Files \cup {None}],
         target'[c] \in {target[c], f},
         temporary' \in [Contents -> Files \cup {None}],
         temporary'[c] \in {temporary[c], f, None},
         \A d \in Contents \ {c} : target'[d] = target[d] /\ temporary'[d] = temporary[d],
         data' \in [Files -> Contents \cup {None}],
         data'[f] \in {c, None},
         \A g \in Files \ {f} : data'[g] = data[g],
         readonly' \subseteq Files,
         stored' \subseteq stored \cup {c}, c \in stored' => target'[c] # None,
         overlapped' = overlapped,
         c \notin overlapped => Quiet(c)'
  PROVE  StoreInv'
<1>1. f # None /\ c # None
  BY ObjectAssumption
<1>2. \A d \in Contents \ {c} : ~Held(d, f)
  BY DEF StoreInv, FilesAreApart, Unused, Held
<1>3. /\ \A d \in Contents \ {c}, g \in Files : Held(d, g)' => Held(d, g)
      /\ \A g \in Files : Held(c, g)' => Held(c, g) \/ g = f
  <2>1. putter[p] # Idle /\ putter[p].content = c
    BY DEF Writers
  <2>2. ASSUME NEW d \in Contents \ {c}, NEW g \in Files, Held(d, g)'
        PROVE  Held(d, g)
    BY <2>1, <2>2 DEF Held
  <2>3. ASSUME NEW g \in Files, Held(c, g)', g # f
        PROVE  Held(c, g)
    BY <2>1, <2>3, ObjectAssumption DEF Held
  <2> QED
    BY <2>2, <2>3
<1>4. FilesAreApart'
  BY <1>2, <1>3 DEF StoreInv, FilesAreApart
<1>5. FilesHoldTheirOwn'
  BY <1>2, <1>3 DEF StoreInv, FilesHoldTheirOwn
<1>6. StoredIsThere'
  <2> SUFFICES ASSUME NEW d \in stored'
               PROVE  target'[d] # None
    BY DEF StoredIsThere
  <2> QED
    BY DEF StoreInv, StoredIsThere, TypeOK
<1>7. PuttersHold'
  <2> SUFFICES ASSUME NEW q \in Putters, putter'[q] # Idle
               PROVE  Holds(putter[q])'
    BY DEF PuttersHold
  <2>1. CASE q # p
    <3>1. /\ putter'[q] = putter[q]
          /\ Holds(putter[q])
          /\ putter[q].content \in Contents
      BY <2>1, BusyType DEF StoreInv, PuttersHold
    <3> QED
      BY <1>1, <3>1 DEF Holds
  <2> QED
    BY <2>1
<1>8. ASSUME NEW d \in Contents \ overlapped
      PROVE  Quiet(d)'
  <2>1. CASE d # c
    <3>1. target[d] # f /\ temporary[d] # f
      BY <1>2, <2>1 DEF Held
    <3>2. /\ target[d] # None => target[d] \in Files \ {f}
          /\ temporary[d] # None => temporary[d] \in Files \ {f}
      BY <3>1 DEF StoreInv, TypeOK
    <3>3. putter[p] # Idle => putter[p].content # d
      BY <2>1 DEF Writers
    <3> QED
      BY <2>1, <3>2, <3>3, OthersStayQuiet DEF StoreInv
  <2> QED
    BY <1>8, <2>1
<1>9. TypeOK'
  BY DEF StoreInv, TypeOK
<1> QED
  BY <1>4, <1>5, <1>6, <1>7, <1>8, <1>9 DEF StoreInv

LEMMA OpenStep ==
  ASSUME StoreInv, NEW p \in Putters, OpenTemporary(p)
  PROVE  StoreInv'
<1>0. PICK c \in Contents : c = putter[p].content
  BY BusyType DEF StoreInv, OpenTemporary, At
<1> USE DEF TemporaryName
<1>1. /\ p \in Writers(c)
      /\ putter[p].step = "open"
      /\ UNCHANGED <<target, stored, overlapped>>
  BY <1>0, BusyType DEF StoreInv, OpenTemporary, At, Writers, Writing
<1>2. PICK f \in Files :
        /\ IF temporary[c] = None THEN Unused(f) ELSE f = temporary[c] /\ Writable(f)
        /\ temporary' = [temporary EXCEPT ![c] = f]
        /\ data' = [data EXCEPT ![f] = None]
        /\ readonly' = IF temporary[c] = None THEN readonly \ {f} ELSE readonly
        /\ GoOn(p, "write", c, f)
  BY <1>0 DEF OpenTemporary
<1>3. "write" \in Steps /\ f \in Files \cup {None} /\ f # None
  BY ObjectAssumption DEF Steps
<1>4. /\ putter' \in [Putters -> Work \cup {Idle}]
      /\ \A q \in Putters \ {p} : putter'[q] = putter[q]
      /\ putter'[p] # Idle
      /\ putter'[p].step = "write"
      /\ putter'[p].content = c
      /\ putter'[p].file = f
  BY <1>1, <1>2, <1>3, GoOnMoves DEF StoreInv
<1>5. /\ temporary' \in [Contents -> Files \cup {None}]
      /\ temporary'[c] = f
      /\ \A d \in Contents \ {c} : temporary'[d] = temporary[d]
      /\ data' \in [Files -> Contents \cup {None}]
      /\ data'[f] = None
      /\ \A g \in Files \ {f} : data'[g] = data[g]
      /\ readonly' \subseteq Files
  BY <1>1, <1>2 DEF StoreInv, TypeOK
<1>6. Held(c, f) \/ Unused(f)
  BY <1>2 DEF Held
<1>7. Holds(putter[p])'
  BY <1>3, <1>4 DEF Holds
<1>8. c \notin overlapped => Quiet(c)'
  <2> SUFFICES ASSUME c \notin overlapped
               PROVE  Quiet(c)'
    OBVIOUS
  <2>1. Quiet(c)
    BY <1>1 DEF StoreInv
  <2>2. target[c] = None
    BY <1>1, <2>1 DEF Quiet, Sound, Writers
  <2>3. Sound(putter[p])'
    BY <1>1, <1>4, <1>5, <2>2 DEF Sound
  <2>4. Writers(c)' \subseteq {p}
    BY <1>1, <1>4, <2>1, WriterIsAlone
  <2> QED
    BY <1>1, <2>2, <2>3, <2>4 DEF Quiet
<1>9. target' \in [Contents -> Files \cup {None}] /\ stored \subseteq Contents
  BY <1>1 DEF StoreInv, TypeOK
<1>10. c \in stored' => target'[c] # None
  BY <1>1 DEF StoreInv, StoredIsThere
<1> QED
  BY <1>1, <1>4, <1>5, <1>6, <1>7, <1>8, <1>9, <1>10, WriterStep

LEMMA WriteStep ==
  ASSUME StoreInv, NEW p \in Putters, Write(p)
  PROVE  StoreInv'
<1>0. PICK c \in Contents : c = putter[p].content
  BY BusyType DEF StoreInv, Write, At
<1> DEFINE f == putter[p].file
<1>1. /\ p \in Writers(c)
      /\ putter[p].step = "write"
      /\ UNCHANGED <<target, temporary, readonly, stored, overlapped>>
      /\ data' = [data EXCEPT ![f] = c]
      /\ GoOn(p, "chmod", c, None)
  BY <1>0, BusyType DEF StoreInv, Write, At, Writers, Writing
<1>2. f \in Files
  BY <1>0, <1>1, BusyType DEF StoreInv, PuttersHold, Holds, Writers
<1>3. Held(c, f)
  BY <1>0, <1>1 DEF Held, Writers
<1>4. "chmod" \in Steps /\ f # None
  BY <1>2, ObjectAssumption DEF Steps
<1>5. Quiet(c) => f = temporary[c] /\ target[c] = None
  BY <1>0, <1>1 DEF Quiet, Sound
<1> HIDE DEF f
<1>6. /\ putter' \in [Putters -> Work \cup {Idle}]
      /\ \A q \in Putters \ {p} : putter'[q] = putter[q]
      /\ putter'[p] # Idle
      /\ putter'[p].step = "chmod"
      /\ putter'[p].content = c
      /\ putter'[p].file = None
  BY <1>1, <1>4, GoOnMoves DEF StoreInv
<1>7. /\ data' \in [Files -> Contents \cup {None}]
      /\ data'[f] = c
      /\ \A g \in Files \ {f} : data'[g] = data[g]
  BY <1>1, <1>2 DEF StoreInv, TypeOK
<1>8. c \notin overlapped => Quiet(c)'
  <2> SUFFICES ASSUME c \notin overlapped
               PROVE  Quiet(c)'
    OBVIOUS
  <2>1. Quiet(c)
    BY <1>1 DEF StoreInv
  <2>2. Sound(putter[p])'
    BY <1>1, <1>4, <1>5, <1>6, <1>7, <2>1 DEF Sound
  <2>3. Writers(c)' \subseteq {p}
    BY <1>1, <1>6, <2>1, WriterIsAlone
  <2> QED
    BY <1>1, <1>5, <2>1, <2>2, <2>3 DEF Quiet
<1>9. Holds(putter[p])'
  BY <1>6 DEF Holds
<1>10. /\ target \in [Contents -> Files \cup {None}]
       /\ temporary \in [Contents -> Files \cup {None}]
       /\ readonly \subseteq Files
       /\ c \in stored => target[c] # None
  BY DEF StoreInv, TypeOK, StoredIsThere
<1> QED
  BY <1>1, <1>2, <1>3, <1>6, <1>7, <1>8, <1>9, <1>10, WriterStep

LEMMA MakeReadOnlyStep ==
  ASSUME StoreInv, NEW p \in Putters, MakeReadOnly(p)
  PROVE  StoreInv'
<1>0. PICK c \in Contents : c = putter[p].content
  BY BusyType DEF StoreInv, MakeReadOnly, At
<1> DEFINE f == temporary[c]
<1> USE DEF TemporaryName
<1>1. /\ p \in Writers(c)
      /\ putter[p].step = "chmod"
      /\ f \in Files
      /\ readonly' = readonly \cup {f}
      /\ UNCHANGED <<target, temporary, data, stored, overlapped>>
      /\ GoOn(p, "replace", c, None)
  BY <1>0, BusyType DEF StoreInv, MakeReadOnly, At, Writers, Writing, TypeOK
<1>2. Held(c, f)
  BY DEF Held
<1>3. "replace" \in Steps /\ f # None
  BY <1>1, ObjectAssumption DEF Steps
<1>4. Quiet(c) => target[c] = None /\ data[temporary[c]] = c
  BY <1>0, <1>1 DEF Quiet, Sound
<1>5. /\ putter' \in [Putters -> Work \cup {Idle}]
      /\ \A q \in Putters \ {p} : putter'[q] = putter[q]
      /\ putter'[p] # Idle
      /\ putter'[p].step = "replace"
      /\ putter'[p].content = c
      /\ putter'[p].file = None
  BY <1>1, <1>3, GoOnMoves DEF StoreInv
<1>6. c \notin overlapped => Quiet(c)'
  <2> SUFFICES ASSUME c \notin overlapped
               PROVE  Quiet(c)'
    OBVIOUS
  <2>1. Quiet(c)
    BY <1>1 DEF StoreInv
  <2>2. Sound(putter[p])'
    BY <1>1, <1>3, <1>4, <1>5, <2>1 DEF Sound
  <2>3. Writers(c)' \subseteq {p}
    BY <1>1, <1>5, <2>1, WriterIsAlone
  <2> QED
    BY <1>1, <1>4, <2>1, <2>2, <2>3 DEF Quiet
<1>7. data[f] \in {c, None}
  BY <1>1, <1>2 DEF StoreInv, FilesHoldTheirOwn
<1>8. Holds(putter[p])'
  BY <1>5 DEF Holds
<1>9. /\ target \in [Contents -> Files \cup {None}]
      /\ temporary \in [Contents -> Files \cup {None}]
      /\ data \in [Files -> Contents \cup {None}]
      /\ readonly' \subseteq Files
      /\ c \in stored => target[c] # None
  BY <1>1 DEF StoreInv, TypeOK, StoredIsThere
<1> QED
  BY <1>1, <1>2, <1>5, <1>6, <1>7, <1>8, <1>9, WriterStep

LEMMA ReplaceStep ==
  ASSUME StoreInv, NEW p \in Putters, Replace(p)
  PROVE  StoreInv'
<1>0. PICK c \in Contents : c = putter[p].content
  BY BusyType DEF StoreInv, Replace, At
<1> DEFINE f == temporary[c]
<1> USE DEF TemporaryName
<1>1. /\ p \in Writers(c)
      /\ putter[p].step = "replace"
      /\ f \in Files
      /\ target' = [target EXCEPT ![c] = f]
      /\ temporary' = [temporary EXCEPT ![c] = None]
      /\ stored' = stored \cup {c}
      /\ UNCHANGED <<data, readonly, overlapped>>
      /\ Finish(p)
  BY <1>0, BusyType DEF StoreInv, Replace, At, Writers, Writing, TypeOK
<1>2. Held(c, f) /\ f # None
  BY <1>1, ObjectAssumption DEF Held
<1>3. Quiet(c) => data[f] = c
  BY <1>0, <1>1 DEF Quiet, Sound
<1> HIDE DEF f
<1>4. /\ putter' \in [Putters -> Work \cup {Idle}]
      /\ \A q \in Putters \ {p} : putter'[q] = putter[q]
      /\ putter'[p] = Idle
  BY <1>1, FinishMoves DEF StoreInv
<1>5. /\ target' \in [Contents -> Files \cup {None}]
      /\ target'[c] = f
      /\ temporary' \in [Contents -> Files \cup {None}]
      /\ temporary'[c] = None
      /\ \A d \in Contents \ {c} : target'[d] = target[d] /\ temporary'[d] = temporary[d]
  BY <1>1 DEF StoreInv, TypeOK
<1>6. c \notin overlapped => Quiet(c)'
  <2> SUFFICES ASSUME c \notin overlapped
               PROVE  Quiet(c)'
    OBVIOUS
  <2>1. Quiet(c)
    BY <1>1 DEF StoreInv
  <2>2. Writers(c)' = {}
    BY <1>1, <1>4, <2>1, WriterIsAlone DEF Writers
  <2> QED
    BY <1>1, <1>3, <1>5, <2>1, <2>2 DEF Quiet
<1>7. data[f] \in {c, None}
  BY <1>1, <1>2 DEF StoreInv, FilesHoldTheirOwn
<1>8. data \in [Files -> Contents \cup {None}] /\ readonly \subseteq Files
  BY DEF StoreInv, TypeOK
<1> QED
  BY <1>1, <1>2, <1>4, <1>5, <1>6, <1>7, <1>8, WriterStep

LEMMA StoreStep ==
  ASSUME StoreInv, [Next]_vars
  PROVE  StoreInv'
<1>1. CASE UNCHANGED vars
  BY <1>1 DEF vars, StoreInv, TypeOK, FilesAreApart, FilesHoldTheirOwn, Held, StoredIsThere,
              PuttersHold, Holds, Quiet, Writers, Sound
<1>2. ASSUME NEW p \in Putters, NEW c \in Contents, BeginPut(p, c)
      PROVE  StoreInv'
  BY <1>2, BeginStep
<1>3. ASSUME NEW p \in Putters, Put(p) \/ Die(p)
      PROVE  StoreInv'
  BY <1>3, CompareStep, OpenStep, WriteStep, MakeReadOnlyStep, ReplaceStep, EndStep DEF Put
<1> QED
  BY <1>1, <1>2, <1>3 DEF Next

LEMMA StoreInvariant == Spec => []StoreInv
<1>1. Init => StoreInv
  BY ObjectAssumption DEF Init, StoreInv, TypeOK, FilesAreApart, FilesHoldTheirOwn, Held,
     StoredIsThere, PuttersHold, Quiet, Writers
<1>2. StoreInv /\ [Next]_vars => StoreInv'
  BY StoreStep
<1> QED
  BY <1>1, <1>2, PTL DEF Spec

-------------------------------------------------------------------------------
(* Every reachable state is well-typed, whoever puts what at the same time.   *)
THEOREM TypeCorrect == Spec => []TypeOK
<1>1. StoreInv => TypeOK
  BY DEF StoreInv
<1> QED
  BY <1>1, StoreInvariant, PTL

(* Whatever deaths leave behind, what put() returned for is whole if no two   *)
(* puts were writing it at a time, and otherwise at least no other content.   *)
THEOREM StoredStaysWhole == Spec => []StoredContentIsWhole
<1>1. StoreInv => StoredContentIsWhole
  <2> SUFFICES ASSUME StoreInv, NEW c \in stored
               PROVE  /\ target[c] # None
                      /\ data[target[c]] \in IF c \in overlapped THEN {c, None} ELSE {c}
    BY DEF StoredContentIsWhole
  <2>1. c \in Contents /\ target[c] # None /\ target[c] \in Files
    BY DEF StoreInv, StoredIsThere, TypeOK
  <2>2. Held(c, target[c])
    BY DEF Held
  <2>3. data[target[c]] \in {c, None}
    BY <2>1, <2>2 DEF StoreInv, FilesHoldTheirOwn
  <2>4. c \notin overlapped => data[target[c]] = c
    BY <2>1 DEF StoreInv, Quiet
  <2> QED
    BY <2>1, <2>3, <2>4
<1> QED
  BY <1>1, StoreInvariant, PTL

(* An address nobody is writing to any more is never written to again: a put  *)
(* that comes later finds it taken.  With one writer at a time that is so as  *)
(* soon as it is there.                                                       *)
LEMMA SettledStays ==
  ASSUME StoreInv, [Next]_vars, NEW c \in Contents, target[c] # None, Writers(c) = {}
  PROVE  target'[c] = target[c] /\ data'[target[c]] = data[target[c]] /\ Writers(c)' = {}
<1> USE DEF TemporaryName
<1>1. target[c] \in Files /\ Held(c, target[c])
  BY DEF StoreInv, TypeOK, Held
<1>2. CASE UNCHANGED vars
  BY <1>2 DEF vars, Writers
<1>3. ASSUME NEW p \in Putters, NEW d \in Contents, BeginPut(p, d)
      PROVE  UNCHANGED <<target, data>> /\ Writers(c)' = {}
  <2> DEFINE step == IF Exists(d) THEN "compare" ELSE "open"
  <2>1. /\ UNCHANGED <<target, data>>
        /\ GoOn(p, step, d, None)
        /\ step \in Steps
        /\ d = c => step = "compare"
    BY <1>3 DEF BeginPut, Exists, Steps
  <2> HIDE DEF step
  <2>2. /\ \A q \in Putters \ {p} : putter'[q] = putter[q]
        /\ putter'[p].step = step
        /\ putter'[p].content = d
    BY <2>1, GoOnMoves DEF StoreInv
  <2> QED
    BY <2>1, <2>2 DEF Writers, Writing
<1>4. ASSUME NEW p \in Putters, Compare(p) \/ Fail(p) \/ Die(p)
      PROVE  UNCHANGED <<target, data>> /\ Writers(c)' = {}
  <2>1. Finish(p) /\ UNCHANGED <<target, data>>
    BY <1>4 DEF Compare, Fail, Die
  <2> QED
    BY <2>1, FinishMoves DEF StoreInv, Writers
<1>5. ASSUME NEW p \in Putters, OpenTemporary(p) \/ Write(p) \/ MakeReadOnly(p) \/ Replace(p)
      PROVE  target'[c] = target[c] /\ data'[target[c]] = data[target[c]] /\ Writers(c)' = {}
  <2> DEFINE d == putter[p].content
  <2>1. putter[p] # Idle /\ d \in Contents /\ putter[p].step \in Writing
    BY <1>5, BusyType DEF StoreInv, OpenTemporary, Write, MakeReadOnly, Replace, At, Writing
  <2>2. d # c
    BY <2>1 DEF Writers
  <2>3. ASSUME NEW f \in Files, Held(d, f) \/ Unused(f)
        PROVE  f # target[c]
    BY <1>1, <2>1, <2>2, <2>3 DEF StoreInv, FilesAreApart, Unused
  <2>4. CASE Replace(p)
    <3>1. Finish(p) /\ target' = [target EXCEPT ![d] = temporary[d]] /\ UNCHANGED data
      BY <2>4 DEF Replace
    <3>2. Writers(c)' = {}
      BY <3>1, FinishMoves DEF StoreInv, Writers
    <3> QED
      BY <2>2, <3>1, <3>2 DEF StoreInv, TypeOK
  <2>5. CASE OpenTemporary(p) \/ Write(p) \/ MakeReadOnly(p)
    <3>1. UNCHANGED target
      BY <2>5 DEF OpenTemporary, Write, MakeReadOnly
    <3>2. \E step \in Steps, file \in Files \cup {None} : GoOn(p, step, d, file)
      <4>1. {"write", "chmod", "replace"} \subseteq Steps
        BY DEF Steps
      <4> QED
        BY <2>5, <4>1 DEF OpenTemporary, Write, MakeReadOnly
    <3>3. Writers(c)' = {}
      <4>1. putter'[p].content = d /\ \A q \in Putters \ {p} : putter'[q] = putter[q]
        BY <2>1, <3>2, GoOnMoves DEF StoreInv
      <4> QED
        BY <2>2, <4>1 DEF Writers
    <3>4. \/ UNCHANGED data
          \/ \E f \in Files, new \in {d, None} :
               (Held(d, f) \/ Unused(f)) /\ data' = [data EXCEPT ![f] = new]
      <4>1. CASE OpenTemporary(p)
        BY <4>1 DEF OpenTemporary, Held
      <4>2. CASE Write(p)
        <5>1. Held(d, putter[p].file) /\ putter[p].file \in Files
          BY <2>1, <4>2, BusyType DEF Held, StoreInv, PuttersHold, Holds, Write, At
        <5> QED
          BY <4>2, <5>1 DEF Write
      <4> QED
        BY <2>5, <4>1, <4>2 DEF MakeReadOnly
    <3>5. data'[target[c]] = data[target[c]]
      BY <1>1, <2>3, <3>4 DEF StoreInv, TypeOK
    <3> QED
      BY <3>1, <3>3, <3>5
  <2> QED
    BY <1>5, <2>4, <2>5
<1> QED
  BY <1>2, <1>3, <1>4, <1>5 DEF Next, Put

THEOREM AddressesComeToRest == Spec => AddressesSettle
<1>1. StoreInv /\ [Next]_vars =>
        [\A c \in Contents : target[c] # None /\ (c \in overlapped => Writers(c) = {}) =>
           /\ target'[c] = target[c]
           /\ data'[target[c]] = data[target[c]]
           /\ Writers(c)' = {}]_vars
  <2> SUFFICES ASSUME StoreInv, [Next]_vars, NEW c \in Contents,
                      target[c] # None, c \in overlapped => Writers(c) = {}
               PROVE  /\ target'[c] = target[c]
                      /\ data'[target[c]] = data[target[c]]
                      /\ Writers(c)' = {}
    OBVIOUS
  <2>1. c \notin overlapped => Writers(c) = {}
    BY DEF StoreInv, Quiet, Sound, Writers
  <2> QED
    BY <2>1, SettledStays
<1> QED
  BY <1>1, StoreInvariant, PTL DEF Spec, AddressesSettle
===============================================================================
