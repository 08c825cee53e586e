------------------------------ MODULE ObjectStore ------------------------------
(***************************************************************************)
(* The content-addressed file store (ContentAddressedFileStore).           *)
(*                                                                         *)
(* A content is kept under its digest.  put() writes it to a temporary     *)
(* file next to its address, makes that file read-only and renames it.     *)
(* The name of the temporary file is made from the digest, so all who put  *)
(* the same content share it, and so do those who come after a crash.      *)
(*                                                                         *)
(* Files are what open() returns: a file is still written through after    *)
(* its name was taken away.  A file holds one whole content or none;       *)
(* a part of a content is no content.                                      *)
(***************************************************************************)
EXTENDS FiniteSets

CONSTANTS
  Contents,        \* contents, which stand for their digests
  Files,           \* files there may ever be (a bound)
  Putters,         \* threads inside put() (a bound)
  Privileged,      \* whether the process may write to read-only files
  MayDie,          \* whether a thread may die inside put()
  Idle,
  None

Work ==
  [step: {"compare", "open", "write", "chmod", "replace"}, content: Contents,
   file: Files \cup {None}]

ASSUME ObjectAssumption ==
  /\ {Privileged, MayDie} \subseteq BOOLEAN
  /\ None \notin Contents \cup Files
  /\ Idle \notin Work

Writing == {"open", "write", "chmod", "replace"}  \* past the look at the address

VARIABLES
  target,          \* the file at the address of a content
  temporary,       \* the file under a temporary name
  data,            \* what a file holds
  readonly,        \* files that were made read-only
  putter,          \* where each put is
  stored,          \* contents some put of which has returned
  overlapped       \* history: contents that two puts were writing at a time

vars == <<target, temporary, data, readonly, putter, stored, overlapped>>

Init ==
  /\ target = [c \in Contents |-> None]
  /\ temporary = [c \in Contents |-> None]
  /\ data = [f \in Files |-> None]
  /\ readonly = {}
  /\ putter = [p \in Putters |-> Idle]
  /\ stored = {}
  /\ overlapped = {}

-------------------------------------------------------------------------------
(* A definition named Faulty... is a wrong variant of the one that follows.   *)

GoOn(p, step, c, file) ==
  putter' = [putter EXCEPT ![p] = [step |-> step, content |-> c, file |-> file]]

At(p, step) == putter[p] # Idle /\ putter[p].step = step

Finish(p) == putter' = [putter EXCEPT ![p] = Idle]

FaultyTemporaryName(c) == CHOOSE one \in Contents : TRUE  \* one name for all
TemporaryName(c) == c

Exists(c) == target[c] # None

Unused(f) ==
  /\ \A c \in Contents : f \notin {target[c], temporary[c]}
  /\ \A p \in Putters : putter[p] # Idle => putter[p].file # f

Writers(c) ==
  {p \in Putters : putter[p] # Idle /\ putter[p].content = c /\ putter[p].step \in Writing}

BeginPut(p, c) ==
  /\ putter[p] = Idle
  /\ GoOn(p, IF Exists(c) THEN "compare" ELSE "open", c, None)
  /\ overlapped' = IF Exists(c) \/ Writers(c) = {} THEN overlapped ELSE overlapped \cup {c}
  /\ UNCHANGED <<target, temporary, data, readonly, stored>>

(* What is there already is the answer, if it is the same.                    *)
Compare(p) ==
  LET c == putter[p].content IN
  /\ At(p, "compare")
  /\ stored' = IF data[target[c]] = c THEN stored \cup {c} ELSE stored
  /\ Finish(p)
  /\ UNCHANGED <<target, temporary, data, readonly, overlapped>>

(* write_bytes opens and truncates the file, or creates it; then it writes.   *)
Writable(f) == f \notin readonly \/ Privileged

OpenTemporary(p) ==
  LET c == putter[p].content
      name == TemporaryName(c) IN
  /\ At(p, "open")
  /\ \E f \in Files :
       /\ IF temporary[name] = None THEN Unused(f) ELSE f = temporary[name] /\ Writable(f)
       /\ temporary' = [temporary EXCEPT ![name] = f]
       /\ data' = [data EXCEPT ![f] = None]
       /\ readonly' = IF temporary[name] = None THEN readonly \ {f} ELSE readonly
       /\ GoOn(p, "write", c, f)
  /\ UNCHANGED <<target, stored, overlapped>>

Write(p) ==
  LET c == putter[p].content IN
  /\ At(p, "write")
  /\ data' = [data EXCEPT ![putter[p].file] = c]
  /\ GoOn(p, "chmod", c, None)
  /\ UNCHANGED <<target, temporary, readonly, stored, overlapped>>

MakeReadOnly(p) ==
  LET c == putter[p].content
      file == temporary[TemporaryName(c)] IN
  /\ At(p, "chmod")
  /\ file # None
  /\ readonly' = readonly \cup {file}
  /\ GoOn(p, "replace", c, None)
  /\ UNCHANGED <<target, temporary, data, stored, overlapped>>

Replace(p) ==
  LET c == putter[p].content
      name == TemporaryName(c) IN
  /\ At(p, "replace")
  /\ temporary[name] # None
  /\ target' = [target EXCEPT ![c] = temporary[name]]
  /\ temporary' = [temporary EXCEPT ![name] = None]
  /\ stored' = stored \cup {c}
  /\ Finish(p)
  /\ UNCHANGED <<data, readonly, overlapped>>

(* The temporary file may not be written to, or was renamed by another thread.*)
Fail(p) ==
  LET name == TemporaryName(putter[p].content) IN
  /\ \/ At(p, "open") /\ temporary[name] # None /\ ~Writable(temporary[name])
     \/ At(p, "chmod") /\ temporary[name] = None
     \/ At(p, "replace") /\ temporary[name] = None
  /\ Finish(p)
  /\ UNCHANGED <<target, temporary, data, readonly, stored, overlapped>>

Die(p) ==
  /\ MayDie
  /\ putter[p] # Idle
  /\ Finish(p)
  /\ UNCHANGED <<target, temporary, data, readonly, stored, overlapped>>

Put(p) ==
  \/ Compare(p)
  \/ OpenTemporary(p)
  \/ Write(p)
  \/ MakeReadOnly(p)
  \/ Replace(p)
  \/ Fail(p)

Next == \E p \in Putters : (\E c \in Contents : BeginPut(p, c)) \/ Put(p) \/ Die(p)

Spec == Init /\ [][Next]_vars

-------------------------------------------------------------------------------
(* Properties. *)

TypeOK ==
  /\ target \in [Contents -> Files \cup {None}]
  /\ temporary \in [Contents -> Files \cup {None}]
  /\ data \in [Files -> Contents \cup {None}]
  /\ readonly \subseteq Files
  /\ putter \in [Putters -> Work \cup {Idle}]
  /\ stored \subseteq Contents
  /\ overlapped \subseteq Contents

(* Wherever puts die, and whatever a later one finds of them: what put() has  *)
(* returned for is at its address, whole unless two threads were writing it   *)
(* at a time; and never, even then, does an address lead to another content.  *)
StoredContentIsWhole ==
  \A c \in stored :
    /\ target[c] # None
    /\ data[target[c]] \in IF c \in overlapped THEN {c, None} ELSE {c}

(* Once nobody is left that found the address free, what is there stays as it *)
(* is for ever.  Unless two threads were writing it at a time, that is from   *)
(* the moment it is there.                                                    *)
AddressesSettle ==
  [][\A c \in Contents : target[c] # None /\ (c \in overlapped => Writers(c) = {}) =>
       /\ target'[c] = target[c]
       /\ data'[target[c]] = data[target[c]]
       /\ Writers(c)' = {}]_vars

(* An address holds the same bytes for ever, from the moment it is there.     *)
AddressesAreImmutable ==
  [][\A c \in Contents : target[c] # None =>
       target'[c] # None /\ data'[target'[c]] = data[target[c]]]_vars
===============================================================================
