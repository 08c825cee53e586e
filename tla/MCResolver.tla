------------------------------ MODULE MCResolver ------------------------------
(***************************************************************************)
(* All the registries that can be made of a small pool of manifests: a     *)
(* root in two versions, and packages 2, 3 and 4 it may come to need.      *)
(***************************************************************************)
EXTENDS Resolver

Reference(package, from, to) ==
  [package |-> package, from |-> from, to |-> to, kind |-> None, expects |-> {}]
Requires(package, from, to) == Reference(package, from, to) @@ [required |-> TRUE]
Asks(package, from, to) == Reference(package, from, to) @@ [required |-> FALSE]
Expecting(reference, something) == [reference EXCEPT !.expects = {something}]

(* What a package uses itself, and what a root gives n packages to use.       *)
Use == [cpu_millis |-> 1, memory_mib |-> 1, max_output_bytes |-> 1,
        timeout_seconds |-> 1, access |-> {}]
ForSome(n) == [Use EXCEPT !.cpu_millis = n, !.memory_mib = 4, !.max_output_bytes = 4]

Plain(id, version, requires) ==
  [id |-> id, version |-> version, kind |-> "DOMAIN", visibility |-> "PUBLIC",
   compatible |-> TRUE, requires |-> requires, conflicts |-> {}, excludes |-> {},
   provides |-> {}, traits |-> {}, needs |-> {}, permissions |-> {}, accepts |-> {},
   budget |-> Use, allowance |-> ForSome(0)]

MCBound == [field \in SummedFields |-> 4]

MCRoot == Reference(1, 1, 2)

Pool ==
  { (* the root: two Domains, and a Scenario that needs a capability *)
    [Plain(1, 1, {Requires(2, 1, 2), Asks(3, 1, 3)}) EXCEPT
       !.allowance = ForSome(2), !.accepts = {"read"}, !.visibility = "PARTNER"],
    [Plain(1, 2, {Requires(2, 1, 2), Expecting(Requires(3, 1, 3), "parser")}) EXCEPT
       !.allowance = [ForSome(3) EXCEPT !.access = {"network"}],
       !.permissions = {"read"}, !.visibility = "PRIVATE"],
    [Plain(1, 2, {Requires(2, 1, 2), Asks(4, 1, 1)}) EXCEPT
       !.kind = "SCENARIO", !.needs = {"billing"}, !.accepts = {"read"},
       !.allowance = [ForSome(1) EXCEPT !.access = {"network"}]],
    (* package 2: the higher version asks for more *)
    [Plain(2, 1, {Expecting(Asks(4, 2, 2), "digest")}) EXCEPT
       !.provides = {"billing"}, !.visibility = "PARTNER"],
    [Plain(2, 2, {Requires(3, 1, 2), Asks(4, 1, 1)}) EXCEPT !.permissions = {"read"}],
    (* package 3: Components *)
    [Plain(3, 1, {Requires(4, 1, 2)}) EXCEPT
       !.kind = "COMPONENT", !.provides = {"mail"}, !.traits = {"parser"},
       !.budget = [Use EXCEPT !.memory_mib = 2]],
    [Plain(3, 2, {}) EXCEPT
       !.conflicts = {[package |-> 2, from |-> 1, to |-> 1]}, !.excludes = {"mail"},
       !.kind = "COMPONENT", !.budget = [Use EXCEPT !.timeout_seconds = 2]],
    [Plain(3, 3, {}) EXCEPT !.kind = "COMPONENT", !.traits = {"parser"}],
    (* package 4 may depend on package 2 in turn *)
    [Plain(4, 1, {Asks(2, 1, 2)}) EXCEPT
       !.provides = {"mail"}, !.budget = [Use EXCEPT !.memory_mib = 3]],
    [Plain(4, 1, {}) EXCEPT !.compatible = FALSE],
    [Plain(4, 2, {}) EXCEPT
       !.visibility = "ORGANIZATION_PRIVATE", !.traits = {"digest"},
       !.budget = [Use EXCEPT !.access = {"network"}]],
    [Plain(4, 2, {}) EXCEPT !.kind = "ORGANIZATION_OVERLAY"] }

MCRegistries == SUBSET Pool
===============================================================================
