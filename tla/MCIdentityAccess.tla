---------------------------- MODULE MCIdentityAccess ----------------------------
(***************************************************************************)
(* Small instances of IdentityAccess: an Organization with a Workspace and *)
(* a Project in it, the seeded operator of the platform, and one more.     *)
(***************************************************************************)
EXTENDS IdentityAccess, TLC

CONSTANTS root, ann, acme, lab, pilot

MCParent == (lab :> acme) @@ (pilot :> lab)

Grant(principal, scope, role) ==
  [principal |-> principal, scope |-> scope, role |-> role]

MCSeeded == {Grant(root, Platform, "ORG_OWNER")}
MCOwners == MCSeeded \cup {OwnerGrant(root, acme), OwnerGrant(ann, acme)}
MCGrants == MCOwners \cup {Grant(ann, pilot, "PROJECT_OWNER")}

Symmetry == Permutations(Handlers) \cup Permutations(Keys)
===============================================================================
