--------------------------- MODULE MCDomainRegistry ---------------------------
(***************************************************************************)
(* Small instances of DomainRegistry.  The registry holds a Domain root    *)
(* and a Component; the root resolves to itself alone or, with optional    *)
(* dependencies, to both.                                                  *)
(***************************************************************************)
EXTENDS DomainRegistry, TLC

CONSTANTS root, component, acme, globex, alpha

MCOwner == (root :> Platform) @@ (component :> acme)
MCOneOwner == (root :> Platform)
MCResolutions == (root :> {{root}, {root, component}}) @@ (component :> {})
MCOneResolution == (root :> {{root}})
MCOrganizationOf == (alpha :> acme)

Symmetry ==
  Permutations(Handlers) \cup Permutations(Keys)
    \cup Permutations(InstallationIds) \cup Permutations(LockIds)
===============================================================================
