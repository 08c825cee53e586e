---------------------------- MODULE AtomicRegistry ----------------------------
(***************************************************************************)
(* What the domain registry promises its clients: every request that       *)
(* succeeds takes effect in one step, on the state it finds at that        *)
(* moment.  No threads, keys, versions or DomainLock rows, only the        *)
(* governed facts and, per Project, the installations selected for it in   *)
(* order.                                                                  *)
(*                                                                         *)
(* Not promised, because the code does not keep it: that the package       *)
(* versions are still REGISTERED_VALIDATED and the installation still      *)
(* usable at the moment an installation or a selection takes effect.       *)
(***************************************************************************)
EXTENDS Naturals, Sequences

CONSTANTS
  PackageVersions, Contents, Organizations, Platform, Owner,
  Projects, OrganizationOf, InstallationIds, None

VARIABLES
  registry,      \* per package version: its content and governance state
  installed,     \* per installation: what was resolved, and its state
  selections     \* per Project: the installations selected so far

AtomicInit ==
  /\ registry = [pv \in PackageVersions |-> None]
  /\ installed = [i \in InstallationIds |-> None]
  /\ selections = [p \in Projects |-> <<>>]

Register(pv, content) ==
  /\ registry[pv] = None
  /\ registry' = [registry EXCEPT ![pv] =
       [content |-> content, state |-> "REGISTERED_VALIDATED"]]
  /\ UNCHANGED <<installed, selections>>

(* Governance only ever takes away: a withdrawn version stays withdrawn. *)
Govern(pv, target) ==
  /\ registry[pv] # None
  /\ <<registry[pv].state, target>> \in
       {<<"REGISTERED_VALIDATED", "QUARANTINED">>,
        <<"REGISTERED_VALIDATED", "WITHDRAWN">>,
        <<"QUARANTINED", "WITHDRAWN">>}
  /\ registry' = [registry EXCEPT ![pv] =
       [content |-> registry[pv].content, state |-> target]]
  /\ UNCHANGED <<installed, selections>>

(* One installation per Organization, root and node set, of known and visible *)
(* package versions.                                                          *)
Install(i, organization, root, refs) ==
  /\ installed[i] = None
  /\ \A pv \in refs : registry[pv] # None /\ Owner[pv] \in {Platform, organization}
  /\ \A other \in InstallationIds :
       \/ installed[other] = None
       \/ installed[other].organization # organization
       \/ installed[other].root # root
       \/ installed[other].refs # refs
  /\ installed' = [installed EXCEPT ![i] =
       [organization |-> organization, root |-> root, refs |-> refs,
        state |-> "INSTALLED_DISABLED"]]
  /\ UNCHANGED <<registry, selections>>

GovernInstallation(i, target) ==
  /\ installed[i] # None
  /\ <<installed[i].state, target>> \in
       {<<"INSTALLED_DISABLED", "DISABLED">>, <<"INSTALLED_DISABLED", "REVOKED">>,
        <<"DISABLED", "REVOKED">>, <<"DISABLED", "LOGICALLY_UNINSTALLED">>,
        <<"REVOKED", "LOGICALLY_UNINSTALLED">>}
  /\ installed' = [installed EXCEPT ![i] =
       [organization |-> installed[i].organization, root |-> installed[i].root,
        refs |-> installed[i].refs, state |-> target]]
  /\ UNCHANGED <<registry, selections>>

(* A selection is of the Project's own Organization and changes something. *)
Select(p, i) ==
  /\ installed[i] # None
  /\ installed[i].organization = OrganizationOf[p]
  /\ selections[p] # <<>> => selections[p][Len(selections[p])] # i
  /\ selections' = [selections EXCEPT ![p] = Append(selections[p], i)]
  /\ UNCHANGED <<registry, installed>>

AtomicNext ==
  \/ \E pv \in PackageVersions, content \in Contents : Register(pv, content)
  \/ \E pv \in PackageVersions, target \in {"QUARANTINED", "WITHDRAWN"} : Govern(pv, target)
  \/ \E i \in InstallationIds, organization \in Organizations, root \in PackageVersions,
        refs \in SUBSET PackageVersions : Install(i, organization, root, refs)
  \/ \E i \in InstallationIds, target \in {"DISABLED", "REVOKED", "LOGICALLY_UNINSTALLED"} :
       GovernInstallation(i, target)
  \/ \E p \in Projects, i \in InstallationIds : Select(p, i)

atomicVars == <<registry, installed, selections>>

AtomicSpec == AtomicInit /\ [][AtomicNext]_atomicVars
===============================================================================
