SPECIFICATION Spec
CONSTANTS
  root = root
  component = component
  acme = acme
  globex = globex
  alpha = alpha
  Platform = Platform
  Idle = Idle
  None = None
  PackageVersions = {root}
  Contents = {d1}
  Organizations = {acme}
  Owner <- MCOneOwner
  Resolutions <- MCOneResolution
  Projects = {alpha}
  OrganizationOf <- MCOrganizationOf
  InstallationIds = {i1, i2}
  LockIds = {l1, l2}
  Handlers = {h1, h2}
  Keys = {k1, k2}
  RegistryTargets = {"QUARANTINED", "WITHDRAWN"}
  InstallationTargets = {"REVOKED", "LOGICALLY_UNINSTALLED"}
  IfMatchAhead = 0
  ArchivableScopes = {alpha}
SYMMETRY Symmetry
CHECK_DEADLOCK FALSE
INVARIANT AuditsAreHistories
INVARIANT EffectsAreKeyed
INVARIANT ChecksOutliveTheirRead
PROPERTY UseSettles
PROPERTY ImplementsAtomicRegistry
PROPERTY CurrentLocksProtect
