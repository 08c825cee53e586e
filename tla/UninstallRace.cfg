SPECIFICATION Spec
CONSTANTS
  root = root
  component = component
  acme = acme
  globex = globex
  alpha = alpha
  Platform = Platform
  Idle = Idle
  None = None
  PackageVersions = {root}
  Contents = {d1}
  Organizations = {acme}
  Owner <- MCOneOwner
  Resolutions <- MCOneResolution
  Projects = {alpha}
  OrganizationOf <- MCOrganizationOf
  InstallationIds = {i1}
  LockIds = {l1}
  Handlers = {h1, h2}
  Keys = {k1, k2}
  RegistryTargets = {}
  InstallationTargets = {"DISABLED", "REVOKED", "LOGICALLY_UNINSTALLED"}
  IfMatchAhead = 0
  ArchivableScopes = {}
SYMMETRY Symmetry
CHECK_DEADLOCK FALSE
INVARIANT UninstallBlockedByCurrentLock
