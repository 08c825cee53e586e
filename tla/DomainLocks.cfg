SPECIFICATION Spec
CONSTANTS
  root = root
  component = component
  acme = acme
  globex = globex
  alpha = alpha
  Platform = Platform
  Idle = Idle
  None = None
  PackageVersions = {root, component}
  Contents = {d1}
  Organizations = {acme, globex}
  Owner <- MCOwner
  Resolutions <- MCResolutions
  Projects = {alpha}
  OrganizationOf <- MCOrganizationOf
  InstallationIds = {i1, i2}
  LockIds = {l1, l2, l3}
  Handlers = {h1, h2}
  Keys = {k1, k2, k3}
  RegistryTargets = {}
  InstallationTargets = {}
  IfMatchAhead = 0
  ArchivableScopes = {}
SYMMETRY Symmetry
CHECK_DEADLOCK FALSE
INVARIANT TenantsStayApart
INVARIANT LockAuditIsTheChain
INVARIANT KeysAnswerForOneRequest
