SPECIFICATION Spec
CONSTANTS
  root = root
  ann = ann
  acme = acme
  lab = lab
  pilot = pilot
  Platform = Platform
  Idle = Idle
  None = None
  Principals = {root, ann}
  Organizations = {acme}
  Workspaces = {lab}
  Projects = {pilot}
  Parent <- MCParent
  Grants <- MCGrants
  Seeded <- MCSeeded
  Handlers = {h1, h2}
  Keys = {k1}
  MaxVersion = 2
  ExpectedAhead = 0
  MayDie = FALSE
SYMMETRY Symmetry
CHECK_DEADLOCK FALSE
INVARIANT EveryOrganizationHasAnOwner
INVARIANT GrantsComeFromAuthority
INVARIANT KeysNameOneResource
INVARIANT ChangesAreAudited
PROPERTY NothingIsRevived
PROPERTY ArchivedSubtreesSettle
