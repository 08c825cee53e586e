SPECIFICATION Spec
CONSTANTS
  Idle = Idle
  None = None
  Platform = Platform
  root = root
  glossary = glossary
  note = note
  one = one
  two = two
  org = org
  other = other
  project = project
  key = key
  k1 = k1
  k2 = k2
  alice = alice
  PackageVersions = {root, glossary, note}
  Components = {glossary, note}
  Knowledge = {note}
  Owner <- MCOwner
  Organizations = {org, other}
  Projects = {project}
  OrganizationOf <- MCOrganizationOf
  InstallationIds = {one, two}
  Installed <- MCInstalled
  Entries <- MCEntries
  Position <- MCPosition
  Length <- MCLength
  ContextRequests <- MCContextRequests
  Candidates <- MCCandidates
  Assets = {a1}
  Keys = {key, k1, k2}
  Comparisons <- MCComparisons
  ActorOf <- MCActorOf
  KeysFor <- MCKeysFor
  Handlers = {h1, h2}
  Governed <- MCGoverned
  Archivable = {project}
  Selected <- MCSelected
  IfMatchAhead = 0
  MaxLocks = 2
  MaxKeys = 5
  MaxTroubles = 1
  Audited <- MCAudited
  MayDie = TRUE
SYMMETRY Symmetry
INVARIANT ContextIsTraceable
INVARIANT GroundedAnswersAreTraceable
INVARIANT OneManifestPerRequest
INVARIANT EffectsAreKeyed
INVARIANT ObjectsPrecedeVersions
INVARIANT AuditTellsWhatHappened
PROPERTY WithdrawalIsFinal
PROPERTY AtRiskLocksGetNoContext
CHECK_DEADLOCK FALSE
