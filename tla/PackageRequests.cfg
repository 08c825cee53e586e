SPECIFICATION Spec
CONSTANTS
  Idle = Idle
  None = None
  Installations = {pkg}
  Environments = {TEST}
  Permissions = {read}
  BindingRefs = {one}
  ProjectRefs = {}
  Handlers = {h1, h2}
  DyingSteps = {"add", "readRelease", "addRelease", "saveRelease", "load", "update", "answer"}
SYMMETRY Symmetry
INVARIANT ReleasedPackagesHaveReleases
INVARIANT StatesAreAudited
PROPERTY PackagesSettle
