SPECIFICATION BindingSpec
CONSTANTS
  Idle = Idle
  None = None
  Installations = {pkg}
  Environments = {TEST}
  Permissions = {read}
  ProjectRefs = {one, two}
  BindingRefs = {one, two}
  Keys = {k1, k2}
  Handlers = {h1, h2}
  Archivable = {one}
  Contention = "once"
  DyingSteps = {"add", "readRelease", "addRelease", "saveRelease", "load", "update", "audit", "answer", "bind", "save"}
INVARIANT RowsAreSelfConsistent
INVARIANT AnswersAreTrue
INVARIANT BoundPackagesReferBack
INVARIANT EveryBindingHasItsKey
PROPERTY TerminalStatesLast
VIEW Unaudited
