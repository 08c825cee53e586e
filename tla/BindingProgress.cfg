SPECIFICATION BindingSpec
CONSTANTS
  Idle = Idle
  None = None
  Installations = {pkg}
  Environments = {TEST}
  Permissions = {}
  ProjectRefs = {one, two}
  BindingRefs = {one, two}
  Keys = {k1, k2}
  Handlers = {h1, h2}
  Archivable = {one}
  Contention = "once"
  DyingSteps = {"audit"}
PROPERTY WritesEnd
VIEW Unaudited
