SPECIFICATION Spec
CONSTANTS
  Idle = Idle
  None = None
  Installations = {pkg}
  Environments = {TEST}
  Permissions = {read}
  BindingRefs = {one}
  ProjectRefs = {}
  Handlers = {h1, h2}
  DyingSteps = {}
SYMMETRY Symmetry
PROPERTY RevocationIsTerminal
