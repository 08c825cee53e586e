SPECIFICATION Spec
CONSTANTS
  None = None
  Invalid = Invalid
  Error = Error
  Bound <- MCBound
  Root <- MCRoot
  Registries <- MCRegistries
CHECK_DEADLOCK FALSE
INVARIANT LocksAreAdmissible
INVARIANT NothingIsMissed
INVARIANT NothingIsBetter
INVARIANT DependenciesComeFirst
PROPERTY Terminates
