SPECIFICATION Spec
CONSTANTS
  Idle = Idle
  None = None
  Contents = {c1, c2}
  Files = {f1, f2, f3, f4}
  Putters = {p1, p2}
  Privileged = FALSE
  MayDie = TRUE
INVARIANT StoredContentIsWhole
PROPERTY AddressesSettle
