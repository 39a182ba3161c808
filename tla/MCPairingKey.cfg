SPECIFICATION Spec
CONSTANTS
  p1 = p1
  p2 = p2
  p3 = p3
  k1 = k1
  k2 = k2
  k3 = k3
  k4 = k4
  Starters = {p1, p2, p3}
  Apps = {p1, p2}
  Keys = {k1, k2, k3, k4}
  LegacyKey = LegacyKey
  Absent = Absent
  Partial = Partial
  None = None
SYMMETRY Symmetry
INVARIANTS
  StartedWithTheKey
PROPERTY
  KeyIsStable
