SPECIFICATION Spec
CONSTANTS
  k1 = k1
  k2 = k2
  Keys = {k1, k2}
  NoKey = NoKey
  LegacyRows <- MCLegacyRows
  Offsets = {21, 22}
INVARIANTS
  CorrectionsStayReadable
