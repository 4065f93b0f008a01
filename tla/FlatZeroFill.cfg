SPECIFICATION Spec
CONSTANTS
  Char = {"f"}
  NUL = "0"
  Sections <- FlatSections
  MaxSections = 1
  MaxCalls = 1
  Bases = {0}
INVARIANTS
  ZeroFillEmitted
