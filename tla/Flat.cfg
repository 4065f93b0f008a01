SPECIFICATION Spec
CONSTANTS
  Char = {"f"}
  NUL = "0"
  Sections <- FlatSections
  MaxSections = 3
  MaxCalls = 2
  Bases = {0, 7}
INVARIANTS
  TypeOK
  PartialWritesHonest
  RefusedUntouched
PROPERTIES
  BaseIsInformational
  ImplementsBuilder
