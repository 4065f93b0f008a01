SPECIFICATION Spec
CONSTANTS
  Char <- Alphabet
  NUL = "0"
  Targets = {"AMD64", "ARM64"}
  Sections <- AllSections
  Within <- Lists
  MaxCalls <- Calls
  Versions = {"14.0"}
  Switch = {TRUE}
  Rank <- RankOf
  Half32 = 4096
  Word24 = 20
  Byte = 8
  NameRoom = 2
INVARIANTS
  TypeOK
  IndexSound
  RelocationsReach
  SymbolOrder
  LayoutHonest
PROPERTIES
  ImplementsBuilder
