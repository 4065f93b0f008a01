SPECIFICATION Spec
CONSTANTS
  Char <- Alphabet
  NUL = "0"
  Targets = {"AMD64", "ARM64"}
  Sections <- AllSections
  Within <- Lists
  MaxCalls <- Calls
  Subsystems = {"efi"}
  Rank <- RankOf
  LongNames <- Long
  Half32 = 16384
  Word16 = 8
  Slash = 7
INVARIANTS
  TypeOK
  SlotsSound
  RelocationsBind
  TableWalks
  LayoutHonest
  AddendsKept
  ExportsListed
PROPERTIES
  Reproducible
  ImplementsBuilder
