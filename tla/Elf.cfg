SPECIFICATION Spec
CONSTANTS
  Char <- Alphabet
  NUL = "0"
  Targets = {"AMD64", "ARM64", "RISCV64", "X86"}
  Sections <- AllSections
  Within <- Lists
  MaxCalls <- Calls
  Tuned <- Few
  OSABIs = {0, 3}
  Switch = {TRUE, FALSE}
  Rank <- RankOf
  Half32 = 4096
  Word16 = 14
  Word24 = 11
  LoReserve = 13
INVARIANTS
  TypeOK
  IndexSound
  LocalsFirst
  RelasSound
  IndicesHit
  WrittenWhereLaidOut
  ErrorsExact
  RelocationsBind
  SymbolTableComplete
  HeadersAgree
  GroupsSound
  NamesResolve
  OffsetsHonest
PROPERTIES
  Reproducible
  ImplementsBuilder
