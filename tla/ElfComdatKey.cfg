SPECIFICATION Spec
CONSTANTS
  Char <- Alphabet
  NUL = "0"
  Targets = {"AMD64", "X86"}
  Sections <- AllSections
  Within <- Alone
  MaxCalls <- Once
  Tuned <- Alone
  OSABIs = {}
  Switch = {}
  Rank <- RankOf
  Half32 = 4096
  Word16 = 65536
  Word24 = 16777216
  LoReserve = 65280
INVARIANTS
  KeyedOnFirstGlobal
