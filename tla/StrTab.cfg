SPECIFICATION Spec
CONSTANTS
  Char <- MCChar
  NUL = "0"
  Strings <- MCStrings
INVARIANTS
  TypeOK
  HandedOffsetsResolve
  OffsetsStable
PROPERTY
  AppendOnly
