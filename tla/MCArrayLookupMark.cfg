\* Lookups far from the items cached.
SPECIFICATION Spec
CONSTANTS
  Word = {"a", "b"}
  Hash <- MCHash
  Bit = {1, 2}
  Short = {0}
  Long = {0}
  PageMarks = 3
  PerMark = 2
  MaxTwin = 2
  Arrays <- MCSliced
  Left <- MCSliced
INVARIANT
  MarkExists
CHECK_DEADLOCK FALSE
