\* Trackers on arrays and in slices, which those on some arrays also return from.
SPECIFICATION Spec
CONSTANTS
  Word = {"a", "b"}
  Hash <- MCHash
  Bit = {1, 2}
  Short = {0}
  Long = {0}
  PageMarks = 2
  PerMark = 2
  MaxTwin = 2
  Arrays <- MCBoth
  Left <- MCSliced
INVARIANTS
  OffsetIsRight
  CacheIsPrefix
PROPERTIES
  NthIsRight
  LookupIsRight
  CookieStaysValid
  Termination
CHECK_DEADLOCK FALSE
