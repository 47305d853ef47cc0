\* Up to three marks on pages of two.
SPECIFICATION Spec
CONSTANTS
  Word = {"a", "b", "c", "d"}
  Hash <- MCHash
  Bit = {1, 2, 3}
  Short = {0, 1}
  Long = {0, 1, 4}
  PageMarks = 2
  MaxMarks = 3
PROPERTY
  NothingPassedOver
CHECK_DEADLOCK FALSE
