\* Two names, two specifications, and a client that iterates while the board changes.
\* The program ends in an endless recursion.
SPECIFICATION Spec
CONSTANTS
  Name = {"x", "y"}
  Specs <- MCSpecs
  MaxNames = 2
CHECK_DEADLOCK FALSE
INVARIANTS
  NamesAreGivenOnce
  
PROPERTIES
  EvaluationIsRight
  IsNamespace
