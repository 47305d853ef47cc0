\* Boxes without attributes, with one, and with several that contradict.
SPECIFICATION Spec
CONSTANT Boxes <- AllBoxes
INVARIANTS
  TypeOK
  SizesNested
  OrderDoesNotMatter
PROPERTIES
  AnswersAreKnown
  Termination
