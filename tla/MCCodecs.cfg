\* Every filter on every short buffer of a few bytes.
SPECIFICATION Spec
CONSTANTS
  ByteBits = 4
  GroupBits = 3
  SymbolBits = 3
  Width = 8
  IntegerSizes = {1, 2}
  Bad <- MCBad
  Plus <- MCPlus
  Minus <- MCMinus
  Pad <- MCPad
  DecodedMax = 8
  Inputs <- MCInputs
INVARIANTS
  ValuesAreRight
  ItemsAreSplit
CHECK_DEADLOCK FALSE
