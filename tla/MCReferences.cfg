\* Clients that do what the library expects.
SPECIFICATION Spec
CONSTANTS
  Box <- MCBox
  Source <- MCSource
  Path = {p}
  MaxChanges = 1
  Unmapped = FALSE
  Handle = {h1, h2}
  Chains <- MCChains
  MaxDepth = 3
  MaxViews = 1
  Risky = {}
INVARIANTS
  CountsAreRight
  BytesAreThere
  NothingIsLeft
SYMMETRY Alike
VIEW Seen
