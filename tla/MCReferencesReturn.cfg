\* A tracker leaves the box of an item that two filters made.
SPECIFICATION Spec
CONSTANTS
  Box <- MCDeepBox
  Source <- MCSource
  Path = {p}
  MaxChanges = 1
  Unmapped = FALSE
  Handle = {h1, h2}
  Chains <- MCDeepChains
  MaxDepth = 3
  MaxViews = 1
  Risky = {"leave"}
INVARIANT
  CountsAreRight
SYMMETRY Alike
