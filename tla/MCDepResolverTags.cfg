\* Nodes with two tags, deferred requests, nodes handled as a whole; keys that
\* do not compile, and a second resolver on the nodes of the first one.
SPECIFICATION Spec
CONSTANTS
  Node = {a, b}
  NTags = 2
  Graphs <- MCAllGraphs
  MaxRoots = 1
  MaxSessions = 2
SYMMETRY Symmetry
INVARIANTS
  TypeOK
  ResolvedInOrder
  NothingForgotten
  ContinueIsSafe
  OkMeansResolved
  ProcessingIsChain
  ChainIsStack
  CircularIsReal
  ArgLifetime
CHECK_DEADLOCK FALSE
