\* Every graph of up to four dependencies between three nodes of one tag:
\* verdicts, termination and the abstract specification.
SPECIFICATION FairSpec
CONSTANTS
  Node = {a, b, c}
  NTags = 1
  Graphs <- MCPlainGraphs
  MaxRoots = 2
  MaxSessions = 1
PROPERTIES
  Termination
  ImplementsDepResolution
CHECK_DEADLOCK FALSE
