SPECIFICATION FairSpec
CONSTANTS
  Name = {c1, c2, c3}
  MaxLinks = 2
  Lists <- MCLists
  Links <- MCLinks
INVARIANTS
  TypeOK
  SortedDependenciesFirst
  PlanIsClosure
PROPERTIES
  ImplementsTopologicalOrder
  PlanEnds
CHECK_DEADLOCK FALSE
