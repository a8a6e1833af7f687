SPECIFICATION FairSpec
CONSTANTS
  Null = Null
  Node = {root, a, b, c}
  Root = root
INVARIANTS NoDanglingPointer ClosedFromTheLeaves NothingLeaks
PROPERTIES CleaningEnds
