SPECIFICATION Spec
CONSTANTS
  Nodes <- MCNodes
  Kids <- MCKids
  Roots <- MCRoots
  Flops <- MCFlops
  Contrib <- MCContrib
  Policies <- TightPolicies
  CoarseDepth = 2
  Main = Main
INVARIANT
  ChildrenFirst
