SPECIFICATION FairSpec
CONSTANTS
  Nodes <- MCNodes
  Kids <- MCKids
  Roots <- MCRoots
  Flops <- MCFlops
  Contrib <- MCContrib
  Policies <- MCPolicies
  CoarseDepth = 2
  Main = Main
INVARIANTS
  NodesAccounted
  ChildrenFirst
PROPERTY
  Returns
