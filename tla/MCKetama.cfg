SPECIFICATION FairSpec
CONSTANTS
  node = 3
  vnode = 2
  MaxHash = 2
INVARIANTS
  LookupCorrect
  OnlyNewNodeTakes
PROPERTY LookupReturns
