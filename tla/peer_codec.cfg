SPECIFICATION Spec
CONSTANTS
  Xor16 <- MCXor16
  Nodes <- ThreeNodes
  Ring <- MCRing
  Stack <- Leftovers
  Ids <- BoundaryIds
  Heap = {0, 77}
  Keys <- MCKeys
  Behind <- MCBehind
  MaxLength = 25
INVARIANTS ReadsAsSent TakenForPeer InteriorOnly ReadsKeyOnly EveryByteCounts TestedBytes
PROPERTIES FoundLookup LookupAnswered StraysCirculate
