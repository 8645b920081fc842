SPECIFICATION Spec
CONSTANTS
  Nodes <- MCNodes
  tokensPerNode = 2
  MaxHash = 6
  Hashes <- MCHashes
INVARIANTS TypeOK NextNodeOnRing OrderIrrelevant
PROPERTIES OnlyNewNodeGains
CHECK_DEADLOCK FALSE
