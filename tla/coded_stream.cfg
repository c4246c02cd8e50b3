SPECIFICATION Spec
CONSTANTS
  IntMax = 7
  MaxVarintBytes = 3
  Sizes <- MCSizes
  BlockSizes = {0, 1, 2}
  Counts <- MCCounts
  MaxLimits = 2
INVARIANTS TypeOK NeverAborts LeavesFirstUnread OneBlockIsAll
PROPERTIES IsByteCursor
