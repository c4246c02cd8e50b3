SPECIFICATION Spec
CONSTANTS
  IntBits = 12
  WideBits = 20
  MaxVarintBytes = 3
  Sources = {"whole", "cut", "any"}
  Ints <- MCInts
  Texts <- MCTexts
  Lists <- MCLists
  Unknowns <- MCUnknowns
  Leftovers <- MCLeftovers
  Bytes <- MCBytes
  MaxBytes = 3
  RecursionLimit = 2
INVARIANTS TypeOK RoundTrip SizeIsLength ReceivedPartIsRight
PROPERTIES ParseMovesOn
