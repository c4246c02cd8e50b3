CONSTANTS
  BufSize = 6
  Wrap = 16
  Handled = {1, 2}
  Messages <- MCMessages
  MaxMessages = 3
  MaxReads = 3
  Fill <- MCAnyFill
SPECIFICATION StreamFairSpec
INVARIANTS TypeOK PayloadsApart WholeMessagesFirst CutMessageIsOne
PROPERTIES PassEnds
