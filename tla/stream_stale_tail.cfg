CONSTANTS
  BufSize = 6
  Wrap = 16
  Handled = {1, 2}
  Messages <- MCMessages
  MaxMessages = 3
  MaxReads = 4
  Fill <- MCZeroFill
SPECIFICATION StreamSpec
INVARIANT OnlyWhatWasReceived
