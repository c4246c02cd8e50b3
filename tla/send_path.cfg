SPECIFICATION Spec
CONSTANTS
  Threads = {menu, recv}
  Sizes = {2, 3}
  Unset = Unset
  MaxCalls = 2
  menu = menu
  recv = recv
INVARIANTS TypeOK UndisturbedIsWhole NothingStale
PROPERTIES KeepsPacketLog
