SPECIFICATION Spec
CONSTANTS
  Self = 1
  Others = {2}
  RoomInputs = {0, 1, 2}
  ChannelInputs = {1, 3, 5}
  FirstChannel = 0
  Garbage = {2}
  BufferSize = 2
  MaxTraffic = 2
  Patient = TRUE
  NoiseTypes = {}
  PollHoisted = TRUE
  ServerMayStop = TRUE
INVARIANTS ChannelAgreement KnowsItsRoom OnePromptAtATime OneSenderAtATime
PROPERTIES KeepsRoomView
CHECK_DEADLOCK FALSE
