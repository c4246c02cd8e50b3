SPECIFICATION Spec
CONSTANTS
  Self = 1
  Others = {2}
  RoomInputs = {1}
  ChannelInputs = {1, 5}
  FirstChannel = 0
  Garbage = {2}
  BufferSize = 1
  MaxTraffic = 2
  Patient = TRUE
  NoiseTypes = {"CHANNEL_CHATTING"}
  PollHoisted = FALSE
  ServerMayStop = FALSE
INVARIANTS OnlyIfTheRoomExists
