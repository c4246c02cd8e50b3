SPECIFICATION FairSpec
CONSTANTS
  Self = 1
  Others = {2}
  RoomInputs = {0, 1}
  ChannelInputs = {1, 5}
  FirstChannel = 1
  Garbage = {2}
  BufferSize = 1
  MaxTraffic = 2
  Patient = FALSE
  NoiseTypes = {"CHANNEL_CHATTING", "ROOM_CHATTING", "NOTIFY_ENTER_ROOM", "NOTIFY_LEAVE_ROOM"}
  PollHoisted = FALSE
  ServerMayStop = FALSE
INVARIANTS TypeOK RequestsNameARoom IdKnownBeforeUse NoLostWakeup
PROPERTIES MenuComesBack
