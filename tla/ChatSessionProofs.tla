-------------------------- MODULE ChatSessionProofs -------------------------
(***************************************************************************)
(* Theorems about ChatSession for every value of its constants.            *)
(***************************************************************************)
EXTENDS ChatSession, TLAPS, SequenceTheorems

-----------------------------------------------------------------------------
(* Facts about the operators the model is built from.                      *)

(* A part of a sequence is a sequence over the same set.                   *)
LEMMA SubSeqType ==
    ASSUME NEW S, NEW s \in Seq(S), NEW m \in Nat \ {0}, NEW n \in Nat, n <= Len(s)
    PROVE  /\ SubSeq(s, m, n) \in Seq(S)
           /\ Len(SubSeq(s, m, n)) = IF m <= n THEN n - m + 1 ELSE 0
           /\ \A i \in 1..Len(SubSeq(s, m, n)) : SubSeq(s, m, n)[i] = s[m + i - 1]
<1>1. \A i \in m..n : s[i] \in S
  OBVIOUS
<1>2. QED
  BY <1>1, SubSeqProperties

(* What a read leaves in the receive buffer consists of messages only.     *)
LEMMA OverwriteType ==
    ASSUME NEW buffer \in Seq(Notice), NEW fresh \in Seq(Notice)
    PROVE  Overwrite(buffer, fresh) \in Seq(Notice)
<1> DEFINE tail == SubSeq(buffer, Len(fresh) + 1, Len(buffer))
<1>1. tail \in Seq(Notice)
  BY SubSeqType
<1>2. QED
  BY <1>1, ConcatProperties DEF Overwrite

(* The packets the client builds have the shape of a request.              *)
LEMMA PacketTypes ==
    /\ LoginPacket \in Request /\ NoPacket \in Request
    /\ ChannelChattingPacket \in Request /\ RoomChattingPacket \in Request
    /\ \A i \in Int : /\ ChannelMovePacket(i) \in Request
                      /\ CreateRoomPacket(i) \in Request
                      /\ RoomUserListPacket(i) \in Request
                      /\ EnterRoomPacket(i) \in Request
                      /\ LeaveRoomPacket(i) \in Request
BY DEF LoginPacket, NoPacket, ChannelChattingPacket, RoomChattingPacket,
      ChannelMovePacket, CreateRoomPacket, RoomUserListPacket, EnterRoomPacket,
      LeaveRoomPacket, Request, RequestType

(* The messages the server builds have the shape of a notice.              *)
LEMMA NoticeOfType ==
    ASSUME NEW type \in NoticeType, NEW id \in Int, NEW index \in Int,
           NEW flag \in BOOLEAN
    PROVE  NoticeOf(type, id, index, flag) \in Notice
BY DEF NoticeOf, Notice

(* The message under the parse position, and its fields.                   *)
LEMMA MsgType ==
    ASSUME TypeOK, pos <= Len(recv_buffer)
    PROVE  /\ Msg \in Notice
           /\ Msg.type \in NoticeType /\ Msg.id \in Int
           /\ Msg.index \in Int /\ Msg.flag \in BOOLEAN
           /\ pos + 1 \in 1..Len(recv_buffer) + 1
<1>1. pos \in 1..Len(recv_buffer) /\ recv_buffer \in Seq(Notice)
  BY DEF TypeOK
<1>2. Msg \in Notice
  BY <1>1 DEF Msg
<1>3. QED
  BY <1>1, <1>2 DEF Notice

(* The request the server takes, and what is left of the others.           *)
LEMMA TakesType ==
    ASSUME TypeOK, NEW type, Takes(type)
    PROVE  /\ Request1 \in Request /\ Request1.index \in Int
           /\ outbound' \in Seq(Request)
<1>1. outbound \in Seq(Request) /\ outbound # <<>> /\ outbound' = Tail(outbound)
  BY DEF TypeOK, Takes
<1>2. Request1 \in Request /\ outbound' \in Seq(Request)
  BY <1>1, HeadTailProperties DEF Request1
<1>3. QED
  BY <1>2 DEF Request

(* Sending and answering keep the queues typed.                            *)
LEMMA TransmitType ==
    ASSUME TypeOK, NEW packet \in Request, Transmit(packet)
    PROVE  outbound' \in Seq(Request) /\ inbound' \in Seq(Notice)
           /\ socket' \in {"open", "eof", "reset", "aborted", "closed"}
BY AppendProperties DEF TypeOK, Transmit

(* A message of the server leaves inbound a sequence of messages.          *)
LEMMA SayType ==
    ASSUME TypeOK, NEW notice \in Notice, Say(notice)
    PROVE  inbound' \in Seq(Notice)
BY AppendProperties DEF TypeOK, Say

-----------------------------------------------------------------------------
(* Type correctness.                                                       *)

(* The initial state has the right types, whatever the uninitialised       *)
(* members hold.                                                           *)
LEMMA TypeInit == Init => TypeOK
<1> USE SessionAssumption
<1> SUFFICES ASSUME Init PROVE TypeOK
  OBVIOUS
<1>1. menuPc \in MenuPc /\ req \in Request /\ recvPc \in RecvPc
  BY PacketTypes DEF Init, MenuPc, RecvPc
<1>2. my_id \in Int /\ channel_index \in Int /\ srvRooms \subseteq Int /\ srvChannel \in Int
  BY DEF Init, Rooms
<1>3. /\ recv_buffer \in Seq(Notice) /\ pos \in 1..Len(recv_buffer) + 1
      /\ inbound \in Seq(Notice) /\ outbound \in Seq(Request)
  BY DEF Init
<1>4. /\ menu_enable \in BOOLEAN /\ recv_start \in BOOLEAN /\ loggedIn \in BOOLEAN
      /\ recvPc = "recv" /\ socket = "open" /\ room_index = 0 /\ srvRoom = 0
  BY DEF Init
<1>5. QED
  BY <1>1, <1>2, <1>3, <1>4 DEF TypeOK

(* Every step keeps the types.                                             *)
LEMMA TypeStep == TypeOK /\ [Next]_vars => TypeOK'
<1> USE SessionAssumption
<1> SUFFICES ASSUME TypeOK, [Next]_vars PROVE TypeOK'
  OBVIOUS
<1> USE DEF TypeOK, shared, menu, recv, wire, server
<1>1. CASE Login
  BY <1>1, PacketTypes DEF Login, Prepare, MenuPc
<1>2. CASE MenuPoll
  BY <1>2 DEF MenuPoll, MenuPc
<1>3. CASE MenuPollHoisted
  BY <1>3 DEF MenuPollHoisted, MenuPc
<1>4. ASSUME NEW entry \in MENU_SELECT, Choose(entry) PROVE TypeOK'
  BY <1>4 DEF Choose, MenuPc, Refused
<1>5. ASSUME NEW ch \in ChannelInputs, ChannelMove(ch) PROVE TypeOK'
  BY <1>5, PacketTypes DEF ChannelMove, Prepare, MenuPc
<1>6. ASSUME NEW room \in RoomInputs, RoomCreate(room) PROVE TypeOK'
  BY <1>6, PacketTypes DEF RoomCreate, Prepare, BackToPoll, MenuPc
<1>7. ASSUME NEW room \in RoomInputs, EnterRoomInit(room) PROVE TypeOK'
  BY <1>7, PacketTypes DEF EnterRoomInit, Prepare, MenuPc
<1>8. CASE DisableForUserList
  BY <1>8 DEF DisableForUserList, MenuPc
<1>9. CASE InRoomUserList
  BY <1>9, PacketTypes DEF InRoomUserList, Prepare, MenuPc
<1>10. CASE ChannelChat
  BY <1>10, PacketTypes DEF ChannelChat, Prepare, MenuPc
<1>11. CASE RoomChat
  BY <1>11, PacketTypes DEF RoomChat, Prepare, MenuPc
<1>12. CASE LeaveRoom
  BY <1>12, PacketTypes DEF LeaveRoom, Prepare, MenuPc
<1>13. CASE Send
  BY <1>13, PacketTypes, TransmitType DEF Send, AfterSend, MenuPc
<1>14. CASE ChannelMoved
  BY <1>14, PacketTypes DEF ChannelMoved, Request, MenuPc
<1>15. CASE ChannelChatted
  BY <1>15 DEF ChannelChatted, MenuPc
<1>16. CASE RoomLeft
  BY <1>16 DEF RoomLeft, MenuPc
<1>17. CASE ExitServer
  BY <1>17 DEF ExitServer, MenuPc
<1>18. CASE Exit
  BY <1>18 DEF Exit, MenuPc
<1>19. CASE WSARecv
  <2>1. PICK k \in 1..BufferSize :
           /\ k <= Len(inbound)
           /\ recv_buffer' = Overwrite(recv_buffer, SubSeq(inbound, 1, k))
           /\ inbound' = SubSeq(inbound, k + 1, Len(inbound))
    BY <1>19 DEF WSARecv
  <2>2. SubSeq(inbound, 1, k) \in Seq(Notice) /\ inbound' \in Seq(Notice)
    BY <2>1, SubSeqType
  <2>3. recv_buffer' \in Seq(Notice)
    BY <2>1, <2>2, OverwriteType
  <2>4. QED
    BY <1>19, <2>2, <2>3 DEF WSARecv, RecvPc
<1>20. CASE WSARecvZero
  BY <1>20 DEF WSARecvZero, RecvPc, RecvAt
<1>21. CASE WSARecvError
  BY <1>21 DEF WSARecvError, RecvPc
<1>22. CASE ProcessEnterChannel
  BY <1>22 DEF ProcessEnterChannel, EnableMenu, GoTo, Handling, AtMessage,
        RecvPc
<1>23. CASE StoreIdAndChannel
  BY <1>23, MsgType DEF StoreIdAndChannel, NextMessage, RecvAt, RecvPc
<1>24. CASE ProcessNotify
  BY <1>24, MsgType DEF ProcessNotify, NextMessage, Handling, AtMessage, RecvPc
<1>25. CASE ProcessChatOrList
  BY <1>25, MsgType DEF ProcessChatOrList, EnableMenu, NextMessage, Handling,
        AtMessage, RecvPc
<1>26. CASE ProcessEnterRoom
  BY <1>26, MsgType DEF ProcessEnterRoom, NextMessage, Handling, AtMessage,
        RecvPc
<1>27. CASE ProcessRoomCreated
  BY <1>27 DEF ProcessRoomCreated, EnableMenu, GoTo, Handling, AtMessage,
        RecvPc
<1>28. CASE ProcessRoomExists
  BY <1>28 DEF ProcessRoomExists, GoTo, Handling, AtMessage, RecvPc
<1>29. CASE AnswerYes
  BY <1>29 DEF AnswerYes, GoTo, RecvAt, RecvPc
<1>30. CASE AnswerNo
  BY <1>30, MsgType DEF AnswerNo, EnableMenu, NextMessage, 
        RecvAt, RecvPc
<1>31. CASE SendEnterRoom
  BY <1>31, MsgType, PacketTypes, TransmitType DEF SendEnterRoom, GoTo, RecvAt,
        RecvPc
<1>32. CASE EnterRoomSent
  BY <1>32 DEF EnterRoomSent, EnableMenu, GoTo, RecvAt, RecvPc
<1>33. CASE StoreRoom
  BY <1>33, MsgType DEF StoreRoom, NextMessage, RecvAt, RecvPc
<1>34. CASE AfterBatch
  <2>1. recv_buffer' \in Seq(Notice) /\ pos' = 1
    BY <1>34 DEF AfterBatch
  <2>2. QED
    BY <1>34, <2>1 DEF AfterBatch, RecvPc
<1>35. CASE ServerLogin
  BY <1>35, TakesType, NoticeOfType, SayType DEF ServerLogin, Takes, NoticeType
<1>36. CASE ServerChangeChannel
  BY <1>36, TakesType, NoticeOfType, SayType DEF ServerChangeChannel, Takes,
        NoticeType
<1>37. CASE ServerCreateRoom
  <2>1. Takes("CREATE_ROOM") /\ Request1.index \in Int /\ outbound' \in Seq(Request)
    BY <1>37, TakesType DEF ServerCreateRoom
  <2>2. NoticeOf("NOTIFY_EXIST_ROOM", 0, Request1.index, Request1.index \in srvRooms) \in Notice
    BY <2>1, (Request1.index \in srvRooms) \in BOOLEAN DEF NoticeOf, Notice,
          NoticeType
  <2>3. inbound' \in Seq(Notice)
    BY <1>37, <2>2, SayType DEF ServerCreateRoom
  <2>4. srvRoom' \in Int /\ srvRooms' \subseteq Int
    BY <1>37, <2>1 DEF ServerCreateRoom
  <2>5. QED
    BY <1>37, <2>1, <2>3, <2>4 DEF ServerCreateRoom, Takes
<1>38. CASE ServerEnterRoom
  <2>1. Takes("ENTER_ROOM") /\ Request1.index \in Int /\ outbound' \in Seq(Request)
    BY <1>38, TakesType DEF ServerEnterRoom
  <2>2. NoticeOf("ENTER_ROOM", 0, Request1.index, Request1.index \in srvRooms) \in Notice
    BY <2>1, (Request1.index \in srvRooms) \in BOOLEAN DEF NoticeOf, Notice,
          NoticeType
  <2>3. inbound' \in Seq(Notice)
    BY <1>38, <2>2, SayType DEF ServerEnterRoom
  <2>4. srvRoom' \in Int /\ srvRooms' \subseteq Int
    BY <1>38, <2>1 DEF ServerEnterRoom
  <2>5. QED
    BY <1>38, <2>1, <2>3, <2>4 DEF ServerEnterRoom, Takes
<1>39. CASE ServerLeaveRoom
  BY <1>39, TakesType DEF ServerLeaveRoom, Takes
<1>40. CASE ServerReply
  <2>1. PICK type \in RequestType : Takes(type)
    BY <1>40 DEF ServerReply, RequestType
  <2>2. Request1.index \in Int /\ outbound' \in Seq(Request)
    BY <2>1, TakesType
  <2>3. /\ NoticeOf("ROOM_LIST", 0, Request1.index, FALSE) \in Notice
        /\ NoticeOf("ROOM_CHATTING", Self, 0, FALSE) \in Notice
        /\ NoticeOf("CHANNEL_CHATTING", Self, 0, FALSE) \in Notice
    BY <2>2 DEF NoticeOf, Notice, NoticeType
  <2>4. inbound' \in Seq(Notice)
    BY <1>40, <2>3, SayType DEF ServerReply
  <2>5. QED
    BY <1>40, <2>1, <2>2, <2>4 DEF ServerReply, Takes
<1>41. CASE OtherSpeaks
  <2>1. PICK u \in Others, type \in NoiseTypes : Say(NoticeOf(type, u, 0, FALSE))
    BY <1>41 DEF OtherSpeaks
  <2>2. NoticeOf(type, u, 0, FALSE) \in Notice
    BY DEF NoticeOf, Notice, NoticeType
  <2>3. inbound' \in Seq(Notice)
    BY <2>1, <2>2, SayType
  <2>4. QED
    BY <1>41, <2>3 DEF OtherSpeaks, OthersActive
<1>42. CASE OtherOpensRoom
  BY <1>42 DEF OtherOpensRoom, OthersActive, Rooms
<1>43. CASE OtherClosesRoom
  BY <1>43 DEF OtherClosesRoom, OthersActive
<1>44. CASE ServerStops
  BY <1>44 DEF ServerStops
<1>45. CASE UNCHANGED vars
  BY <1>45 DEF vars
<1>46. QED
  BY <1>1, <1>2, <1>3, <1>4, <1>5, <1>6, <1>7, <1>8, <1>9, <1>10,
     <1>11, <1>12, <1>13, <1>14, <1>15, <1>16, <1>17, <1>18, <1>19, <1>20,
     <1>21, <1>22, <1>23, <1>24, <1>25, <1>26, <1>27, <1>28, <1>29, <1>30,
     <1>31, <1>32, <1>33, <1>34, <1>35, <1>36, <1>37, <1>38, <1>39, <1>40,
     <1>41, <1>42, <1>43, <1>44, <1>45
     DEF Next, UserStep, MenuStep, RecvStep, ServerStep, OthersStep, Terminated

(* Every variable keeps its type, and the parse position stays inside the  *)
(* buffer while a handler uses the message under it.                       *)
THEOREM TypeCorrect == Spec => []TypeOK
<1>1. QED
  BY TypeInit, TypeStep, PTL DEF Spec

-----------------------------------------------------------------------------
(* The packets name rooms that exist.  The menu tests room_index and reads *)
(* it again later; what makes the second reading safe is that the other    *)
(* thread never stores 0 and never stores what the server has not named.   *)

NoticeNamesARoom(notice) ==
    /\ notice.type = "NOTIFY_EXIST_ROOM" => notice.index >= 1
    /\ notice.type = "ENTER_ROOM" /\ notice.flag => notice.index >= 1

NoticesNameARoom ==
    /\ \A i \in 1..Len(inbound) : NoticeNamesARoom(inbound[i])
    /\ \A i \in 1..Len(recv_buffer) : NoticeNamesARoom(recv_buffer[i])

(* The message behind the handler of Notify_Exist_Room is one.             *)
HandlesRoomNotice ==
    recvPc \in {"prompt", "enter_send", "entered", "set_room"}
      => Msg.type = "NOTIFY_EXIST_ROOM"

(* Between the menu's test of room_index and its last use it stays set.    *)
RoomStaysKnown ==
    /\ room_index >= 0
    /\ menuPc \in {"IN_ROOM_USER_LIST", "list_room", "LEAVE_ROOM_MENU"} => room_index >= 1
    /\ menuPc = "send" => NamesARoom(req)

ServerRoomsNumbered == \A r \in srvRooms : r >= 1

RoomInv ==
    /\ TypeOK /\ RequestsNameARoom /\ NoticesNameARoom /\ HandlesRoomNotice
    /\ RoomStaysKnown /\ ServerRoomsNumbered

(* Sending a packet that names a room keeps outbound so.                   *)
LEMMA TransmitNamesARoom ==
    ASSUME TypeOK, RequestsNameARoom, NEW packet \in Request, NamesARoom(packet),
           Transmit(packet)
    PROVE  RequestsNameARoom'
<1>1. outbound \in Seq(Request)
  BY DEF TypeOK
<1>2. CASE outbound' = outbound
  BY <1>2 DEF RequestsNameARoom
<1>3. CASE outbound' = Append(outbound, packet)
  <2>1. \A i \in 1..Len(outbound') :
          outbound'[i] = packet \/ \E j \in 1..Len(outbound) : outbound'[i] = outbound[j]
    BY <1>1, <1>3, AppendProperties
  <2>2. QED
    BY <2>1 DEF RequestsNameARoom
<1>4. QED
  BY <1>2, <1>3 DEF Transmit

(* The packet the server takes names a room, and the others still do.      *)
LEMMA TakesNamesARoom ==
    ASSUME TypeOK, RequestsNameARoom, NEW type, Takes(type)
    PROVE  NamesARoom(Request1) /\ RequestsNameARoom'
<1>1. outbound \in Seq(Request) /\ outbound # <<>> /\ outbound' = Tail(outbound)
  BY DEF TypeOK, Takes
<1>2. Request1 = outbound[1] /\ 1 \in 1..Len(outbound)
  BY <1>1 DEF Request1
<1>3. \A i \in 1..Len(outbound') : i + 1 \in 1..Len(outbound) /\ outbound'[i] = outbound[i + 1]
  BY <1>1, HeadTailProperties
<1>4. QED
  BY <1>2, <1>3 DEF RequestsNameARoom

(* A message that names a room keeps the messages on their way so.         *)
LEMMA SayNamesARoom ==
    ASSUME TypeOK, NoticesNameARoom, NEW notice \in Notice, NoticeNamesARoom(notice),
           Say(notice), UNCHANGED recv_buffer
    PROVE  NoticesNameARoom'
<1>1. inbound \in Seq(Notice) /\ inbound' = Append(inbound, notice)
  BY DEF TypeOK, Say
<1>2. \A i \in 1..Len(inbound') :
         inbound'[i] = notice \/ \E j \in 1..Len(inbound) : inbound'[i] = inbound[j]
  BY <1>1, AppendProperties
<1>3. QED
  BY <1>2 DEF NoticesNameARoom

(* Reading from the socket moves messages, it makes up none.               *)
LEMMA WSARecvMoves ==
    ASSUME TypeOK, WSARecv
    PROVE  /\ \A i \in 1..Len(inbound') :
                \E j \in 1..Len(inbound) : inbound'[i] = inbound[j]
           /\ \A i \in 1..Len(recv_buffer') :
                \/ \E j \in 1..Len(inbound) : recv_buffer'[i] = inbound[j]
                \/ \E j \in 1..Len(recv_buffer) : recv_buffer'[i] = recv_buffer[j]
<1> USE SessionAssumption
<1>1. PICK k \in 1..BufferSize :
         /\ k <= Len(inbound)
         /\ recv_buffer' = Overwrite(recv_buffer, SubSeq(inbound, 1, k))
         /\ inbound' = SubSeq(inbound, k + 1, Len(inbound))
  BY DEF WSARecv
<1>2. inbound \in Seq(Notice) /\ recv_buffer \in Seq(Notice) /\ k \in Nat \ {0}
  BY <1>1 DEF TypeOK
<1> DEFINE fresh == SubSeq(inbound, 1, k)
           rest  == SubSeq(recv_buffer, Len(fresh) + 1, Len(recv_buffer))
<1>3. /\ fresh \in Seq(Notice) /\ Len(fresh) = k
      /\ \A i \in 1..k : fresh[i] = inbound[i]
  BY <1>1, <1>2, SubSeqType
<1>4. \A i \in 1..Len(inbound') : i + k \in 1..Len(inbound) /\ inbound'[i] = inbound[i + k]
  BY <1>1, <1>2, SubSeqType
<1>5. /\ rest = SubSeq(recv_buffer, k + 1, Len(recv_buffer)) /\ rest \in Seq(Notice)
      /\ Len(rest) = IF k + 1 <= Len(recv_buffer) THEN Len(recv_buffer) - k ELSE 0
      /\ \A i \in 1..Len(rest) : rest[i] = recv_buffer[k + 1 + i - 1]
  <2>1. k + 1 \in Nat \ {0} /\ Len(recv_buffer) \in Nat /\ Len(fresh) = k
    BY <1>2, <1>3
  <2> HIDE DEF fresh
  <2>2. rest = SubSeq(recv_buffer, k + 1, Len(recv_buffer))
    BY <2>1
  <2> HIDE DEF rest
  <2>3. QED
    BY <1>2, <2>1, <2>2, SubSeqType
<1>6. \A i \in 1..Len(rest) : i + k \in 1..Len(recv_buffer) /\ rest[i] = recv_buffer[i + k]
  <2> HIDE DEF rest
  <2>1. QED
    BY <1>2, <1>5
<1>7. \A i \in 1..Len(recv_buffer') :
        \/ \E j \in 1..Len(inbound) : recv_buffer'[i] = inbound[j]
        \/ \E j \in 1..Len(recv_buffer) : recv_buffer'[i] = recv_buffer[j]
  <2>1. recv_buffer' = fresh \o rest
    BY <1>1 DEF Overwrite
  <2>2. \A i \in 1..Len(recv_buffer') :
          \/ i \in 1..k /\ recv_buffer'[i] = fresh[i]
          \/ i - k \in 1..Len(rest) /\ recv_buffer'[i] = rest[i - k]
    BY <1>3, <1>5, <2>1, ConcatProperties
  <2>3. QED
    BY <1>1, <1>2, <1>3, <1>6, <2>2
<1>8. QED
  BY <1>2, <1>4, <1>7

(* The message under the parse position is one of the buffer.              *)
LEMMA MsgNamesARoom ==
    ASSUME TypeOK, NoticesNameARoom, pos <= Len(recv_buffer)
    PROVE  NoticeNamesARoom(Msg)
<1>1. pos \in 1..Len(recv_buffer)
  BY DEF TypeOK
<1>2. QED
  BY <1>1 DEF NoticesNameARoom, Msg

(* Packets and notices name rooms, and room_index keeps naming one.        *)
LEMMA RoomInvariant == Spec => []RoomInv
<1> USE SessionAssumption
<1>1. Init => RoomInv
  BY TypeInit DEF Init, RoomInv, RequestsNameARoom, NoticesNameARoom,
        HandlesRoomNotice, RoomStaysKnown, ServerRoomsNumbered, Rooms
<1>2. RoomInv /\ [Next]_vars => RoomInv'
  <2> SUFFICES ASSUME RoomInv, [Next]_vars PROVE RoomInv'
    OBVIOUS
  <2> TypeOK /\ TypeOK'
    BY TypeStep DEF RoomInv
  <2> USE DEF RoomInv, shared, menu, recv, wire, server
  <2>1. CASE Login
    BY <2>1 DEF Login, Prepare, NamesARoom, LoginPacket, RequestsNameARoom,
          NoticesNameARoom, HandlesRoomNotice, RoomStaysKnown,
          ServerRoomsNumbered, Msg
  <2>2. CASE MenuPoll
    BY <2>2 DEF MenuPoll, RequestsNameARoom, NoticesNameARoom,
          HandlesRoomNotice, RoomStaysKnown, ServerRoomsNumbered, Msg
  <2>3. CASE MenuPollHoisted
    BY <2>3 DEF MenuPollHoisted, RequestsNameARoom, NoticesNameARoom,
          HandlesRoomNotice, RoomStaysKnown, ServerRoomsNumbered, Msg
  <2>4. ASSUME NEW entry \in MENU_SELECT, Choose(entry) PROVE RoomInv'
    <3>1. menuPc' \in {"IN_ROOM_USER_LIST", "list_room", "LEAVE_ROOM_MENU"}
            => room_index >= 1
      BY <2>4 DEF Choose, Refused, NeedsRoom, MENU_SELECT, RoomStaysKnown,
            TypeOK
    <3>2. menuPc' # "send"
      BY <2>4 DEF Choose, MENU_SELECT
    <3>3. QED
      BY <2>4, <3>1, <3>2 DEF Choose, RequestsNameARoom, NoticesNameARoom,
            HandlesRoomNotice, RoomStaysKnown, ServerRoomsNumbered, Msg
  <2>5. ASSUME NEW ch \in ChannelInputs, ChannelMove(ch) PROVE RoomInv'
    BY <2>5 DEF ChannelMove, Prepare, NamesARoom, ChannelMovePacket,
          RequestsNameARoom, NoticesNameARoom, HandlesRoomNotice,
          RoomStaysKnown, ServerRoomsNumbered, Msg
  <2>6. ASSUME NEW room \in RoomInputs, RoomCreate(room) PROVE RoomInv'
    BY <2>6 DEF RoomCreate, Prepare, NamesARoom, BackToPoll, CreateRoomPacket,
          RequestsNameARoom, NoticesNameARoom, HandlesRoomNotice,
          RoomStaysKnown, ServerRoomsNumbered, Msg
  <2>7. ASSUME NEW room \in RoomInputs, EnterRoomInit(room) PROVE RoomInv'
    BY <2>7 DEF EnterRoomInit, Prepare, NamesARoom, EnterRoomPacket,
          RequestsNameARoom, NoticesNameARoom, HandlesRoomNotice,
          RoomStaysKnown, ServerRoomsNumbered, Msg
  <2>8. CASE DisableForUserList
    BY <2>8 DEF DisableForUserList, MenuAt, RequestsNameARoom,
          NoticesNameARoom, HandlesRoomNotice, RoomStaysKnown,
          ServerRoomsNumbered, Msg
  <2>9. CASE InRoomUserList
    BY <2>9 DEF InRoomUserList, Prepare, NamesARoom, MenuAt,
          RoomUserListPacket, RequestsNameARoom, NoticesNameARoom,
          HandlesRoomNotice, RoomStaysKnown, ServerRoomsNumbered, Msg
  <2>10. CASE ChannelChat
    BY <2>10 DEF ChannelChat, Prepare, NamesARoom, ChannelChattingPacket,
          RequestsNameARoom, NoticesNameARoom, HandlesRoomNotice,
          RoomStaysKnown, ServerRoomsNumbered, Msg
  <2>11. CASE RoomChat
    BY <2>11 DEF RoomChat, Prepare, NamesARoom, RoomChattingPacket,
          RequestsNameARoom, NoticesNameARoom, HandlesRoomNotice,
          RoomStaysKnown, ServerRoomsNumbered, Msg
  <2>12. CASE LeaveRoom
    BY <2>12 DEF LeaveRoom, Prepare, NamesARoom, MenuAt, LeaveRoomPacket,
          RequestsNameARoom, NoticesNameARoom, HandlesRoomNotice,
          RoomStaysKnown, ServerRoomsNumbered, Msg
  <2>13. CASE Send
    <3>1. req \in Request /\ NamesARoom(req) /\ Transmit(req)
      BY <2>13 DEF Send, MenuAt, RoomStaysKnown, TypeOK
    <3>2. RequestsNameARoom'
      BY <3>1, TransmitNamesARoom
    <3>3. menuPc' \in {"CHANGE_CHANNEL", "CHANNEL_CHATTING", "LEAVE_ROOM", "poll"}
      BY <2>13 DEF Send, AfterSend
    <3>4. QED
      BY <2>13, <3>1, <3>2, <3>3 DEF Send, Transmit, NoticesNameARoom,
            HandlesRoomNotice, RoomStaysKnown, ServerRoomsNumbered, Msg
  <2>14. CASE ChannelMoved
    BY <2>14 DEF ChannelMoved, MenuAt, RequestsNameARoom, NoticesNameARoom,
          HandlesRoomNotice, RoomStaysKnown, ServerRoomsNumbered, Msg
  <2>15. CASE ChannelChatted
    BY <2>15 DEF ChannelChatted, MenuAt, RequestsNameARoom, NoticesNameARoom,
          HandlesRoomNotice, RoomStaysKnown, ServerRoomsNumbered, Msg
  <2>16. CASE RoomLeft
    BY <2>16 DEF RoomLeft, RequestsNameARoom, NoticesNameARoom,
          HandlesRoomNotice, RoomStaysKnown, ServerRoomsNumbered, Msg
  <2>17. CASE ExitServer
    BY <2>17 DEF ExitServer, RequestsNameARoom, NoticesNameARoom,
          HandlesRoomNotice, RoomStaysKnown, ServerRoomsNumbered, Msg
  <2>18. CASE Exit
    BY <2>18 DEF Exit, RequestsNameARoom, NoticesNameARoom, HandlesRoomNotice,
          RoomStaysKnown, ServerRoomsNumbered, Msg
  <2>19. CASE WSARecv
    <3>1. NoticesNameARoom'
      BY <2>19, WSARecvMoves DEF NoticesNameARoom
    <3>2. QED
      BY <2>19, <3>1 DEF WSARecv, RequestsNameARoom, HandlesRoomNotice,
            RoomStaysKnown, ServerRoomsNumbered
  <2>20. CASE WSARecvZero
    BY <2>20 DEF WSARecvZero, RequestsNameARoom, NoticesNameARoom,
          HandlesRoomNotice, RoomStaysKnown, ServerRoomsNumbered, Msg
  <2>21. CASE WSARecvError
    BY <2>21 DEF WSARecvError, RequestsNameARoom, NoticesNameARoom,
          HandlesRoomNotice, RoomStaysKnown, ServerRoomsNumbered, Msg
  <2>22. CASE ProcessEnterChannel
    BY <2>22 DEF ProcessEnterChannel, EnableMenu, GoTo, RequestsNameARoom,
          NoticesNameARoom, HandlesRoomNotice, RoomStaysKnown,
          ServerRoomsNumbered, Msg
  <2>23. CASE StoreIdAndChannel
    BY <2>23 DEF StoreIdAndChannel, NextMessage, RequestsNameARoom,
          NoticesNameARoom, HandlesRoomNotice, RoomStaysKnown,
          ServerRoomsNumbered, Msg
  <2>24. CASE ProcessNotify
    BY <2>24 DEF ProcessNotify, NextMessage, RequestsNameARoom,
          NoticesNameARoom, HandlesRoomNotice, RoomStaysKnown,
          ServerRoomsNumbered, Msg
  <2>25. CASE ProcessChatOrList
    BY <2>25 DEF ProcessChatOrList, EnableMenu, NextMessage, RequestsNameARoom,
          NoticesNameARoom, HandlesRoomNotice, RoomStaysKnown,
          ServerRoomsNumbered, Msg
  <2>26. CASE ProcessEnterRoom
    <3>1. pos <= Len(recv_buffer) /\ Msg.type = "ENTER_ROOM"
      BY <2>26 DEF ProcessEnterRoom, Handling, AtMessage
    <3>2. Msg.flag => Msg.index >= 1
      BY <3>1, MsgNamesARoom DEF NoticeNamesARoom
    <3>3. room_index' >= 0 /\ (room_index >= 1 => room_index' >= 1)
      BY <2>26, <3>1, <3>2, MsgType DEF ProcessEnterRoom, RoomStaysKnown
    <3>4. QED
      BY <2>26, <3>3 DEF ProcessEnterRoom, NextMessage, RequestsNameARoom,
            NoticesNameARoom, HandlesRoomNotice, RoomStaysKnown,
            ServerRoomsNumbered, Msg
  <2>27. CASE ProcessRoomCreated
    BY <2>27 DEF ProcessRoomCreated, Handling, EnableMenu, GoTo,
          RequestsNameARoom, NoticesNameARoom, HandlesRoomNotice,
          RoomStaysKnown, ServerRoomsNumbered, Msg
  <2>28. CASE ProcessRoomExists
    BY <2>28 DEF ProcessRoomExists, Handling, GoTo, RequestsNameARoom,
          NoticesNameARoom, HandlesRoomNotice, RoomStaysKnown,
          ServerRoomsNumbered, Msg
  <2>29. CASE AnswerYes
    BY <2>29 DEF AnswerYes, RecvAt, GoTo, RequestsNameARoom,
          NoticesNameARoom, HandlesRoomNotice, RoomStaysKnown,
          ServerRoomsNumbered, Msg
  <2>30. CASE AnswerNo
    BY <2>30 DEF AnswerNo, EnableMenu, NextMessage, RequestsNameARoom,
          NoticesNameARoom, HandlesRoomNotice, RoomStaysKnown,
          ServerRoomsNumbered, Msg
  <2>31. CASE SendEnterRoom
    <3>1. pos <= Len(recv_buffer)
      BY <2>31 DEF SendEnterRoom, RecvAt, TypeOK
    <3>2. EnterRoomPacket(Msg.index) \in Request /\ NamesARoom(EnterRoomPacket(Msg.index))
      BY <3>1, MsgType, PacketTypes DEF NamesARoom, EnterRoomPacket
    <3>3. RequestsNameARoom'
      BY <2>31, <3>2, TransmitNamesARoom DEF SendEnterRoom
    <3>4. QED
      BY <2>31, <3>3 DEF SendEnterRoom, Transmit, GoTo, RecvAt, Msg,
            NoticesNameARoom, HandlesRoomNotice, RoomStaysKnown,
            ServerRoomsNumbered
  <2>32. CASE EnterRoomSent
    BY <2>32 DEF EnterRoomSent, RecvAt, EnableMenu, GoTo, RequestsNameARoom,
          NoticesNameARoom, HandlesRoomNotice, RoomStaysKnown,
          ServerRoomsNumbered, Msg
  <2>33. CASE StoreRoom
    <3>1. pos <= Len(recv_buffer) /\ Msg.type = "NOTIFY_EXIST_ROOM"
      BY <2>33 DEF StoreRoom, RecvAt, HandlesRoomNotice, TypeOK
    <3>2. room_index' \in Int /\ room_index' >= 1
      BY <2>33, <3>1, MsgType, MsgNamesARoom DEF StoreRoom, NoticeNamesARoom
    <3>3. QED
      BY <2>33, <3>2 DEF StoreRoom, NextMessage, RequestsNameARoom,
            NoticesNameARoom, HandlesRoomNotice, RoomStaysKnown,
            ServerRoomsNumbered, Msg
  <2>34. CASE AfterBatch
    BY <2>34 DEF AfterBatch, RequestsNameARoom, NoticesNameARoom,
          HandlesRoomNotice, RoomStaysKnown, ServerRoomsNumbered, Msg
  <2>35. CASE ServerLogin
    <3>1. /\ Takes("USER_LOGIN") /\ NamesARoom(Request1)
          /\ RequestsNameARoom' /\ Request1.index \in Int
      BY <2>35, TakesNamesARoom, TakesType DEF ServerLogin
    <3>2. NoticeOf("ENTER_CHANNEL", Self, srvChannel, FALSE) \in Notice
      BY <3>1, (Request1.index \in srvRooms) \in BOOLEAN DEF NoticeOf, Notice,
            NoticeType, TypeOK
    <3>3. NoticeNamesARoom(NoticeOf("ENTER_CHANNEL", Self, srvChannel, FALSE))
      BY <3>1 DEF NoticeNamesARoom, NoticeOf, NamesARoom, ServerRoomsNumbered,
            Takes
    <3>4. NoticesNameARoom'
      BY <2>35, <3>2, <3>3, SayNamesARoom DEF ServerLogin, Takes
    <3>5. ServerRoomsNumbered'
      BY <2>35, <3>1 DEF ServerLogin, Takes, NamesARoom, ServerRoomsNumbered
    <3>6. QED
      BY <2>35, <3>1, <3>4, <3>5 DEF ServerLogin, Takes, HandlesRoomNotice,
            RoomStaysKnown, Msg
  <2>36. CASE ServerChangeChannel
    <3>1. /\ Takes("CHANGE_CHANNEL") /\ NamesARoom(Request1)
          /\ RequestsNameARoom' /\ Request1.index \in Int
      BY <2>36, TakesNamesARoom, TakesType DEF ServerChangeChannel
    <3>2. NoticeOf("ENTER_CHANNEL", Self, Request1.index, FALSE) \in Notice
      BY <3>1, (Request1.index \in srvRooms) \in BOOLEAN DEF NoticeOf, Notice,
            NoticeType, TypeOK
    <3>3. NoticeNamesARoom(NoticeOf("ENTER_CHANNEL", Self, Request1.index, FALSE))
      BY <3>1 DEF NoticeNamesARoom, NoticeOf, NamesARoom, ServerRoomsNumbered,
            Takes
    <3>4. NoticesNameARoom'
      <4>1. CASE Say(NoticeOf("ENTER_CHANNEL", Self, Request1.index, FALSE))
        BY <2>36, <3>2, <3>3, <4>1, SayNamesARoom DEF ServerChangeChannel,
              Takes
      <4>2. CASE UNCHANGED inbound
        BY <2>36, <4>2 DEF ServerChangeChannel, Takes, NoticesNameARoom
      <4>3. QED
        BY <2>36, <4>1, <4>2 DEF ServerChangeChannel
    <3>5. ServerRoomsNumbered'
      BY <2>36, <3>1 DEF ServerChangeChannel, Takes, NamesARoom,
            ServerRoomsNumbered
    <3>6. QED
      BY <2>36, <3>1, <3>4, <3>5 DEF ServerChangeChannel, Takes,
            HandlesRoomNotice, RoomStaysKnown, Msg
  <2>37. CASE ServerCreateRoom
    <3>1. /\ Takes("CREATE_ROOM") /\ NamesARoom(Request1)
          /\ RequestsNameARoom' /\ Request1.index \in Int
      BY <2>37, TakesNamesARoom, TakesType DEF ServerCreateRoom
    <3>2. NoticeOf("NOTIFY_EXIST_ROOM", 0, Request1.index, Request1.index \in srvRooms) \in Notice
      BY <3>1, (Request1.index \in srvRooms) \in BOOLEAN DEF NoticeOf, Notice,
            NoticeType, TypeOK
    <3>3. NoticeNamesARoom(NoticeOf("NOTIFY_EXIST_ROOM", 0, Request1.index,
                                    Request1.index \in srvRooms))
      BY <3>1 DEF NoticeNamesARoom, NoticeOf, NamesARoom, ServerRoomsNumbered,
            Takes
    <3>4. NoticesNameARoom'
      BY <2>37, <3>2, <3>3, SayNamesARoom DEF ServerCreateRoom, Takes
    <3>5. ServerRoomsNumbered'
      BY <2>37, <3>1 DEF ServerCreateRoom, Takes, NamesARoom,
            ServerRoomsNumbered
    <3>6. QED
      BY <2>37, <3>1, <3>4, <3>5 DEF ServerCreateRoom, Takes,
            HandlesRoomNotice, RoomStaysKnown, Msg
  <2>38. CASE ServerEnterRoom
    <3>1. /\ Takes("ENTER_ROOM") /\ NamesARoom(Request1)
          /\ RequestsNameARoom' /\ Request1.index \in Int
      BY <2>38, TakesNamesARoom, TakesType DEF ServerEnterRoom
    <3>2. NoticeOf("ENTER_ROOM", 0, Request1.index, Request1.index \in srvRooms) \in Notice
      BY <3>1, (Request1.index \in srvRooms) \in BOOLEAN DEF NoticeOf, Notice,
            NoticeType, TypeOK
    <3>3. NoticeNamesARoom(NoticeOf("ENTER_ROOM", 0, Request1.index, Request1.index \in srvRooms))
      BY <3>1 DEF NoticeNamesARoom, NoticeOf, NamesARoom, ServerRoomsNumbered,
            Takes
    <3>4. NoticesNameARoom'
      BY <2>38, <3>2, <3>3, SayNamesARoom DEF ServerEnterRoom, Takes
    <3>5. ServerRoomsNumbered'
      BY <2>38, <3>1 DEF ServerEnterRoom, Takes, NamesARoom,
            ServerRoomsNumbered
    <3>6. QED
      BY <2>38, <3>1, <3>4, <3>5 DEF ServerEnterRoom, Takes, HandlesRoomNotice,
            RoomStaysKnown, Msg
  <2>39. CASE ServerLeaveRoom
    <3>1. RequestsNameARoom'
      BY <2>39, TakesNamesARoom DEF ServerLeaveRoom
    <3>2. QED
      BY <2>39, <3>1 DEF ServerLeaveRoom, Takes, NoticesNameARoom,
            HandlesRoomNotice, RoomStaysKnown, ServerRoomsNumbered, Msg
  <2>40. CASE ServerReply
    <3>1. PICK type \in RequestType : Takes(type)
      BY <2>40 DEF ServerReply, RequestType
    <3>2. RequestsNameARoom' /\ Request1.index \in Int
      BY <3>1, TakesNamesARoom, TakesType
    <3> DEFINE Listed == NoticeOf("ROOM_LIST", 0, Request1.index, FALSE)
               Echo(t) == NoticeOf(t, Self, 0, FALSE)
    <3>3. /\ Listed \in Notice /\ Echo("ROOM_CHATTING") \in Notice
          /\ Echo("CHANNEL_CHATTING") \in Notice
      BY <3>2 DEF NoticeOf, Notice, NoticeType
    <3>4. /\ NoticeNamesARoom(Listed) /\ NoticeNamesARoom(Echo("ROOM_CHATTING"))
          /\ NoticeNamesARoom(Echo("CHANNEL_CHATTING"))
      BY DEF NoticeOf, NoticeNamesARoom
    <3>5. Say(Listed) \/ Say(Echo("ROOM_CHATTING")) \/ Say(Echo("CHANNEL_CHATTING"))
      BY <2>40 DEF ServerReply
    <3>6. PICK notice \in Notice : NoticeNamesARoom(notice) /\ Say(notice)
      <4> HIDE DEF Listed, Echo
      <4> QED BY <3>3, <3>4, <3>5
    <3>7. NoticesNameARoom'
      BY <3>1, <3>6, SayNamesARoom DEF Takes
    <3>8. QED
      BY <2>40, <3>1, <3>2, <3>7 DEF ServerReply, Takes, HandlesRoomNotice,
            RoomStaysKnown, ServerRoomsNumbered, Msg
  <2>41. CASE OtherSpeaks
    <3>1. PICK u \in Others, type \in NoiseTypes : Say(NoticeOf(type, u, 0, FALSE))
      BY <2>41 DEF OtherSpeaks
    <3>2. NoticeOf(type, u, 0, FALSE) \in Notice /\ NoticeNamesARoom(NoticeOf(type, u, 0, FALSE))
      BY DEF NoticeOf, Notice, NoticeType, NoticeNamesARoom
    <3>3. NoticesNameARoom'
      BY <2>41, <3>1, <3>2, SayNamesARoom DEF OtherSpeaks, OthersActive
    <3>4. QED
      BY <2>41, <3>3 DEF OtherSpeaks, OthersActive, RequestsNameARoom,
            HandlesRoomNotice, RoomStaysKnown, ServerRoomsNumbered, Msg
  <2>42. CASE OtherOpensRoom
    <3>1. ServerRoomsNumbered'
      BY <2>42 DEF OtherOpensRoom, Rooms, ServerRoomsNumbered
    <3>2. QED
      BY <2>42, <3>1 DEF OtherOpensRoom, OthersActive, RequestsNameARoom,
            NoticesNameARoom, HandlesRoomNotice, RoomStaysKnown, Msg
  <2>43. CASE OtherClosesRoom
    <3>1. ServerRoomsNumbered'
      BY <2>43 DEF OtherClosesRoom, Rooms, ServerRoomsNumbered
    <3>2. QED
      BY <2>43, <3>1 DEF OtherClosesRoom, OthersActive, RequestsNameARoom,
            NoticesNameARoom, HandlesRoomNotice, RoomStaysKnown, Msg
  <2>44. CASE ServerStops
    BY <2>44 DEF ServerStops, RequestsNameARoom, NoticesNameARoom,
          HandlesRoomNotice, RoomStaysKnown, ServerRoomsNumbered, Msg
  <2>45. CASE UNCHANGED vars
    BY <2>45 DEF vars, RequestsNameARoom, NoticesNameARoom, HandlesRoomNotice,
          RoomStaysKnown, ServerRoomsNumbered, Msg
  <2>46. QED
    BY <2>1, <2>2, <2>3, <2>4, <2>5, <2>6, <2>7, <2>8, <2>9, <2>10,
       <2>11, <2>12, <2>13, <2>14, <2>15, <2>16, <2>17, <2>18, <2>19, <2>20,
       <2>21, <2>22, <2>23, <2>24, <2>25, <2>26, <2>27, <2>28, <2>29, <2>30,
       <2>31, <2>32, <2>33, <2>34, <2>35, <2>36, <2>37, <2>38, <2>39, <2>40,
       <2>41, <2>42, <2>43, <2>44, <2>45
       DEF Next, UserStep, MenuStep, RecvStep, ServerStep, OthersStep, Terminated
<1>3. QED
  BY <1>1, <1>2, PTL DEF Spec

(* A list or leave request carries room_index twice read, and both times   *)
(* it is a room: the receive thread replaces it only by another room.      *)
THEOREM RoomsAreNamed == Spec => []RequestsNameARoom
<1>1. RoomInv => RequestsNameARoom
  BY DEF RoomInv
<1>2. QED
  BY <1>1, RoomInvariant, PTL

-----------------------------------------------------------------------------
(* The id is known before it is used: the login goes out before any other  *)
(* packet, so the first message that comes in carries the id, and nothing  *)
(* is handled between its arrival and the store.                           *)

NoticesBringId ==
    /\ \A i \in 1..Len(inbound) : inbound[i].type = "ENTER_CHANNEL" => inbound[i].id = Self
    /\ \A i \in 1..Len(recv_buffer) :
         recv_buffer[i].type = "ENTER_CHANNEL" => recv_buffer[i].id = Self

HandlesChannelNotice == recvPc = "set_id" => Msg.type = "ENTER_CHANNEL"

LoginFirst ==
    ~loggedIn =>
        /\ inbound = <<>> /\ recv_buffer = <<>>
        /\ socket = "open" =>
             \/ menuPc = "login" /\ outbound = <<>>
             \/ menuPc = "send" /\ req.type = "USER_LOGIN" /\ outbound = <<>>
             \/ outbound # <<>> /\ outbound[1].type = "USER_LOGIN"

(* Until the id is stored, the message that brings it is next.             *)
IdPending ==
    loggedIn /\ my_id # Self =>
        \/ /\ recv_buffer = <<>>
           /\ inbound # <<>> /\ inbound[1].type = "ENTER_CHANNEL"
        \/ /\ recvPc \in {"dispatch", "set_id"} /\ pos = 1
           /\ recv_buffer # <<>> /\ recv_buffer[1].type = "ENTER_CHANNEL"

IdInv == TypeOK /\ NoticesBringId /\ HandlesChannelNotice /\ LoginFirst /\ IdPending

(* A message of the server comes last; the first one stays first.          *)
LEMMA SayAppends ==
    ASSUME TypeOK, NEW notice \in Notice, Say(notice)
    PROVE  /\ inbound' # <<>>
           /\ IF inbound = <<>> THEN inbound'[1] = notice ELSE inbound'[1] = inbound[1]
           /\ \A i \in 1..Len(inbound') :
                inbound'[i] = notice \/ \E j \in 1..Len(inbound) : inbound'[i] = inbound[j]
<1>1. inbound \in Seq(Notice) /\ inbound' = Append(inbound, notice)
  BY DEF TypeOK, Say
<1>2. QED
  BY <1>1, AppendProperties

(* On an open connection a packet comes last, the first one stays first.   *)
LEMMA TransmitAppends ==
    ASSUME TypeOK, NEW packet \in Request, Transmit(packet)
    PROVE  /\ UNCHANGED <<inbound, socket>>
           /\ socket = "open" =>
                /\ outbound' # <<>>
                /\ IF outbound = <<>> THEN outbound'[1] = packet
                                      ELSE outbound'[1] = outbound[1]
<1>1. outbound \in Seq(Request) /\ UNCHANGED <<inbound, socket>>
  BY DEF TypeOK, Transmit
<1>2. CASE outbound' = Append(outbound, packet)
  BY <1>1, <1>2, AppendProperties
<1>3. CASE socket # "open"
  BY <1>1, <1>3
<1>4. QED
  BY <1>2, <1>3 DEF Transmit, TypeOK

(* What the server's actions leave alone of the client.                    *)
ClientUntouched ==
    UNCHANGED <<recvPc, recv_buffer, pos, my_id, menuPc, req, menu_enable, socket>>

(* What a server action that answers adds to the inbound messages.         *)
LEMMA ServerSays ==
    ASSUME TypeOK, ServerStep \/ OtherSpeaks
    PROVE  /\ ClientUntouched
           /\ \/ UNCHANGED inbound /\ (ServerLeaveRoom \/ ServerChangeChannel)
              \/ \E notice \in Notice :
                    Say(notice) /\ (notice.type = "ENTER_CHANNEL" => notice.id = Self)
<1> USE SessionAssumption DEF shared, menu, recv, server, ClientUntouched
<1> DEFINE Answer(notice) ==
             notice \in Notice /\ (notice.type = "ENTER_CHANNEL" => notice.id = Self)
<1> HIDE DEF Answer
<1>1. ASSUME NEW type, Takes(type)
      PROVE  Request1.index \in Int /\ ClientUntouched
  BY <1>1, TakesType DEF Takes
<1>2. SUFFICES /\ ClientUntouched
               /\ \/ UNCHANGED inbound /\ (ServerLeaveRoom \/ ServerChangeChannel)
                  \/ \E notice : Answer(notice) /\ Say(notice)
  BY DEF Answer
<1>3. CASE ServerLogin
  <2>1. Answer(NoticeOf("ENTER_CHANNEL", Self, srvChannel, FALSE))
    BY DEF TypeOK, Answer, NoticeOf, Notice, NoticeType
  <2>2. QED
    BY <1>3, <1>1, <2>1 DEF ServerLogin
<1>4. CASE ServerChangeChannel
  <2>1. Request1.index \in Int
    BY <1>4, <1>1 DEF ServerChangeChannel
  <2>2. Answer(NoticeOf("ENTER_CHANNEL", Self, Request1.index, FALSE))
    BY <2>1 DEF Answer, NoticeOf, Notice, NoticeType
  <2>3. QED
    BY <1>4, <1>1, <2>2 DEF ServerChangeChannel
<1>5. CASE ServerCreateRoom
  <2>1. Request1.index \in Int /\ (Request1.index \in srvRooms) \in BOOLEAN
    BY <1>5, <1>1 DEF ServerCreateRoom
  <2>2. Answer(NoticeOf("NOTIFY_EXIST_ROOM", 0, Request1.index, Request1.index \in srvRooms))
    BY <2>1 DEF Answer, NoticeOf, Notice, NoticeType
  <2>3. QED
    BY <1>5, <1>1, <2>2 DEF ServerCreateRoom
<1>6. CASE ServerEnterRoom
  <2>1. Request1.index \in Int /\ (Request1.index \in srvRooms) \in BOOLEAN
    BY <1>6, <1>1 DEF ServerEnterRoom
  <2>2. Answer(NoticeOf("ENTER_ROOM", 0, Request1.index, Request1.index \in srvRooms))
    BY <2>1 DEF Answer, NoticeOf, Notice, NoticeType
  <2>3. QED
    BY <1>6, <1>1, <2>2 DEF ServerEnterRoom
<1>7. CASE ServerLeaveRoom
  BY <1>7, <1>1 DEF ServerLeaveRoom
<1>8. CASE ServerReply
  <2>1. Request1.index \in Int /\ ClientUntouched
    BY <1>8, <1>1 DEF ServerReply
  <2>2. /\ Answer(NoticeOf("ROOM_LIST", 0, Request1.index, FALSE))
        /\ Answer(NoticeOf("ROOM_CHATTING", Self, 0, FALSE))
        /\ Answer(NoticeOf("CHANNEL_CHATTING", Self, 0, FALSE))
    BY <2>1 DEF Answer, NoticeOf, Notice, NoticeType
  <2>3. QED
    BY <1>8, <2>1, <2>2 DEF ServerReply
<1>9. CASE OtherSpeaks
  <2>1. PICK u \in Others, type \in NoiseTypes : Say(NoticeOf(type, u, 0, FALSE))
    BY <1>9 DEF OtherSpeaks
  <2>2. Answer(NoticeOf(type, u, 0, FALSE))
    BY DEF Answer, NoticeOf, Notice, NoticeType
  <2>3. QED
    BY <1>9, <2>1, <2>2 DEF OtherSpeaks, OthersActive
<1>10. QED
  BY <1>3, <1>4, <1>5, <1>6, <1>7, <1>8, <1>9 DEF ServerStep

(* A read starts the buffer with the first message of the queue.           *)
LEMMA WSARecvFirst ==
    ASSUME TypeOK, WSARecv
    PROVE  recv_buffer' # <<>> /\ recv_buffer'[1] = inbound[1]
<1> USE SessionAssumption
<1>1. PICK k \in 1..BufferSize :
         k <= Len(inbound) /\ recv_buffer' = Overwrite(recv_buffer, SubSeq(inbound, 1, k))
  BY DEF WSARecv
<1>2. inbound \in Seq(Notice) /\ recv_buffer \in Seq(Notice) /\ k \in Nat \ {0}
  BY <1>1 DEF TypeOK
<1> DEFINE fresh == SubSeq(inbound, 1, k)
           rest  == SubSeq(recv_buffer, Len(fresh) + 1, Len(recv_buffer))
<1>3. fresh \in Seq(Notice) /\ Len(fresh) = k /\ fresh[1] = inbound[1]
  BY <1>1, <1>2, SubSeqType
<1>4. rest \in Seq(Notice)
  BY <1>2, <1>3, SubSeqType
<1>5. recv_buffer' = fresh \o rest
  BY <1>1 DEF Overwrite
<1>6. /\ Len(recv_buffer') = k + Len(rest) /\ Len(recv_buffer') # 0
      /\ 1 \in 1..k + Len(rest) /\ recv_buffer'[1] = fresh[1]
  BY <1>2, <1>3, <1>4, <1>5, ConcatProperties
<1> HIDE DEF fresh, rest
<1>7. recv_buffer' # <<>>
  BY <1>6
<1>8. QED
  BY <1>3, <1>6, <1>7

(* A read makes up no message, so none without this user's id.             *)
LEMMA ReadBringsId ==
    ASSUME TypeOK, NoticesBringId, WSARecv
    PROVE  NoticesBringId'
BY WSARecvMoves DEF NoticesBringId

(* The first packet the server takes from a client is the login.           *)
LEMMA LoginTakenFirst ==
    ASSUME IdInv, NEW type, Takes(type), type # "USER_LOGIN"
    PROVE  loggedIn
<1>1. outbound \in Seq(Request) /\ outbound # <<>> /\ socket = "open" /\ Request1.type = type
  BY DEF IdInv, TypeOK, Takes, ServerUp
<1>2. Request1 = outbound[1]
  BY <1>1 DEF Request1
<1>3. QED
  BY <1>1, <1>2 DEF IdInv, LoginFirst, TypeOK

(* After the login the server only adds to what the client has to read.    *)
LEMMA OnceLoggedIn ==
    ASSUME IdInv, TypeOK', loggedIn, loggedIn', ServerStep \/ OtherSpeaks
    PROVE  IdInv'
<1>1. TypeOK
  BY DEF IdInv
<1>2. UNCHANGED <<recvPc, recv_buffer, pos, my_id>>
  BY <1>1, ServerSays DEF ClientUntouched
<1>3. CASE UNCHANGED inbound
  BY <1>2, <1>3 DEF IdInv, NoticesBringId, HandlesChannelNotice, LoginFirst,
        IdPending, Msg
<1>4. CASE ~UNCHANGED inbound
  <2>1. PICK notice \in Notice :
           Say(notice) /\ (notice.type = "ENTER_CHANNEL" => notice.id = Self)
    BY <1>1, <1>4, ServerSays DEF ClientUntouched
  <2>2. NoticesBringId'
    BY <1>1, <1>2, <2>1, SayAppends DEF IdInv, NoticesBringId
  <2>3. IdPending'
    BY <1>1, <1>2, <2>1, SayAppends DEF IdInv, IdPending
  <2>4. QED
    BY <1>2, <2>2, <2>3 DEF IdInv, HandlesChannelNotice, LoginFirst, Msg
<1>5. QED
  BY <1>3, <1>4

(* The answer to the login comes first, and brings the id.                 *)
LEMMA IdInvariant == Spec => []IdInv
<1> USE SessionAssumption
<1>1. Init => IdInv
  BY TypeInit DEF Init, IdInv, NoticesBringId, HandlesChannelNotice,
        LoginFirst, IdPending
<1>2. IdInv /\ [Next]_vars => IdInv'
  <2> SUFFICES ASSUME IdInv, [Next]_vars PROVE IdInv'
    OBVIOUS
  <2> TypeOK /\ TypeOK'
    BY TypeStep DEF IdInv
  <2> USE DEF IdInv, shared, menu, recv, wire, server
  <2>1. CASE Login
    BY <2>1 DEF Login, Prepare, MenuAt, LoginPacket, NoticesBringId,
          HandlesChannelNotice, LoginFirst, IdPending, Msg
  <2>2. CASE MenuPoll
    BY <2>2 DEF MenuPoll, MenuAt, NoticesBringId, HandlesChannelNotice,
          LoginFirst, IdPending, Msg
  <2>3. CASE MenuPollHoisted
    BY <2>3 DEF MenuPollHoisted, MenuAt, NoticesBringId, HandlesChannelNotice,
          LoginFirst, IdPending, Msg
  <2>4. ASSUME NEW entry \in MENU_SELECT, Choose(entry) PROVE IdInv'
    BY <2>4 DEF Choose, MenuAt, MENU_SELECT, NoticesBringId,
          HandlesChannelNotice, LoginFirst, IdPending, Msg
  <2>5. ASSUME NEW ch \in ChannelInputs, ChannelMove(ch) PROVE IdInv'
    BY <2>5 DEF ChannelMove, Prepare, MenuAt, NoticesBringId,
          HandlesChannelNotice, LoginFirst, IdPending, Msg
  <2>6. ASSUME NEW room \in RoomInputs, RoomCreate(room) PROVE IdInv'
    BY <2>6 DEF RoomCreate, Prepare, MenuAt, BackToPoll, NoticesBringId,
          HandlesChannelNotice, LoginFirst, IdPending, Msg
  <2>7. ASSUME NEW room \in RoomInputs, EnterRoomInit(room) PROVE IdInv'
    BY <2>7 DEF EnterRoomInit, Prepare, MenuAt, NoticesBringId,
          HandlesChannelNotice, LoginFirst, IdPending, Msg
  <2>8. CASE DisableForUserList
    BY <2>8 DEF DisableForUserList, MenuAt, NoticesBringId,
          HandlesChannelNotice, LoginFirst, IdPending, Msg
  <2>9. CASE InRoomUserList
    BY <2>9 DEF InRoomUserList, Prepare, MenuAt, NoticesBringId,
          HandlesChannelNotice, LoginFirst, IdPending, Msg
  <2>10. CASE ChannelChat
    BY <2>10 DEF ChannelChat, Prepare, MenuAt, NoticesBringId,
          HandlesChannelNotice, LoginFirst, IdPending, Msg
  <2>11. CASE RoomChat
    BY <2>11 DEF RoomChat, Prepare, MenuAt, NoticesBringId,
          HandlesChannelNotice, LoginFirst, IdPending, Msg
  <2>12. CASE LeaveRoom
    BY <2>12 DEF LeaveRoom, Prepare, MenuAt, NoticesBringId,
          HandlesChannelNotice, LoginFirst, IdPending, Msg
  <2>13. CASE Send
    <3>1. req \in Request /\ Transmit(req)
      BY <2>13 DEF Send, TypeOK
    <3>2. LoginFirst'
      BY <2>13, <3>1, TransmitAppends DEF Send, MenuAt, LoginFirst
    <3>3. QED
      BY <2>13, <3>1, <3>2, TransmitAppends DEF Send, NoticesBringId,
            HandlesChannelNotice, IdPending, Msg
  <2>14. CASE ChannelMoved
    BY <2>14 DEF ChannelMoved, MenuAt, NoticesBringId, HandlesChannelNotice,
          LoginFirst, IdPending, Msg
  <2>15. CASE ChannelChatted
    BY <2>15 DEF ChannelChatted, MenuAt, NoticesBringId, HandlesChannelNotice,
          LoginFirst, IdPending, Msg
  <2>16. CASE RoomLeft
    BY <2>16 DEF RoomLeft, MenuAt, NoticesBringId, HandlesChannelNotice,
          LoginFirst, IdPending, Msg
  <2>17. CASE ExitServer
    BY <2>17 DEF ExitServer, MenuAt, NoticesBringId, HandlesChannelNotice,
          LoginFirst, IdPending, Msg
  <2>18. CASE Exit
    BY <2>18 DEF Exit, MenuAt, NoticesBringId, HandlesChannelNotice,
          LoginFirst, IdPending, Msg
  <2>19. CASE WSARecv
    <3>1. NoticesBringId'
      BY <2>19, ReadBringsId
    <3>2. inbound # <<>>
      BY <2>19 DEF WSARecv, TypeOK
    <3>3. loggedIn
      BY <3>2 DEF LoginFirst
    <3>4. IdPending'
      <4>1. CASE my_id # Self
        <5>1. recv_buffer = <<>> /\ inbound[1].type = "ENTER_CHANNEL"
          BY <2>19, <3>3, <4>1 DEF WSARecv, RecvAt, IdPending
        <5>2. recv_buffer' # <<>> /\ recv_buffer'[1] = inbound[1]
          BY <2>19, <5>1, WSARecvFirst
        <5>3. QED
          BY <2>19, <5>1, <5>2 DEF WSARecv, IdPending
      <4>2. CASE my_id = Self
        BY <2>19, <4>2 DEF WSARecv, IdPending
      <4>3. QED
        BY <4>1, <4>2
    <3>5. QED
      BY <2>19, <3>1, <3>3, <3>4 DEF WSARecv, HandlesChannelNotice, LoginFirst
  <2>20. CASE WSARecvZero
    BY <2>20 DEF WSARecvZero, RecvAt, NoticesBringId, HandlesChannelNotice,
          LoginFirst, IdPending, Msg, TypeOK
  <2>21. CASE WSARecvError
    BY <2>21 DEF WSARecvError, RecvAt, NoticesBringId, HandlesChannelNotice,
          LoginFirst, IdPending, Msg, TypeOK
  <2>22. CASE ProcessEnterChannel
    BY <2>22 DEF ProcessEnterChannel, Handling, AtMessage, RecvAt, EnableMenu,
          GoTo, NoticesBringId, HandlesChannelNotice, LoginFirst, IdPending,
          Msg, TypeOK
  <2>23. CASE StoreIdAndChannel
    <3>1. pos \in 1..Len(recv_buffer) /\ Msg.type = "ENTER_CHANNEL"
      BY <2>23 DEF StoreIdAndChannel, RecvAt, HandlesChannelNotice, TypeOK
    <3>2. my_id' = Self
      BY <2>23, <3>1 DEF StoreIdAndChannel, NoticesBringId, Msg
    <3>3. QED
      BY <2>23, <3>2 DEF StoreIdAndChannel, NextMessage, NoticesBringId,
            HandlesChannelNotice, LoginFirst, IdPending, Msg
  <2>24. CASE ProcessNotify
    BY <2>24 DEF ProcessNotify, Handling, AtMessage, RecvAt, NextMessage,
          NoticesBringId, HandlesChannelNotice, LoginFirst, IdPending, Msg,
          TypeOK
  <2>25. CASE ProcessChatOrList
    BY <2>25 DEF ProcessChatOrList, Handling, AtMessage, RecvAt, NextMessage,
          EnableMenu, ReadsMyId, NoticesBringId, HandlesChannelNotice,
          LoginFirst, IdPending, Msg, TypeOK
  <2>26. CASE ProcessEnterRoom
    BY <2>26 DEF ProcessEnterRoom, Handling, AtMessage, RecvAt, NextMessage,
          NoticesBringId, HandlesChannelNotice, LoginFirst, IdPending, Msg,
          TypeOK
  <2>27. CASE ProcessRoomCreated
    BY <2>27 DEF ProcessRoomCreated, Handling, AtMessage, RecvAt, EnableMenu,
          GoTo, NoticesBringId, HandlesChannelNotice, LoginFirst, IdPending,
          Msg, TypeOK
  <2>28. CASE ProcessRoomExists
    BY <2>28 DEF ProcessRoomExists, Handling, AtMessage, RecvAt, GoTo,
          NoticesBringId, HandlesChannelNotice, LoginFirst, IdPending, Msg,
          TypeOK
  <2>29. CASE AnswerYes
    BY <2>29 DEF AnswerYes, RecvAt, GoTo, NoticesBringId,
          HandlesChannelNotice, LoginFirst, IdPending, Msg, TypeOK
  <2>30. CASE AnswerNo
    BY <2>30 DEF AnswerNo, RecvAt, NextMessage, EnableMenu,
          NoticesBringId, HandlesChannelNotice, LoginFirst, IdPending, Msg,
          TypeOK
  <2>31. CASE SendEnterRoom
    <3>1. pos <= Len(recv_buffer) /\ Transmit(EnterRoomPacket(Msg.index))
      BY <2>31 DEF SendEnterRoom, RecvAt, TypeOK
    <3>2. loggedIn
      BY <3>1 DEF LoginFirst, TypeOK
    <3>3. EnterRoomPacket(Msg.index) \in Request
      BY <3>1, MsgType, PacketTypes
    <3>4. QED
      BY <2>31, <3>1, <3>2, <3>3, TransmitAppends DEF SendEnterRoom, RecvAt,
            GoTo, NoticesBringId, HandlesChannelNotice, LoginFirst, IdPending,
            Msg
  <2>32. CASE EnterRoomSent
    BY <2>32 DEF EnterRoomSent, RecvAt, EnableMenu, GoTo, NoticesBringId,
          HandlesChannelNotice, LoginFirst, IdPending, Msg, TypeOK
  <2>33. CASE StoreRoom
    BY <2>33 DEF StoreRoom, RecvAt, NextMessage, NoticesBringId,
          HandlesChannelNotice, LoginFirst, IdPending, Msg, TypeOK
  <2>34. CASE AfterBatch
    BY <2>34 DEF AfterBatch, RecvAt, NoticesBringId, HandlesChannelNotice,
          LoginFirst, IdPending, Msg, TypeOK
  <2>35. CASE ServerLogin
    <3> DEFINE answer == NoticeOf("ENTER_CHANNEL", Self, srvChannel, FALSE)
    <3>1. answer \in Notice /\ answer.type = "ENTER_CHANNEL" /\ answer.id = Self
      BY DEF NoticeOf, Notice, NoticeType, TypeOK
    <3>2. Say(answer) /\ UNCHANGED <<recvPc, recv_buffer, pos, my_id>> /\ loggedIn'
      BY <2>35 DEF ServerLogin, Takes
    <3> HIDE DEF answer
    <3>3. NoticesBringId'
      BY <3>1, <3>2, SayAppends DEF NoticesBringId
    <3>4. IdPending'
      BY <3>1, <3>2, SayAppends DEF IdPending, LoginFirst
    <3>5. QED
      BY <3>2, <3>3, <3>4 DEF HandlesChannelNotice, LoginFirst, Msg
  <2>36. CASE ServerChangeChannel
    <3>1. Takes("CHANGE_CHANNEL")
      BY <2>36 DEF ServerChangeChannel
    <3>2. loggedIn /\ loggedIn'
      BY <2>36, <3>1, LoginTakenFirst DEF ServerChangeChannel
    <3>3. QED
      BY <2>36, <3>2, OnceLoggedIn DEF ServerStep
  <2>37. CASE ServerCreateRoom
    <3>1. Takes("CREATE_ROOM")
      BY <2>37 DEF ServerCreateRoom
    <3>2. loggedIn /\ loggedIn'
      BY <2>37, <3>1, LoginTakenFirst DEF ServerCreateRoom
    <3>3. QED
      BY <2>37, <3>2, OnceLoggedIn DEF ServerStep
  <2>38. CASE ServerEnterRoom
    <3>1. Takes("ENTER_ROOM")
      BY <2>38 DEF ServerEnterRoom
    <3>2. loggedIn /\ loggedIn'
      BY <2>38, <3>1, LoginTakenFirst DEF ServerEnterRoom
    <3>3. QED
      BY <2>38, <3>2, OnceLoggedIn DEF ServerStep
  <2>39. CASE ServerLeaveRoom
    <3>1. Takes("LEAVE_ROOM")
      BY <2>39 DEF ServerLeaveRoom
    <3>2. loggedIn /\ loggedIn'
      BY <2>39, <3>1, LoginTakenFirst DEF ServerLeaveRoom
    <3>3. QED
      BY <2>39, <3>2, OnceLoggedIn DEF ServerStep
  <2>40. CASE ServerReply
    <3>1. PICK type \in RequestType \ {"USER_LOGIN"} : Takes(type)
      BY <2>40 DEF ServerReply, RequestType
    <3>2. loggedIn /\ loggedIn'
      BY <2>40, <3>1, LoginTakenFirst DEF ServerReply
    <3>3. QED
      BY <2>40, <3>2, OnceLoggedIn DEF ServerStep
  <2>41. CASE OtherSpeaks
    <3>1. loggedIn /\ loggedIn'
      BY <2>41 DEF OtherSpeaks, OthersActive
    <3>2. QED
      BY <2>41, <3>1, OnceLoggedIn DEF ServerStep
  <2>42. CASE OtherOpensRoom
    BY <2>42 DEF OtherOpensRoom, OthersActive, NoticesBringId,
          HandlesChannelNotice, LoginFirst, IdPending, Msg
  <2>43. CASE OtherClosesRoom
    BY <2>43 DEF OtherClosesRoom, OthersActive, NoticesBringId,
          HandlesChannelNotice, LoginFirst, IdPending, Msg
  <2>44. CASE ServerStops
    BY <2>44 DEF ServerStops, NoticesBringId, HandlesChannelNotice, LoginFirst,
          IdPending, Msg
  <2>45. CASE UNCHANGED vars
    BY <2>45 DEF vars, NoticesBringId, HandlesChannelNotice, LoginFirst,
          IdPending, Msg
  <2>46. QED
    BY <2>1, <2>2, <2>3, <2>4, <2>5, <2>6, <2>7, <2>8, <2>9, <2>10,
       <2>11, <2>12, <2>13, <2>14, <2>15, <2>16, <2>17, <2>18, <2>19, <2>20,
       <2>21, <2>22, <2>23, <2>24, <2>25, <2>26, <2>27, <2>28, <2>29, <2>30,
       <2>31, <2>32, <2>33, <2>34, <2>35, <2>36, <2>37, <2>38, <2>39, <2>40,
       <2>41, <2>42, <2>43, <2>44, <2>45
       DEF Next, UserStep, MenuStep, RecvStep, ServerStep, OthersStep, Terminated
<1>3. QED
  BY <1>1, <1>2, PTL DEF Spec

(* No handler compares an id with my_id before the login's answer set it.  *)
THEOREM IdIsKnown == Spec => []IdKnownBeforeUse
<1>1. IdInv => IdKnownBeforeUse
  BY DEF IdInv, IdPending, LoginFirst, IdKnownBeforeUse, AtMessage, RecvAt,
        Msg, ReadsMyId, TypeOK
<1>2. QED
  BY <1>1, IdInvariant, PTL

-----------------------------------------------------------------------------
(* The menu never waits for nothing: SetMenu disables the menu before it   *)
(* sends, so the answer, whenever it comes, enables it again.              *)

(* Only the menu thread disables the menu, and only for a packet that is   *)
(* answered: everywhere else on its way round the loop it stays enabled.   *)
MenuEnabledUnlessWaiting ==
    /\ menuPc \in {"choose", "LEAVE_ROOM"} \union MENU_SELECT => menu_enable
    /\ menuPc = "send" /\ ~menu_enable => req.type \in Answered

DeadOnlyWhenDisconnected == recvPc = "dead" => socket # "open"

WakeupInv ==
    TypeOK /\ MenuEnabledUnlessWaiting /\ NoLostWakeup /\ DeadOnlyWhenDisconnected

(* On an open connection a packet joins those that are on their way.       *)
LEMMA TransmitKeeps ==
    ASSUME TypeOK, NEW packet \in Request, Transmit(packet), socket = "open"
    PROVE  /\ \E i \in 1..Len(outbound') : outbound'[i] = packet
           /\ \A i \in 1..Len(outbound) :
                i \in 1..Len(outbound') /\ outbound'[i] = outbound[i]
<1>1. outbound \in Seq(Request) /\ outbound' = Append(outbound, packet)
  BY DEF TypeOK, Transmit
<1>2. /\ Len(outbound') = Len(outbound) + 1 /\ outbound'[Len(outbound) + 1] = packet
      /\ \A i \in 1..Len(outbound) : outbound'[i] = outbound[i]
  BY <1>1, AppendProperties
<1>3. Len(outbound) + 1 \in 1..Len(outbound')
  BY <1>1, <1>2
<1>4. QED
  BY <1>1, <1>2, <1>3

(* A request that is not answered leaves the ones behind it in the queue.  *)
LEMMA TakesKeeps ==
    ASSUME TypeOK, NEW type, Takes(type), type \notin Answered,
           NEW i \in 1..Len(outbound), outbound[i].type \in Answered
    PROVE  \E j \in 1..Len(outbound') : outbound'[j].type \in Answered
<1>1. /\ outbound \in Seq(Request) /\ outbound # <<>>
      /\ outbound' = Tail(outbound) /\ outbound[1].type = type
  BY DEF TypeOK, Takes, Request1
<1>2. i # 1
  BY <1>1
<1>3. i - 1 \in 1..Len(outbound') /\ outbound'[i - 1] = outbound[i]
  BY <1>1, <1>2, HeadTailProperties
<1>4. QED
  BY <1>3

(* While the menu polls in vain, the server or the receive thread still    *)
(* has to act.                                                             *)
THEOREM NoWakeupIsLost == Spec => []NoLostWakeup
<1>1. Init => WakeupInv
  BY TypeInit DEF Init, WakeupInv, MenuEnabledUnlessWaiting, NoLostWakeup,
        DeadOnlyWhenDisconnected, MENU_SELECT
<1>2. WakeupInv /\ [Next]_vars => WakeupInv'
  <2> SUFFICES ASSUME WakeupInv, [Next]_vars PROVE WakeupInv'
    OBVIOUS
  <2> TypeOK /\ TypeOK'
    BY TypeStep DEF WakeupInv
  <2> USE DEF WakeupInv, shared, menu, recv, wire, server
  <2>1. CASE Login
    BY <2>1 DEF Login, Prepare, MenuAt, LoginPacket, MenuEnabledUnlessWaiting,
          NoLostWakeup, DeadOnlyWhenDisconnected, AnswerToCome, MENU_SELECT,
          Answered
  <2>2. CASE MenuPoll
    BY <2>2 DEF MenuPoll, MenuAt, MenuEnabledUnlessWaiting, NoLostWakeup,
          DeadOnlyWhenDisconnected, AnswerToCome, MENU_SELECT, Answered
  <2>3. CASE MenuPollHoisted
    BY <2>3 DEF MenuPollHoisted, MenuAt, MenuEnabledUnlessWaiting,
          NoLostWakeup, DeadOnlyWhenDisconnected, AnswerToCome, MENU_SELECT,
          Answered
  <2>4. ASSUME NEW entry \in MENU_SELECT, Choose(entry) PROVE WakeupInv'
    BY <2>4 DEF Choose, MenuAt, MenuEnabledUnlessWaiting, NoLostWakeup,
          DeadOnlyWhenDisconnected, AnswerToCome, MENU_SELECT, Answered
  <2>5. ASSUME NEW ch \in ChannelInputs, ChannelMove(ch) PROVE WakeupInv'
    BY <2>5 DEF ChannelMove, Prepare, MenuAt, ChannelMovePacket,
          MenuEnabledUnlessWaiting, NoLostWakeup, DeadOnlyWhenDisconnected,
          AnswerToCome, MENU_SELECT, Answered
  <2>6. ASSUME NEW room \in RoomInputs, RoomCreate(room) PROVE WakeupInv'
    <3>1. CASE BackToPoll
      <4>1. menu_enable
        BY <2>6 DEF RoomCreate, MenuAt, MenuEnabledUnlessWaiting, MENU_SELECT
      <4>2. QED
        BY <2>6, <3>1, <4>1 DEF RoomCreate, BackToPoll,
              MenuEnabledUnlessWaiting, NoLostWakeup,
              DeadOnlyWhenDisconnected, MENU_SELECT
    <3>2. CASE Prepare(CreateRoomPacket(room), FALSE)
      BY <2>6, <3>2 DEF RoomCreate, Prepare, CreateRoomPacket,
            MenuEnabledUnlessWaiting, NoLostWakeup, DeadOnlyWhenDisconnected,
            MENU_SELECT, Answered
    <3>3. QED
      BY <2>6, <3>1, <3>2 DEF RoomCreate
  <2>7. ASSUME NEW room \in RoomInputs, EnterRoomInit(room) PROVE WakeupInv'
    BY <2>7 DEF EnterRoomInit, Prepare, MenuAt, EnterRoomPacket,
          MenuEnabledUnlessWaiting, NoLostWakeup, DeadOnlyWhenDisconnected,
          AnswerToCome, MENU_SELECT, Answered
  <2>8. CASE DisableForUserList
    BY <2>8 DEF DisableForUserList, MenuAt, MenuEnabledUnlessWaiting,
          NoLostWakeup, DeadOnlyWhenDisconnected, AnswerToCome, MENU_SELECT,
          Answered
  <2>9. CASE InRoomUserList
    BY <2>9 DEF InRoomUserList, Prepare, MenuAt, RoomUserListPacket,
          MenuEnabledUnlessWaiting, NoLostWakeup, DeadOnlyWhenDisconnected,
          AnswerToCome, MENU_SELECT, Answered
  <2>10. CASE ChannelChat
    BY <2>10 DEF ChannelChat, Prepare, MenuAt, ChannelChattingPacket,
          MenuEnabledUnlessWaiting, NoLostWakeup, DeadOnlyWhenDisconnected,
          AnswerToCome, MENU_SELECT, Answered
  <2>11. CASE RoomChat
    BY <2>11 DEF RoomChat, Prepare, MenuAt, RoomChattingPacket,
          MenuEnabledUnlessWaiting, NoLostWakeup, DeadOnlyWhenDisconnected,
          AnswerToCome, MENU_SELECT, Answered
  <2>12. CASE LeaveRoom
    BY <2>12 DEF LeaveRoom, Prepare, MenuAt, LeaveRoomPacket,
          MenuEnabledUnlessWaiting, NoLostWakeup, DeadOnlyWhenDisconnected,
          AnswerToCome, MENU_SELECT, Answered
  <2>13. CASE Send
    <3>1. req \in Request /\ Transmit(req)
      BY <2>13 DEF Send, TypeOK
    <3>2. MenuEnabledUnlessWaiting'
      BY <2>13 DEF Send, AfterSend, MenuAt, MenuEnabledUnlessWaiting, Answered,
            MENU_SELECT
    <3>3. ASSUME menuPc' = "poll", ~menu_enable', socket' = "open" PROVE AnswerToCome'
      <4>1. req.type \in Answered /\ socket = "open"
        BY <2>13, <3>1, <3>3 DEF Send, MenuAt, Transmit,
              MenuEnabledUnlessWaiting
      <4>2. QED
        BY <3>1, <4>1, TransmitKeeps DEF AnswerToCome
    <3>4. QED
      BY <2>13, <3>1, <3>2, <3>3 DEF Send, Transmit, NoLostWakeup,
            DeadOnlyWhenDisconnected
  <2>14. CASE ChannelMoved
    BY <2>14 DEF ChannelMoved, MenuAt, MenuEnabledUnlessWaiting,
          NoLostWakeup, DeadOnlyWhenDisconnected, AnswerToCome, MENU_SELECT,
          Answered
  <2>15. CASE ChannelChatted
    BY <2>15 DEF ChannelChatted, MenuAt, MenuEnabledUnlessWaiting,
          NoLostWakeup, DeadOnlyWhenDisconnected, AnswerToCome, MENU_SELECT,
          Answered
  <2>16. CASE RoomLeft
    BY <2>16 DEF RoomLeft, MenuAt, MenuEnabledUnlessWaiting, NoLostWakeup,
          DeadOnlyWhenDisconnected, AnswerToCome, MENU_SELECT, Answered
  <2>17. CASE ExitServer
    BY <2>17 DEF ExitServer, MenuAt, MenuEnabledUnlessWaiting, NoLostWakeup,
          DeadOnlyWhenDisconnected, AnswerToCome, MENU_SELECT, Answered
  <2>18. CASE Exit
    BY <2>18 DEF Exit, MenuAt, MenuEnabledUnlessWaiting, NoLostWakeup,
          DeadOnlyWhenDisconnected, AnswerToCome, MENU_SELECT, Answered
  <2>19. CASE WSARecv
    BY <2>19 DEF WSARecv, RecvAt, MenuEnabledUnlessWaiting, NoLostWakeup,
          DeadOnlyWhenDisconnected, AnswerToCome
  <2>20. CASE WSARecvZero
    BY <2>20 DEF WSARecvZero, RecvAt, MenuEnabledUnlessWaiting, NoLostWakeup,
          DeadOnlyWhenDisconnected, AnswerToCome
  <2>21. CASE WSARecvError
    BY <2>21 DEF WSARecvError, RecvAt, MenuEnabledUnlessWaiting,
          NoLostWakeup, DeadOnlyWhenDisconnected, AnswerToCome
  <2>22. CASE ProcessEnterChannel
    BY <2>22 DEF ProcessEnterChannel, Handling, AtMessage, RecvAt, EnableMenu,
          GoTo, MenuEnabledUnlessWaiting, NoLostWakeup,
          DeadOnlyWhenDisconnected, AnswerToCome
  <2>23. CASE StoreIdAndChannel
    BY <2>23 DEF StoreIdAndChannel, NextMessage, MenuEnabledUnlessWaiting,
          NoLostWakeup, DeadOnlyWhenDisconnected, AnswerToCome
  <2>24. CASE ProcessNotify
    BY <2>24 DEF ProcessNotify, NextMessage, MenuEnabledUnlessWaiting,
          NoLostWakeup, DeadOnlyWhenDisconnected, AnswerToCome
  <2>25. CASE ProcessChatOrList
    BY <2>25 DEF ProcessChatOrList, NextMessage, EnableMenu,
          MenuEnabledUnlessWaiting, NoLostWakeup, DeadOnlyWhenDisconnected,
          AnswerToCome
  <2>26. CASE ProcessEnterRoom
    BY <2>26 DEF ProcessEnterRoom, NextMessage, MenuEnabledUnlessWaiting,
          NoLostWakeup, DeadOnlyWhenDisconnected, AnswerToCome
  <2>27. CASE ProcessRoomCreated
    BY <2>27 DEF ProcessRoomCreated, EnableMenu, GoTo,
          MenuEnabledUnlessWaiting, NoLostWakeup, DeadOnlyWhenDisconnected,
          AnswerToCome
  <2>28. CASE ProcessRoomExists
    BY <2>28 DEF ProcessRoomExists, GoTo, MenuEnabledUnlessWaiting,
          NoLostWakeup, DeadOnlyWhenDisconnected, AnswerToCome
  <2>29. CASE AnswerYes
    BY <2>29 DEF AnswerYes, GoTo, MenuEnabledUnlessWaiting, NoLostWakeup,
          DeadOnlyWhenDisconnected, AnswerToCome
  <2>30. CASE AnswerNo
    BY <2>30 DEF AnswerNo, NextMessage, EnableMenu, MenuEnabledUnlessWaiting,
          NoLostWakeup, DeadOnlyWhenDisconnected, AnswerToCome
  <2>31. CASE SendEnterRoom
    BY <2>31 DEF SendEnterRoom, GoTo, Transmit, MenuEnabledUnlessWaiting,
          NoLostWakeup, DeadOnlyWhenDisconnected, AnswerToCome
  <2>32. CASE EnterRoomSent
    BY <2>32 DEF EnterRoomSent, EnableMenu, GoTo, MenuEnabledUnlessWaiting,
          NoLostWakeup, DeadOnlyWhenDisconnected, AnswerToCome
  <2>33. CASE StoreRoom
    BY <2>33 DEF StoreRoom, NextMessage, MenuEnabledUnlessWaiting,
          NoLostWakeup, DeadOnlyWhenDisconnected, AnswerToCome
  <2>34. CASE AfterBatch
    BY <2>34 DEF AfterBatch, RecvAt, MenuEnabledUnlessWaiting, NoLostWakeup,
          DeadOnlyWhenDisconnected, AnswerToCome
  <2>35. CASE OtherOpensRoom
    BY <2>35 DEF OtherOpensRoom, OthersActive, MenuEnabledUnlessWaiting,
          NoLostWakeup, DeadOnlyWhenDisconnected, AnswerToCome
  <2>36. CASE OtherClosesRoom
    BY <2>36 DEF OtherClosesRoom, OthersActive, MenuEnabledUnlessWaiting,
          NoLostWakeup, DeadOnlyWhenDisconnected, AnswerToCome
  <2>37. CASE ServerStops
    BY <2>37 DEF ServerStops, MenuEnabledUnlessWaiting, NoLostWakeup,
          DeadOnlyWhenDisconnected, AnswerToCome
  <2>38. CASE ServerStep \/ OtherSpeaks
    <3>1. UNCHANGED <<recvPc, menuPc, req, menu_enable, socket>>
      BY <2>38, ServerSays DEF ClientUntouched
    <3>2. CASE \E notice \in Notice : Say(notice)
      BY <3>1, <3>2, SayAppends DEF MenuEnabledUnlessWaiting, NoLostWakeup,
            DeadOnlyWhenDisconnected, AnswerToCome
    <3>3. CASE UNCHANGED inbound /\ (ServerLeaveRoom \/ ServerChangeChannel)
      <4>1. PICK type \in {"LEAVE_ROOM", "CHANGE_CHANNEL"} : Takes(type)
        BY <3>3 DEF ServerLeaveRoom, ServerChangeChannel
      <4>2. type \notin Answered
        BY DEF Answered
      <4>3. AnswerToCome => AnswerToCome'
        BY <3>1, <3>3, <4>1, <4>2, TakesKeeps DEF AnswerToCome
      <4>4. QED
        BY <3>1, <4>3 DEF MenuEnabledUnlessWaiting, NoLostWakeup,
              DeadOnlyWhenDisconnected
    <3>4. QED
      BY <2>38, <3>2, <3>3, ServerSays DEF ClientUntouched
  <2>39. CASE UNCHANGED vars
    BY <2>39 DEF vars, MenuEnabledUnlessWaiting, NoLostWakeup,
          DeadOnlyWhenDisconnected, AnswerToCome
  <2>40. QED
    BY <2>1, <2>2, <2>3, <2>4, <2>5, <2>6, <2>7, <2>8, <2>9, <2>10,
       <2>11, <2>12, <2>13, <2>14, <2>15, <2>16, <2>17, <2>18, <2>19, <2>20,
       <2>21, <2>22, <2>23, <2>24, <2>25, <2>26, <2>27, <2>28, <2>29, <2>30,
       <2>31, <2>32, <2>33, <2>34, <2>35, <2>36, <2>37, <2>38, <2>39
       DEF Next, UserStep, MenuStep, RecvStep, OthersStep, Terminated
<1>3. WakeupInv => NoLostWakeup
  BY DEF WakeupInv
<1>4. QED
  BY <1>1, <1>2, <1>3, PTL DEF Spec

=============================================================================
