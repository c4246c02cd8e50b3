---------------------------- MODULE PatientProofs ----------------------------
(***************************************************************************)
(* Theorems about ChatSession for a user who lets every request finish     *)
(* before the next one, with no other user about.  Then, until the server  *)
(* closes the connection, at most one exchange is under way, and where it  *)
(* stands says what both threads and the server may be doing.              *)
(***************************************************************************)
EXTENDS ChatSessionProofs

PatientSession == Patient /\ NoiseTypes = {}

-----------------------------------------------------------------------------
(* One exchange at a time.                                                 *)

(* The message at the head of the queue the client has to read.            *)
Answer1 == Head(inbound)

(* The receive thread is busy with the message at pos.                     *)
InHand == recvPc \notin {"recv", "dead"} /\ pos <= Len(recv_buffer)

(* No exchange is under way.                                               *)
Quiet ==
    /\ outbound = <<>> /\ inbound = <<>> /\ ~InHand
    /\ socket = "open" => recvPc = "recv"

(* There is one request, or one answer, or one message in hand; only the   *)
(* answer Y makes a request while a message is in hand.  From the moment   *)
(* the user has chosen until the packet is sent nothing else is under way. *)
OneExchange ==
    /\ Len(outbound) <= 1 /\ Len(inbound) <= 1 /\ Len(recv_buffer) <= 1
    /\ outbound = <<>> \/ inbound = <<>>
    /\ recvPc = "dead" => socket # "open"
    /\ InHand /\ ~(outbound = <<>> /\ inbound = <<>>)
         => recvPc \in {"entered", "set_room"}
    /\ menuPc \in MENU_SELECT \union {"login", "list_room", "send"} => Quiet

(* A room has been asked for, and the user may still have to be.           *)
CreateAsked ==
    \/ socket = "open" /\ outbound # <<>> /\ Request1.type = "CREATE_ROOM"
    \/ inbound # <<>> /\ Answer1.type = "NOTIFY_EXIST_ROOM"

CreateUnderWay ==
    \/ CreateAsked
    \/ InHand /\ recvPc = "dispatch" /\ Msg.type = "NOTIFY_EXIST_ROOM"
    \/ recvPc \in {"prompt", "enter_send"}

(* All that time the menu is held: it polls a menu_enable that is false.   *)
HeldMenu ==
    /\ CreateUnderWay => menuPc \in {"poll", "spin"} /\ ~menu_enable
    /\ CreateAsked => recvPc \in {"recv", "dead"}
    /\ menuPc = "send" /\ req.type = "CREATE_ROOM" /\ socket = "open" => ~menu_enable

(* The handlers that take several steps stay with their message.           *)
Handlers ==
    /\ recvPc = "set_id" => Msg.type = "ENTER_CHANNEL"
    /\ recvPc \in {"prompt", "enter_send", "entered", "set_room"}
         => Msg.type = "NOTIFY_EXIST_ROOM"
    /\ recvPc \in {"prompt", "enter_send", "entered"} => Msg.flag

(* What is under way after the answer Y is about the room in hand.         *)
Entering ==
    recvPc \in {"entered", "set_room"} =>
      /\ outbound # <<>> => Request1 = EnterRoomPacket(Msg.index)
      /\ inbound # <<>> => Answer1 = NoticeOf("ENTER_ROOM", 0, Msg.index, TRUE)

-----------------------------------------------------------------------------
(* What the exchange says of the rooms.                                    *)

(* A request that needs the lobby was made from there, and the client has  *)
(* not gone anywhere since, unless into the room the request names.        *)
RequestAtHome(packet) ==
    /\ packet.type \in {"USER_LOGIN", "CHANGE_CHANNEL", "CREATE_ROOM"} => room_index = 0
    /\ packet.type = "CHANGE_CHANNEL" => packet.index \in Channels
    /\ packet.type = "CREATE_ROOM" => packet.index \in Rooms
    /\ packet.type = "ENTER_ROOM" => room_index \in {0, packet.index}

NoticeAtHome(notice) ==
    /\ notice.type \in {"ENTER_CHANNEL", "NOTIFY_EXIST_ROOM"} => room_index = 0
    /\ notice.type = "ENTER_CHANNEL" => notice.index \in Channels
    /\ notice.type = "NOTIFY_EXIST_ROOM" => notice.index \in srvRooms
    /\ notice.type = "ENTER_ROOM" /\ notice.flag
         => notice.index \in srvRooms /\ room_index \in {0, notice.index}

AtHome ==
    /\ srvRooms \subseteq Rooms /\ srvChannel \in Channels
    /\ menuPc \in NeedsLobby \union {"login"} => room_index = 0
    /\ menuPc = "send" => RequestAtHome(req)
    /\ GuardHoldsAtSend
    /\ outbound # <<>> => RequestAtHome(Request1)
    /\ inbound # <<>> => NoticeAtHome(Answer1)
    /\ InHand => NoticeAtHome(Msg)
    /\ menuPc = "CHANGE_CHANNEL" =>
         /\ room_index = 0 /\ req.index \in Channels
         /\ outbound # <<>> => Request1.type = "CHANGE_CHANNEL"
         /\ inbound # <<>> => Answer1.type = "ENTER_CHANNEL"
         /\ InHand => Msg.type = "ENTER_CHANNEL"
    /\ menuPc = "LEAVE_ROOM" =>
         /\ inbound = <<>> /\ ~InHand
         /\ outbound # <<>> => Request1.type = "LEAVE_ROOM"

Agree == room_index = srvRoom

(* Where the server has the client while a message is on its way.          *)
Told(notice) ==
    /\ notice.type = "NOTIFY_EXIST_ROOM"
         => srvRoom = IF notice.flag THEN 0 ELSE notice.index
    /\ notice.type = "ENTER_ROOM" /\ notice.flag => srvRoom = notice.index
    /\ notice.type = "ENTER_ROOM" /\ ~notice.flag => Agree
    /\ notice.type \notin {"NOTIFY_EXIST_ROOM", "ENTER_ROOM"} => Agree

(* On an open connection client and server agree on the room, but for what *)
(* the exchange under way is about to tell one of them.                    *)
RoomsAgree ==
    socket = "open" =>
      /\ outbound # <<>> =>
           /\ Request1.type = "ENTER_ROOM" =>
                srvRoom = 0 /\ (room_index # 0 => Request1.index \in srvRooms)
           /\ Request1.type = "LEAVE_ROOM" => menuPc = "LEAVE_ROOM" \/ room_index = 0
           /\ Request1.type \notin {"ENTER_ROOM", "LEAVE_ROOM"} => Agree
      /\ inbound # <<>> => Told(Answer1)
      /\ InHand /\ recvPc \notin {"entered", "set_room"} => Told(Msg)
      /\ recvPc = "entered" \/ (recvPc = "set_room" /\ Msg.flag)
           => ~(outbound = <<>> /\ inbound = <<>>)
      /\ recvPc = "set_room" /\ ~Msg.flag
           => srvRoom = Msg.index /\ outbound = <<>> /\ inbound = <<>>
      /\ menuPc = "LEAVE_ROOM" /\ outbound = <<>> => srvRoom = 0
      /\ outbound = <<>> /\ inbound = <<>> /\ ~InHand /\ menuPc # "LEAVE_ROOM" => Agree

-----------------------------------------------------------------------------
(* What the exchange says of the channel.                                  *)

(* Nothing is on its way that will change the client's channel or the      *)
(* server's.                                                               *)
NoMoveUnderWay ==
    /\ loggedIn /\ menuPc # "CHANGE_CHANNEL"
    /\ outbound # <<>> => Request1.type \notin {"USER_LOGIN", "CHANGE_CHANNEL"}
    /\ inbound # <<>> => Answer1.type # "ENTER_CHANNEL"
    /\ InHand => Msg.type # "ENTER_CHANNEL"

(* A move the server has not heard of is one the client has stored or is   *)
(* about to; what the server says is the channel it has the client in.     *)
ChannelsAgree ==
    socket = "open" =>
      /\ menuPc = "CHANGE_CHANNEL" =>
           /\ outbound # <<>> => Request1.index = req.index
           /\ outbound = <<>> => srvChannel = req.index
      /\ outbound # <<>> /\ Request1.type = "CHANGE_CHANNEL" /\ menuPc # "CHANGE_CHANNEL"
           => channel_index = Request1.index
      /\ inbound # <<>> /\ Answer1.type = "ENTER_CHANNEL" => Answer1.index = srvChannel
      /\ InHand /\ Msg.type = "ENTER_CHANNEL" => Msg.index = srvChannel
      /\ NoMoveUnderWay => channel_index = srvChannel

PatientExchange == OneExchange /\ HeldMenu /\ Handlers /\ Entering
PatientRooms    == AtHome /\ RoomsAgree
PatientInv      == PatientExchange /\ PatientRooms /\ ChannelsAgree

-----------------------------------------------------------------------------
(* The steps that use the wire, when at most one message is on it.         *)

(* A packet sent when nothing is under way is the only one.                *)
LEMMA SendsOne ==
    ASSUME TypeOK, outbound = <<>>, NEW packet \in Request, Transmit(packet)
    PROVE  /\ UNCHANGED <<inbound, socket>>
           /\ socket = "open" => outbound' # <<>> /\ Request1' = packet
           /\ Len(outbound') <= 1
           /\ socket # "open" => outbound' = <<>>
<1>1. outbound' = <<packet>> \/ outbound' = <<>>
  BY DEF TypeOK, Transmit
<1>2. QED
  BY <1>1 DEF TypeOK, Transmit, Request1

(* The server takes the only request there is.                             *)
LEMMA TakesLast ==
    ASSUME TypeOK, Len(outbound) <= 1, NEW type, Takes(type)
    PROVE  /\ outbound # <<>> /\ outbound' = <<>> /\ socket = "open" /\ Request1.type = type
           /\ Request1 \in Request
<1>1. outbound \in Seq(Request) /\ outbound # <<>> /\ outbound' = Tail(outbound)
  BY DEF TypeOK, Takes
<1>2. Len(outbound) \in Nat /\ Len(outbound) # 0
  BY <1>1, EmptySeq
<1>3. outbound' = <<>>
  BY <1>2, <1>1, HeadTailProperties, EmptySeq
<1>4. QED
  BY <1>3, TakesType DEF Takes, ServerUp

(* What the server then says is the only message there is.                 *)
LEMMA SaysFirst ==
    ASSUME inbound = <<>>, NEW notice, Say(notice)
    PROVE  inbound' # <<>> /\ Len(inbound') = 1 /\ Answer1' = notice
<1>1. inbound' = <<notice>>
  BY DEF Say
<1>2. QED
  BY <1>1 DEF Answer1

(* A read takes the only message there is, and it alone fills the buffer.  *)
LEMMA ReadsAll ==
    ASSUME TypeOK, Len(inbound) <= 1, Len(recv_buffer) <= 1, WSARecv
    PROVE  /\ inbound # <<>> /\ inbound' = <<>> /\ Len(recv_buffer') = 1
           /\ pos' = 1 /\ Msg' = Answer1
<1> USE SessionAssumption
<1>1. PICK k \in 1..BufferSize :
         /\ k <= Len(inbound)
         /\ recv_buffer' = Overwrite(recv_buffer, SubSeq(inbound, 1, k))
         /\ inbound' = SubSeq(inbound, k + 1, Len(inbound))
  BY DEF WSARecv
<1>2. inbound \in Seq(Notice) /\ Len(inbound) \in Nat
  BY DEF TypeOK
<1>3. k = 1 /\ Len(inbound) = 1
  <2>1. k \in Nat /\ 1 <= k /\ k <= Len(inbound) /\ Len(inbound) <= 1
    BY <1>1
  <2>2. \A m, n \in Nat : 1 <= m /\ m <= n /\ n <= 1 => m = 1 /\ n = 1
    OBVIOUS
  <2>3. QED
    BY <1>2, <2>1, <2>2
<1>4. recv_buffer' = SubSeq(inbound, 1, 1) /\ inbound' = SubSeq(inbound, 2, 1)
  <2> DEFINE fresh == SubSeq(inbound, 1, 1)
  <2>1. fresh \in Seq(Notice) /\ Len(fresh) = 1
    BY <1>2, <1>3, SubSeqType
  <2>2. recv_buffer' = fresh \o SubSeq(recv_buffer, Len(fresh) + 1, Len(recv_buffer))
    BY <1>1, <1>3 DEF Overwrite
  <2> HIDE DEF fresh
  <2> DEFINE rest == SubSeq(recv_buffer, 2, Len(recv_buffer))
  <2>3. rest = <<>>
    <3>1. recv_buffer \in Seq(Notice)
      BY DEF TypeOK
    <3>2. Len(recv_buffer) \in Nat /\ ~(2 <= Len(recv_buffer))
      BY <3>1
    <3>3. rest \in Seq(Notice) /\ Len(rest) = 0
      BY <3>1, <3>2, SubSeqType
    <3>4. QED
      BY <3>3, EmptySeq
  <2>4. recv_buffer' = fresh \o <<>>
    <3>1. Len(fresh) + 1 = 2
      BY <2>1
    <3> HIDE DEF rest
    <3>2. recv_buffer' = fresh \o rest
      BY <2>2, <3>1 DEF rest
    <3>3. QED
      BY <2>3, <3>2
  <2>5. recv_buffer' = fresh
    BY <2>1, <2>4, ConcatEmptySeq
  <2>6. QED
    BY <1>1, <1>3, <2>5 DEF fresh
<1>5. inbound' = <<>> /\ Len(recv_buffer') = 1 /\ recv_buffer'[1] = inbound[1]
  BY <1>2, <1>3, <1>4, SubSeqType, EmptySeq
<1>6. pos' = 1 /\ inbound # <<>>
  BY <1>3 DEF WSARecv
<1>7. QED
  BY <1>2, <1>3, <1>5, <1>6 DEF Msg, Answer1

(* And nothing else is, when the server answers at most once.              *)
LEMMA SaysAtMostOne ==
    ASSUME inbound = <<>>, NEW notice, Say(notice) \/ UNCHANGED inbound
    PROVE  Len(inbound') <= 1
<1>1. CASE Say(notice)
  <2>1. inbound' # <<>> /\ Len(inbound') = 1
    BY <1>1, SaysFirst
  <2>2. QED
    BY <2>1
<1>2. CASE UNCHANGED inbound
  BY <1>2, EmptySeq
<1>3. QED
  BY <1>1, <1>2

(* What a sender leaves on the wire when nothing was under way.            *)
LEMMA SendDoes ==
    ASSUME TypeOK, OneExchange, Send
    PROVE  /\ Quiet /\ req \in Request
           /\ inbound' = <<>> /\ UNCHANGED <<shared, recv, server, socket>> /\ Msg' = Msg
           /\ socket = "open" => outbound' # <<>> /\ Request1' = req
           /\ socket # "open" => outbound' = <<>>
           /\ Len(inbound') <= 1 /\ Len(outbound') <= 1
           /\ menuPc = "send" /\ menuPc' = AfterSend(req.type)
           /\ req.type = "CHANGE_CHANNEL" => req' = req
<1>1. Quiet /\ req \in Request /\ Transmit(req)
  BY DEF Send, MenuAt, OneExchange, TypeOK
<1>2. QED
  BY <1>1, SendsOne DEF Send, MenuAt, Quiet, Msg, recv

(* The receive thread sends with a message in hand and nothing on the wire.*)
LEMMA SendEnterRoomDoes ==
    ASSUME TypeOK, OneExchange, SendEnterRoom
    PROVE  /\ recvPc = "enter_send" /\ InHand /\ outbound = <<>> /\ inbound = <<>>
           /\ inbound' = <<>> /\ Msg' = Msg /\ recvPc' = "entered"
           /\ UNCHANGED <<shared, menu, recv_buffer, pos, server, socket>>
           /\ socket = "open" => outbound' # <<>> /\ Request1' = EnterRoomPacket(Msg.index)
           /\ socket # "open" => outbound' = <<>>
           /\ Len(inbound') <= 1 /\ Len(outbound') <= 1
<1>1. recvPc = "enter_send" /\ InHand /\ outbound = <<>> /\ inbound = <<>>
  BY DEF SendEnterRoom, RecvAt, TypeOK, InHand, OneExchange
<1>2. EnterRoomPacket(Msg.index) \in Request /\ Transmit(EnterRoomPacket(Msg.index))
  BY <1>1, MsgType, PacketTypes DEF SendEnterRoom, InHand
<1>3. QED
  BY <1>1, <1>2, SendsOne DEF SendEnterRoom, GoTo, Msg

(* What WSARecv does in a patient session.                                 *)
LEMMA WSARecvDoes ==
    ASSUME TypeOK, OneExchange, WSARecv
    PROVE  /\ inbound # <<>> /\ inbound' = <<>> /\ Len(recv_buffer') = 1
           /\ pos' = 1 /\ Msg' = Answer1 /\ Request1' = Request1
           /\ recvPc = "recv" /\ recvPc' = "dispatch"
           /\ UNCHANGED <<shared, menu, outbound, socket, server>>
BY ReadsAll DEF OneExchange, WSARecv, RecvAt, Request1

(* What is left when the server has taken a request.                       *)
LEMMA TakesDoes ==
    ASSUME TypeOK, OneExchange, NEW type, Takes(type)
    PROVE  /\ outbound # <<>> /\ outbound' = <<>> /\ inbound = <<>>
           /\ socket = "open" /\ Request1.type = type /\ Request1 \in Request
           /\ UNCHANGED <<socket, shared, menu, recv>> /\ Msg' = Msg
           /\ Len(outbound') = 0
BY TakesLast, EmptySeq DEF Takes, OneExchange, Msg, recv

-----------------------------------------------------------------------------
(* The invariant is inductive.                                             *)

(* Every step keeps to one exchange, and holds the menu while it asks.     *)
LEMMA ExchangeStep ==
    ASSUME PatientSession, Served, PatientInv, TypeOK, [Next]_vars
    PROVE  PatientExchange'
<1> USE SessionAssumption, MsgType DEF PatientSession, PatientInv, PatientExchange,
      PatientRooms, TypeOK, UserReady,
      MENU_SELECT, shared, menu, recv, wire, server, RecvAt, MenuAt
<1> USE DEF Msg, Request1, Answer1
<1>1. CASE Login
  BY <1>1 DEF Login, Prepare, LoginPacket, OneExchange, HeldMenu, Handlers,
        Entering, Quiet, InHand, CreateAsked, CreateUnderWay
<1>2. CASE MenuPoll
  BY <1>2 DEF MenuPoll, OneExchange, HeldMenu, Handlers, Entering, Quiet,
        InHand, CreateAsked, CreateUnderWay
<1>3. CASE MenuPollHoisted
  BY <1>3 DEF MenuPollHoisted, OneExchange, HeldMenu, Handlers, Entering,
        Quiet, InHand, CreateAsked, CreateUnderWay
<1>4. ASSUME NEW entry \in MENU_SELECT, Choose(entry) PROVE PatientExchange'
  BY <1>4 DEF Choose, Refused, NeedsRoom, OneExchange, HeldMenu, Handlers,
        Entering, Quiet, InHand, CreateAsked, CreateUnderWay
<1>5. ASSUME NEW ch \in ChannelInputs, ChannelMove(ch) PROVE PatientExchange'
  BY <1>5 DEF ChannelMove, Prepare, ChannelMovePacket, OneExchange, HeldMenu,
        Handlers, Entering, Quiet, InHand, CreateAsked, CreateUnderWay
<1>6. ASSUME NEW room \in RoomInputs, RoomCreate(room) PROVE PatientExchange'
  BY <1>6 DEF RoomCreate, Prepare, BackToPoll, CreateRoomPacket, Rooms,
        OneExchange, HeldMenu, Handlers, Entering, Quiet, InHand, CreateAsked,
        CreateUnderWay
<1>7. ASSUME NEW room \in RoomInputs, EnterRoomInit(room) PROVE PatientExchange'
  BY <1>7 DEF EnterRoomInit, Prepare, EnterRoomPacket, OneExchange, HeldMenu,
        Handlers, Entering, Quiet, InHand, CreateAsked, CreateUnderWay
<1>8. CASE DisableForUserList
  BY <1>8 DEF DisableForUserList, OneExchange, HeldMenu, Handlers, Entering,
        Quiet, InHand, CreateAsked, CreateUnderWay
<1>9. CASE InRoomUserList
  BY <1>9 DEF InRoomUserList, Prepare, RoomUserListPacket, OneExchange,
        HeldMenu, Handlers, Entering, Quiet, InHand, CreateAsked,
        CreateUnderWay
<1>10. CASE ChannelChat
  BY <1>10 DEF ChannelChat, Prepare, ChannelChattingPacket, OneExchange,
        HeldMenu, Handlers, Entering, Quiet, InHand, CreateAsked,
        CreateUnderWay
<1>11. CASE RoomChat
  BY <1>11 DEF RoomChat, Prepare, RoomChattingPacket, OneExchange, HeldMenu,
        Handlers, Entering, Quiet, InHand, CreateAsked, CreateUnderWay
<1>12. CASE LeaveRoom
  BY <1>12 DEF LeaveRoom, Prepare, LeaveRoomPacket, OneExchange, HeldMenu,
        Handlers, Entering, Quiet, InHand, CreateAsked, CreateUnderWay
<1>13. CASE ChannelMoved
  BY <1>13 DEF ChannelMoved, OneExchange, HeldMenu, Handlers, Entering, Quiet,
        InHand, CreateAsked, CreateUnderWay
<1>14. CASE ChannelChatted
  BY <1>14 DEF ChannelChatted, OneExchange, HeldMenu, Handlers, Entering,
        Quiet, InHand, CreateAsked, CreateUnderWay
<1>15. CASE RoomLeft
  BY <1>15 DEF RoomLeft, OneExchange, HeldMenu, Handlers, Entering, Quiet,
        InHand, CreateAsked, CreateUnderWay
<1>16. CASE ExitServer
  BY <1>16 DEF ExitServer, OneExchange, HeldMenu, Handlers, Entering, Quiet,
        InHand, CreateAsked, CreateUnderWay
<1>17. CASE Exit
  BY <1>17 DEF Exit, OneExchange, HeldMenu, Handlers, Entering, Quiet, InHand,
        CreateAsked, CreateUnderWay
<1>18. CASE WSARecvZero
  BY <1>18 DEF Served, WSARecvZero, OneExchange, HeldMenu, Handlers, Entering, Quiet,
        InHand, CreateAsked, CreateUnderWay
<1>19. CASE WSARecvError
  BY <1>19 DEF WSARecvError, OneExchange, HeldMenu, Handlers, Entering, Quiet,
        InHand, CreateAsked, CreateUnderWay
<1>20. CASE ProcessEnterChannel
  BY <1>20 DEF ProcessEnterChannel, EnableMenu, GoTo, Handling, AtMessage,
        OneExchange, HeldMenu, Handlers, Entering, Quiet, InHand, CreateAsked,
        CreateUnderWay
<1>21. CASE StoreIdAndChannel
  BY <1>21 DEF StoreIdAndChannel, NextMessage, OneExchange, HeldMenu,
        Handlers, Entering, Quiet, InHand, CreateAsked, CreateUnderWay
<1>22. CASE ProcessNotify
  BY <1>22 DEF ProcessNotify, NextMessage, Handling, AtMessage, OneExchange,
        HeldMenu, Handlers, Entering, Quiet, InHand, CreateAsked,
        CreateUnderWay
<1>23. CASE ProcessChatOrList
  BY <1>23 DEF ProcessChatOrList, EnableMenu, NextMessage, Handling,
        AtMessage, ReadsMyId, OneExchange, HeldMenu, Handlers, Entering,
        Quiet, InHand, CreateAsked, CreateUnderWay
<1>24. CASE ProcessEnterRoom
  BY <1>24 DEF ProcessEnterRoom, NextMessage, Handling, AtMessage,
        OneExchange, HeldMenu, Handlers, Entering, Quiet, InHand, CreateAsked,
        CreateUnderWay
<1>25. CASE ProcessRoomCreated
  BY <1>25 DEF ProcessRoomCreated, EnableMenu, GoTo, Handling, AtMessage,
        OneExchange, HeldMenu, Handlers, Entering, Quiet, InHand, CreateAsked,
        CreateUnderWay
<1>26. CASE ProcessRoomExists
  BY <1>26 DEF ProcessRoomExists, GoTo, Handling, AtMessage, OneExchange,
        HeldMenu, Handlers, Entering, Quiet, InHand, CreateAsked,
        CreateUnderWay
<1>27. CASE AnswerYes
  BY <1>27 DEF AnswerYes, GoTo, OneExchange, HeldMenu, Handlers, Entering,
        Quiet, InHand, CreateAsked, CreateUnderWay
<1>28. CASE AnswerNo
  BY <1>28 DEF AnswerNo, EnableMenu, NextMessage, OneExchange, HeldMenu,
        Handlers, Entering, Quiet, InHand, CreateAsked, CreateUnderWay
<1>29. CASE EnterRoomSent
  BY <1>29 DEF EnterRoomSent, EnableMenu, GoTo, OneExchange, HeldMenu,
        Handlers, Entering, Quiet, InHand, CreateAsked, CreateUnderWay
<1>30. CASE StoreRoom
  BY <1>30 DEF StoreRoom, NextMessage, EnterRoomPacket, NoticeOf, OneExchange,
        HeldMenu, Handlers, Entering, Quiet, InHand, CreateAsked,
        CreateUnderWay
<1>31. CASE AfterBatch
  BY <1>31 DEF AfterBatch, OneExchange, HeldMenu, Handlers, Entering, Quiet,
        InHand, CreateAsked, CreateUnderWay
<1>32. CASE ServerStops
  BY <1>32 DEF ServerStops, OneExchange, HeldMenu, Handlers, Entering, Quiet,
        InHand, CreateAsked, CreateUnderWay
<1> HIDE MsgType DEF Msg, Request1, Answer1
<1>33. CASE Send
  <2>1. OneExchange'
    BY <1>33, SendDoes DEF AfterSend, Request, OneExchange, Quiet, InHand
  <2>2. HeldMenu'
    BY <1>33, SendDoes DEF AfterSend, Request, HeldMenu, CreateAsked,
          CreateUnderWay, OneExchange, Quiet, InHand
  <2>3. Handlers'
    BY <1>33, SendDoes DEF AfterSend, Request, Handlers
  <2>4. Entering'
    BY <1>33, SendDoes DEF AfterSend, Request, Entering, OneExchange, InHand,
          Quiet, Handlers
  <2>5. QED
    BY <2>1, <2>2, <2>3, <2>4
<1>34. CASE WSARecv
  <2>1. /\ inbound # <<>> /\ inbound' = <<>> /\ Len(recv_buffer') = 1
        /\ pos' = 1 /\ Msg' = Answer1 /\ Request1' = Request1
        /\ recvPc = "recv" /\ recvPc' = "dispatch"
        /\ UNCHANGED <<shared, menu, outbound, socket, server>>
    BY <1>34, WSARecvDoes
  <2>2. QED
    BY <1>34, <2>1 DEF OneExchange, HeldMenu, Handlers, Entering, Quiet,
          InHand, CreateAsked, CreateUnderWay
<1>35. CASE SendEnterRoom
  <2>1. /\ recvPc = "enter_send" /\ InHand /\ outbound = <<>> /\ inbound = <<>>
        /\ inbound' = <<>> /\ Msg' = Msg /\ recvPc' = "entered"
        /\ UNCHANGED <<shared, menu, recv_buffer, pos, server, socket>>
        /\ socket = "open" => outbound' # <<>> /\ Request1' = EnterRoomPacket(Msg.index)
        /\ socket # "open" => outbound' = <<>>
        /\ Len(inbound') <= 1 /\ Len(outbound') <= 1
    BY <1>35, SendEnterRoomDoes
  <2>2. QED
    BY <1>35, <2>1 DEF EnterRoomPacket, OneExchange, HeldMenu, Handlers,
          Entering, Quiet, InHand, CreateAsked, CreateUnderWay
<1>36. CASE ServerLogin
  <2>1. /\ outbound # <<>> /\ outbound' = <<>> /\ inbound = <<>> /\ socket = "open"
        /\ Request1.type = "USER_LOGIN" /\ Request1 \in Request
        /\ UNCHANGED <<socket, shared, menu, recv>> /\ Msg' = Msg /\ Len(outbound') = 0
    BY <1>36, TakesDoes DEF ServerLogin
  <2>2. /\ inbound' # <<>> /\ Len(inbound') = 1
        /\ Answer1' = NoticeOf("ENTER_CHANNEL", Self, srvChannel, FALSE)
    BY <1>36, <2>1, SaysFirst DEF ServerLogin
  <2>3. QED
    BY <1>36, <2>1, <2>2 DEF ServerLogin, NoticeOf, EnterRoomPacket, Request,
          OneExchange, HeldMenu, Handlers, Entering, Quiet, InHand,
          CreateAsked, CreateUnderWay
<1>37. CASE ServerChangeChannel
  <2>1. /\ outbound # <<>> /\ outbound' = <<>> /\ inbound = <<>> /\ socket = "open"
        /\ Request1.type = "CHANGE_CHANNEL" /\ Request1 \in Request
        /\ UNCHANGED <<socket, shared, menu, recv>> /\ Msg' = Msg /\ Len(outbound') = 0
    BY <1>37, TakesDoes DEF ServerChangeChannel
  <2>2. \/ inbound' = <<>> /\ Len(inbound') = 0
        \/ /\ inbound' # <<>> /\ Len(inbound') = 1
           /\ Answer1' = NoticeOf("ENTER_CHANNEL", Self, Request1.index, FALSE)
    BY <1>37, <2>1, SaysFirst, EmptySeq DEF ServerChangeChannel
  <2>3. Len(inbound') <= 1
    BY <1>37, <2>1, SaysAtMostOne DEF ServerChangeChannel
  <2>4. OneExchange'
    BY <2>1, <2>3 DEF OneExchange, InHand, Quiet
  <2>5. HeldMenu'
    BY <1>37, <2>1, <2>2, <2>3 DEF ServerChangeChannel, NoticeOf,
          EnterRoomPacket, Request, HeldMenu, CreateAsked, CreateUnderWay,
          OneExchange, Quiet, InHand
  <2>6. Handlers'
    BY <2>1, <2>2, <2>3 DEF Handlers
  <2>7. Entering'
    BY <1>37, <2>1, <2>2, <2>3 DEF ServerChangeChannel, NoticeOf,
          EnterRoomPacket, Request, Entering, OneExchange, InHand, Quiet,
          Handlers
  <2>8. QED
    BY <2>4, <2>5, <2>6, <2>7
<1>38. CASE ServerCreateRoom
  <2>1. /\ outbound # <<>> /\ outbound' = <<>> /\ inbound = <<>> /\ socket = "open"
        /\ Request1.type = "CREATE_ROOM" /\ Request1 \in Request
        /\ UNCHANGED <<socket, shared, menu, recv>> /\ Msg' = Msg /\ Len(outbound') = 0
    BY <1>38, TakesDoes DEF ServerCreateRoom
  <2>2. /\ inbound' # <<>> /\ Len(inbound') = 1
        /\ Answer1' = NoticeOf("NOTIFY_EXIST_ROOM", 0, Request1.index,
                               Request1.index \in srvRooms)
    BY <1>38, <2>1, SaysFirst DEF ServerCreateRoom
  <2>3. QED
    BY <1>38, <2>1, <2>2 DEF ServerCreateRoom, NoticeOf, EnterRoomPacket,
          Request, OneExchange, HeldMenu, Handlers, Entering, Quiet, InHand,
          CreateAsked, CreateUnderWay
<1>39. CASE ServerEnterRoom
  <2>1. /\ outbound # <<>> /\ outbound' = <<>> /\ inbound = <<>> /\ socket = "open"
        /\ Request1.type = "ENTER_ROOM" /\ Request1 \in Request
        /\ UNCHANGED <<socket, shared, menu, recv>> /\ Msg' = Msg /\ Len(outbound') = 0
    BY <1>39, TakesDoes DEF ServerEnterRoom
  <2>2. /\ inbound' # <<>> /\ Len(inbound') = 1
        /\ Answer1' = NoticeOf("ENTER_ROOM", 0, Request1.index,
                               Request1.index \in srvRooms)
    BY <1>39, <2>1, SaysFirst DEF ServerEnterRoom
  <2>3. OneExchange'
    BY <2>1, <2>2 DEF OneExchange, Quiet, InHand
  <2>4. HeldMenu'
    BY <1>39, <2>1, <2>2 DEF ServerEnterRoom, NoticeOf, EnterRoomPacket,
          Request, HeldMenu, CreateAsked, CreateUnderWay, OneExchange, Quiet,
          InHand
  <2>5. Handlers'
    BY <2>1, <2>2 DEF Handlers
  <2>6. Entering'
    <3> SUFFICES ASSUME recvPc \in {"entered", "set_room"}
                 PROVE  Answer1' = NoticeOf("ENTER_ROOM", 0, Msg.index, TRUE)
      BY <2>1 DEF Entering
    <3>1. InHand /\ Request1.index = Msg.index /\ Msg.type = "NOTIFY_EXIST_ROOM"
      BY <2>1 DEF InHand, Entering, EnterRoomPacket, Handlers
    <3>2. Msg.index \in srvRooms
      BY <3>1 DEF AtHome, NoticeAtHome
    <3>3. (Request1.index \in srvRooms) = TRUE
      BY <3>1, <3>2
    <3>4. QED
      BY <2>2, <3>1, <3>3
  <2>7. QED
    BY <2>3, <2>4, <2>5, <2>6
<1>40. CASE ServerLeaveRoom
  <2>1. /\ outbound # <<>> /\ outbound' = <<>> /\ inbound = <<>> /\ socket = "open"
        /\ Request1.type = "LEAVE_ROOM" /\ Request1 \in Request
        /\ UNCHANGED <<socket, shared, menu, recv>> /\ Msg' = Msg /\ Len(outbound') = 0
    BY <1>40, TakesDoes DEF ServerLeaveRoom
  <2>2. inbound' = <<>>
    BY <1>40, <2>1 DEF ServerLeaveRoom
  <2>3. QED
    BY <1>40, <2>1, <2>2 DEF ServerLeaveRoom, NoticeOf, EnterRoomPacket,
          Request, OneExchange, HeldMenu, Handlers, Entering, Quiet, InHand,
          CreateAsked, CreateUnderWay
<1>41. CASE ServerReply
  <2>1. PICK type \in {"ROOM_LIST", "ROOM_CHATTING", "CHANNEL_CHATTING"} :
          Takes(type) /\ \E id, index : Say(NoticeOf(type, id, index, FALSE))
    BY <1>41, TRUE DEF ServerReply
  <2>2. /\ outbound # <<>> /\ outbound' = <<>> /\ inbound = <<>> /\ socket = "open"
        /\ Request1.type = type
        /\ UNCHANGED <<socket, shared, menu, recv, server>> /\ Msg' = Msg
    BY <1>41, <2>1, TakesDoes DEF ServerReply
  <2>3. inbound' # <<>> /\ Len(inbound') = 1 /\ Answer1'.type = type
    BY <1>41, <2>1, <2>2, SaysFirst DEF NoticeOf
  <2>4. OneExchange'
    BY <2>1, <2>2, <2>3 DEF OneExchange, Quiet, InHand
  <2>5. HeldMenu'
    BY <2>1, <2>2, <2>3 DEF EnterRoomPacket, HeldMenu, CreateAsked,
          CreateUnderWay, OneExchange, Quiet, InHand
  <2>6. Handlers'
    BY <2>1, <2>2, <2>3 DEF Handlers
  <2>7. Entering'
    BY <2>1, <2>2, <2>3 DEF EnterRoomPacket, Entering, OneExchange, InHand,
          Quiet, Handlers
  <2>8. QED
    BY <2>4, <2>5, <2>6, <2>7
<1>42. CASE OtherSpeaks \/ OtherOpensRoom \/ OtherClosesRoom
  BY <1>42 DEF OtherSpeaks, OtherOpensRoom, OtherClosesRoom, OthersActive
<1>43. CASE UNCHANGED vars
  <2>1. /\ UNCHANGED <<menu, recv, wire, server, shared>>
        /\ Msg' = Msg /\ Request1' = Request1 /\ Answer1' = Answer1
    BY <1>43 DEF vars, Msg, Request1, Answer1
  <2>2. OneExchange'
    BY <2>1 DEF OneExchange, Quiet, InHand
  <2>3. HeldMenu'
    BY <2>1 DEF HeldMenu, CreateAsked, CreateUnderWay, OneExchange, Quiet,
          InHand
  <2>4. Handlers'
    BY <2>1 DEF Handlers
  <2>5. Entering'
    BY <2>1 DEF Entering, OneExchange, InHand, Quiet, Handlers
  <2>6. QED
    BY <2>2, <2>3, <2>4, <2>5
<1>44. QED
  BY <1>1, <1>2, <1>3, <1>4, <1>5, <1>6, <1>7, <1>8, <1>9, <1>10, <1>11,
     <1>12, <1>13, <1>14, <1>15, <1>16, <1>17, <1>18, <1>19, <1>20, <1>21,
     <1>22, <1>23, <1>24, <1>25, <1>26, <1>27, <1>28, <1>29, <1>30, <1>31,
     <1>32, <1>33, <1>34, <1>35, <1>36, <1>37, <1>38, <1>39, <1>40, <1>41,
     <1>42, <1>43
     DEF Next, UserStep, MenuStep, RecvStep, ServerStep, OthersStep, Terminated

(* And every step keeps what the exchange says of the rooms.               *)
LEMMA RoomsStep ==
    ASSUME PatientSession, Served, PatientInv, TypeOK, [Next]_vars
    PROVE  PatientRooms'
<1> USE SessionAssumption, MsgType DEF PatientSession, PatientInv, PatientExchange,
      PatientRooms, TypeOK, UserReady,
      MENU_SELECT, shared, menu, recv, wire, server, RecvAt, MenuAt
<1> USE DEF Msg, Request1, Answer1
<1>1. CASE Login
  BY <1>1 DEF Login, Prepare, LoginPacket, AtHome, RoomsAgree, RequestAtHome,
        GuardHoldsAtSend, NoticeAtHome, Agree, Told, OneExchange, Handlers,
        Entering, Quiet, InHand, NeedsLobby
<1>2. CASE MenuPoll
  BY <1>2 DEF MenuPoll, AtHome, RoomsAgree, RequestAtHome, GuardHoldsAtSend,
        NoticeAtHome, Agree, Told, OneExchange, Handlers, Entering, Quiet,
        InHand, NeedsLobby
<1>3. CASE MenuPollHoisted
  BY <1>3 DEF MenuPollHoisted, AtHome, RoomsAgree, RequestAtHome,
        GuardHoldsAtSend, NoticeAtHome, Agree, Told, OneExchange, Handlers,
        Entering, Quiet, InHand, NeedsLobby
<1>4. ASSUME NEW entry \in MENU_SELECT, Choose(entry) PROVE PatientRooms'
  BY <1>4 DEF Choose, Refused, NeedsRoom, AtHome, RoomsAgree, RequestAtHome,
        GuardHoldsAtSend, NoticeAtHome, Agree, Told, OneExchange, Handlers,
        Entering, Quiet, InHand, NeedsLobby
<1>5. ASSUME NEW ch \in ChannelInputs, ChannelMove(ch) PROVE PatientRooms'
  BY <1>5 DEF ChannelMove, Prepare, ChannelMovePacket, AtHome, RoomsAgree,
        RequestAtHome, GuardHoldsAtSend, NoticeAtHome, Agree, Told,
        OneExchange, Handlers, Entering, Quiet, InHand, NeedsLobby
<1>6. ASSUME NEW room \in RoomInputs, RoomCreate(room) PROVE PatientRooms'
  BY <1>6 DEF RoomCreate, Prepare, BackToPoll, CreateRoomPacket, Rooms,
        AtHome, RoomsAgree, RequestAtHome, GuardHoldsAtSend, NoticeAtHome,
        Agree, Told, OneExchange, Handlers, Entering, Quiet, InHand,
        NeedsLobby
<1>7. ASSUME NEW room \in RoomInputs, EnterRoomInit(room) PROVE PatientRooms'
  BY <1>7 DEF EnterRoomInit, Prepare, EnterRoomPacket, AtHome, RoomsAgree,
        RequestAtHome, GuardHoldsAtSend, NoticeAtHome, Agree, Told,
        OneExchange, Handlers, Entering, Quiet, InHand, NeedsLobby
<1>8. CASE DisableForUserList
  BY <1>8 DEF DisableForUserList, AtHome, RoomsAgree, RequestAtHome,
        GuardHoldsAtSend, NoticeAtHome, Agree, Told, OneExchange, Handlers,
        Entering, Quiet, InHand, NeedsLobby
<1>9. CASE InRoomUserList
  BY <1>9 DEF InRoomUserList, Prepare, RoomUserListPacket, AtHome, RoomsAgree,
        RequestAtHome, GuardHoldsAtSend, NoticeAtHome, Agree, Told,
        OneExchange, Handlers, Entering, Quiet, InHand, NeedsLobby
<1>10. CASE ChannelChat
  BY <1>10 DEF ChannelChat, Prepare, ChannelChattingPacket, AtHome,
        RoomsAgree, RequestAtHome, GuardHoldsAtSend, NoticeAtHome, Agree,
        Told, OneExchange, Handlers, Entering, Quiet, InHand, NeedsLobby
<1>11. CASE RoomChat
  BY <1>11 DEF RoomChat, Prepare, RoomChattingPacket, AtHome, RoomsAgree,
        RequestAtHome, GuardHoldsAtSend, NoticeAtHome, Agree, Told,
        OneExchange, Handlers, Entering, Quiet, InHand, NeedsLobby
<1>12. CASE LeaveRoom
  BY <1>12 DEF LeaveRoom, Prepare, LeaveRoomPacket, AtHome, RoomsAgree,
        RequestAtHome, GuardHoldsAtSend, NoticeAtHome, Agree, Told,
        OneExchange, Handlers, Entering, Quiet, InHand, NeedsLobby
<1>13. CASE ChannelMoved
  BY <1>13 DEF ChannelMoved, AtHome, RoomsAgree, RequestAtHome,
        GuardHoldsAtSend, NoticeAtHome, Agree, Told, OneExchange, Handlers,
        Entering, Quiet, InHand, NeedsLobby
<1>14. CASE ChannelChatted
  BY <1>14 DEF ChannelChatted, AtHome, RoomsAgree, RequestAtHome,
        GuardHoldsAtSend, NoticeAtHome, Agree, Told, OneExchange, Handlers,
        Entering, Quiet, InHand, NeedsLobby
<1>15. CASE RoomLeft
  BY <1>15 DEF RoomLeft, AtHome, RoomsAgree, RequestAtHome, GuardHoldsAtSend,
        NoticeAtHome, Agree, Told, OneExchange, Handlers, Entering, Quiet,
        InHand, NeedsLobby
<1>16. CASE ExitServer
  BY <1>16 DEF ExitServer, AtHome, RoomsAgree, RequestAtHome,
        GuardHoldsAtSend, NoticeAtHome, Agree, Told, OneExchange, Handlers,
        Entering, Quiet, InHand, NeedsLobby
<1>17. CASE Exit
  BY <1>17 DEF Exit, AtHome, RoomsAgree, RequestAtHome, GuardHoldsAtSend,
        NoticeAtHome, Agree, Told, OneExchange, Handlers, Entering, Quiet,
        InHand, NeedsLobby
<1>18. CASE WSARecvZero
  BY <1>18 DEF Served, WSARecvZero, AtHome, RoomsAgree, RequestAtHome,
        GuardHoldsAtSend, NoticeAtHome, Agree, Told, OneExchange, Handlers,
        Entering, Quiet, InHand, NeedsLobby
<1>19. CASE WSARecvError
  BY <1>19 DEF WSARecvError, AtHome, RoomsAgree, RequestAtHome,
        GuardHoldsAtSend, NoticeAtHome, Agree, Told, OneExchange, Handlers,
        Entering, Quiet, InHand, NeedsLobby
<1>20. CASE ProcessEnterChannel
  BY <1>20 DEF ProcessEnterChannel, EnableMenu, GoTo, Handling, AtMessage,
        AtHome, RoomsAgree, RequestAtHome, GuardHoldsAtSend, NoticeAtHome,
        Agree, Told, OneExchange, Handlers, Entering, Quiet, InHand,
        NeedsLobby
<1>21. CASE StoreIdAndChannel
  BY <1>21 DEF StoreIdAndChannel, NextMessage, AtHome, RoomsAgree,
        RequestAtHome, GuardHoldsAtSend, NoticeAtHome, Agree, Told,
        OneExchange, Handlers, Entering, Quiet, InHand, NeedsLobby
<1>22. CASE ProcessNotify
  BY <1>22 DEF ProcessNotify, NextMessage, Handling, AtMessage, AtHome,
        RoomsAgree, RequestAtHome, GuardHoldsAtSend, NoticeAtHome, Agree,
        Told, OneExchange, Handlers, Entering, Quiet, InHand, NeedsLobby
<1>23. CASE ProcessChatOrList
  <2>1. AtHome'
    BY <1>23 DEF ProcessChatOrList, EnableMenu, NextMessage, Handling,
          AtMessage, ReadsMyId, AtHome, RequestAtHome, GuardHoldsAtSend,
          NoticeAtHome, OneExchange, InHand, Quiet, NeedsLobby, Entering,
          Handlers
  <2>2. RoomsAgree'
    BY <1>23 DEF ProcessChatOrList, EnableMenu, NextMessage, Handling,
          AtMessage, ReadsMyId, RoomsAgree, Agree, Told, OneExchange, InHand,
          Quiet, AtHome, RequestAtHome, GuardHoldsAtSend, NoticeAtHome,
          NeedsLobby, Entering, Handlers
  <2>3. QED
    BY <2>1, <2>2
<1>24. CASE ProcessEnterRoom
  BY <1>24 DEF ProcessEnterRoom, NextMessage, Handling, AtMessage, AtHome,
        RoomsAgree, RequestAtHome, GuardHoldsAtSend, NoticeAtHome, Agree,
        Told, OneExchange, Handlers, Entering, Quiet, InHand, NeedsLobby
<1>25. CASE ProcessRoomCreated
  BY <1>25 DEF ProcessRoomCreated, EnableMenu, GoTo, Handling, AtMessage,
        AtHome, RoomsAgree, RequestAtHome, GuardHoldsAtSend, NoticeAtHome,
        Agree, Told, OneExchange, Handlers, Entering, Quiet, InHand,
        NeedsLobby
<1>26. CASE ProcessRoomExists
  BY <1>26 DEF ProcessRoomExists, GoTo, Handling, AtMessage, AtHome,
        RoomsAgree, RequestAtHome, GuardHoldsAtSend, NoticeAtHome, Agree,
        Told, OneExchange, Handlers, Entering, Quiet, InHand, NeedsLobby
<1>27. CASE AnswerYes
  BY <1>27 DEF AnswerYes, GoTo, AtHome, RoomsAgree, RequestAtHome,
        GuardHoldsAtSend, NoticeAtHome, Agree, Told, OneExchange, Handlers,
        Entering, Quiet, InHand, NeedsLobby
<1>28. CASE AnswerNo
  BY <1>28 DEF AnswerNo, EnableMenu, NextMessage, AtHome, RoomsAgree,
        RequestAtHome, GuardHoldsAtSend, NoticeAtHome, Agree, Told,
        OneExchange, Handlers, Entering, Quiet, InHand, NeedsLobby
<1>29. CASE EnterRoomSent
  BY <1>29 DEF EnterRoomSent, EnableMenu, GoTo, AtHome, RoomsAgree,
        RequestAtHome, GuardHoldsAtSend, NoticeAtHome, Agree, Told,
        OneExchange, Handlers, Entering, Quiet, InHand, NeedsLobby
<1>30. CASE StoreRoom
  <2>1. AtHome'
    BY <1>30 DEF StoreRoom, NextMessage, EnterRoomPacket, NoticeOf, AtHome,
          RequestAtHome, GuardHoldsAtSend, NoticeAtHome, OneExchange, InHand,
          Quiet, NeedsLobby, Entering, Handlers
  <2>2. RoomsAgree'
    BY <1>30 DEF StoreRoom, NextMessage, EnterRoomPacket, NoticeOf,
          RoomsAgree, Agree, Told, OneExchange, InHand, Quiet, AtHome,
          RequestAtHome, GuardHoldsAtSend, NoticeAtHome, NeedsLobby, Entering,
          Handlers
  <2>3. QED
    BY <2>1, <2>2
<1>31. CASE AfterBatch
  BY <1>31 DEF AfterBatch, AtHome, RoomsAgree, RequestAtHome,
        GuardHoldsAtSend, NoticeAtHome, Agree, Told, OneExchange, Handlers,
        Entering, Quiet, InHand, NeedsLobby
<1>32. CASE ServerStops
  BY <1>32 DEF ServerStops, AtHome, RoomsAgree, RequestAtHome,
        GuardHoldsAtSend, NoticeAtHome, Agree, Told, OneExchange, Handlers,
        Entering, Quiet, InHand, NeedsLobby
<1> HIDE MsgType DEF Msg, Request1, Answer1
<1>33. CASE Send
  <2>1. AtHome'
    BY <1>33, SendDoes DEF AfterSend, Request, AtHome, RequestAtHome,
          GuardHoldsAtSend, NoticeAtHome, OneExchange, InHand, Quiet,
          NeedsLobby, Entering, Handlers
  <2>2. RoomsAgree'
    BY <1>33, SendDoes DEF AfterSend, Request, RoomsAgree, Agree, Told,
          OneExchange, InHand, Quiet, AtHome, RequestAtHome, GuardHoldsAtSend,
          NoticeAtHome, NeedsLobby, Entering, Handlers
  <2>3. QED
    BY <2>1, <2>2
<1>34. CASE WSARecv
  <2>1. /\ inbound # <<>> /\ inbound' = <<>> /\ Len(recv_buffer') = 1
        /\ pos' = 1 /\ Msg' = Answer1 /\ Request1' = Request1
        /\ recvPc = "recv" /\ recvPc' = "dispatch"
        /\ UNCHANGED <<shared, menu, outbound, socket, server>>
    BY <1>34, WSARecvDoes
  <2>2. QED
    BY <1>34, <2>1 DEF AtHome, RoomsAgree, RequestAtHome, GuardHoldsAtSend,
          NoticeAtHome, Agree, Told, OneExchange, Handlers, Entering, Quiet,
          InHand, NeedsLobby
<1>35. CASE SendEnterRoom
  <2>1. /\ recvPc = "enter_send" /\ InHand /\ outbound = <<>> /\ inbound = <<>>
        /\ inbound' = <<>> /\ Msg' = Msg /\ recvPc' = "entered"
        /\ UNCHANGED <<shared, menu, recv_buffer, pos, server, socket>>
        /\ socket = "open" => outbound' # <<>> /\ Request1' = EnterRoomPacket(Msg.index)
        /\ socket # "open" => outbound' = <<>>
        /\ Len(inbound') <= 1 /\ Len(outbound') <= 1
    BY <1>35, SendEnterRoomDoes
  <2>2. QED
    BY <1>35, <2>1 DEF EnterRoomPacket, AtHome, RoomsAgree, RequestAtHome,
          GuardHoldsAtSend, NoticeAtHome, Agree, Told, OneExchange, Handlers,
          Entering, Quiet, InHand, NeedsLobby
<1>36. CASE ServerLogin
  <2>1. /\ outbound # <<>> /\ outbound' = <<>> /\ inbound = <<>> /\ socket = "open"
        /\ Request1.type = "USER_LOGIN" /\ Request1 \in Request
        /\ UNCHANGED <<socket, shared, menu, recv>> /\ Msg' = Msg /\ Len(outbound') = 0
    BY <1>36, TakesDoes DEF ServerLogin
  <2>2. /\ inbound' # <<>> /\ Len(inbound') = 1
        /\ Answer1' = NoticeOf("ENTER_CHANNEL", Self, srvChannel, FALSE)
    BY <1>36, <2>1, SaysFirst DEF ServerLogin
  <2>3. QED
    BY <1>36, <2>1, <2>2 DEF ServerLogin, NoticeOf, EnterRoomPacket, Request,
          AtHome, RoomsAgree, RequestAtHome, GuardHoldsAtSend, NoticeAtHome,
          Agree, Told, OneExchange, Handlers, Entering, Quiet, InHand,
          NeedsLobby
<1>37. CASE ServerChangeChannel
  <2>1. /\ outbound # <<>> /\ outbound' = <<>> /\ inbound = <<>> /\ socket = "open"
        /\ Request1.type = "CHANGE_CHANNEL" /\ Request1 \in Request
        /\ UNCHANGED <<socket, shared, menu, recv>> /\ Msg' = Msg /\ Len(outbound') = 0
    BY <1>37, TakesDoes DEF ServerChangeChannel
  <2>2. \/ inbound' = <<>> /\ Len(inbound') = 0
        \/ /\ inbound' # <<>> /\ Len(inbound') = 1
           /\ Answer1' = NoticeOf("ENTER_CHANNEL", Self, Request1.index, FALSE)
    BY <1>37, <2>1, SaysFirst, EmptySeq DEF ServerChangeChannel
  <2>3. Len(inbound') <= 1
    BY <1>37, <2>1, SaysAtMostOne DEF ServerChangeChannel
  <2>4. QED
    BY <1>37, <2>1, <2>2, <2>3 DEF ServerChangeChannel, NoticeOf,
          EnterRoomPacket, Request, AtHome, RoomsAgree, RequestAtHome,
          GuardHoldsAtSend, NoticeAtHome, Agree, Told, OneExchange, Handlers,
          Entering, Quiet, InHand, NeedsLobby
<1>38. CASE ServerCreateRoom
  <2>1. /\ outbound # <<>> /\ outbound' = <<>> /\ inbound = <<>> /\ socket = "open"
        /\ Request1.type = "CREATE_ROOM" /\ Request1 \in Request
        /\ UNCHANGED <<socket, shared, menu, recv>> /\ Msg' = Msg /\ Len(outbound') = 0
    BY <1>38, TakesDoes DEF ServerCreateRoom
  <2>2. /\ inbound' # <<>> /\ Len(inbound') = 1
        /\ Answer1' = NoticeOf("NOTIFY_EXIST_ROOM", 0, Request1.index,
                               Request1.index \in srvRooms)
    BY <1>38, <2>1, SaysFirst DEF ServerCreateRoom
  <2>3. QED
    BY <1>38, <2>1, <2>2 DEF ServerCreateRoom, NoticeOf, EnterRoomPacket,
          Request, AtHome, RoomsAgree, RequestAtHome, GuardHoldsAtSend,
          NoticeAtHome, Agree, Told, OneExchange, Handlers, Entering, Quiet,
          InHand, NeedsLobby
<1>39. CASE ServerEnterRoom
  <2>1. /\ outbound # <<>> /\ outbound' = <<>> /\ inbound = <<>> /\ socket = "open"
        /\ Request1.type = "ENTER_ROOM" /\ Request1 \in Request
        /\ UNCHANGED <<socket, shared, menu, recv>> /\ Msg' = Msg /\ Len(outbound') = 0
    BY <1>39, TakesDoes DEF ServerEnterRoom
  <2>2. /\ inbound' # <<>> /\ Len(inbound') = 1
        /\ Answer1' = NoticeOf("ENTER_ROOM", 0, Request1.index,
                               Request1.index \in srvRooms)
    BY <1>39, <2>1, SaysFirst DEF ServerEnterRoom
  <2>3. QED
    BY <1>39, <2>1, <2>2 DEF ServerEnterRoom, NoticeOf, EnterRoomPacket,
          Request, AtHome, RoomsAgree, RequestAtHome, GuardHoldsAtSend,
          NoticeAtHome, Agree, Told, OneExchange, Handlers, Entering, Quiet,
          InHand, NeedsLobby
<1>40. CASE ServerLeaveRoom
  <2>1. /\ outbound # <<>> /\ outbound' = <<>> /\ inbound = <<>> /\ socket = "open"
        /\ Request1.type = "LEAVE_ROOM" /\ Request1 \in Request
        /\ UNCHANGED <<socket, shared, menu, recv>> /\ Msg' = Msg /\ Len(outbound') = 0
    BY <1>40, TakesDoes DEF ServerLeaveRoom
  <2>2. inbound' = <<>>
    BY <1>40, <2>1 DEF ServerLeaveRoom
  <2>3. QED
    BY <1>40, <2>1, <2>2 DEF ServerLeaveRoom, NoticeOf, EnterRoomPacket,
          Request, AtHome, RoomsAgree, RequestAtHome, GuardHoldsAtSend,
          NoticeAtHome, Agree, Told, OneExchange, Handlers, Entering, Quiet,
          InHand, NeedsLobby
<1>41. CASE ServerReply
  <2>1. PICK type \in {"ROOM_LIST", "ROOM_CHATTING", "CHANNEL_CHATTING"} :
          Takes(type) /\ \E id, index : Say(NoticeOf(type, id, index, FALSE))
    BY <1>41, TRUE DEF ServerReply
  <2>2. /\ outbound # <<>> /\ outbound' = <<>> /\ inbound = <<>> /\ socket = "open"
        /\ Request1.type = type
        /\ UNCHANGED <<socket, shared, menu, recv, server>> /\ Msg' = Msg
    BY <1>41, <2>1, TakesDoes DEF ServerReply
  <2>3. inbound' # <<>> /\ Len(inbound') = 1 /\ Answer1'.type = type
    BY <1>41, <2>1, <2>2, SaysFirst DEF NoticeOf
  <2>4. QED
    BY <2>1, <2>2, <2>3 DEF EnterRoomPacket, AtHome, RoomsAgree,
          RequestAtHome, GuardHoldsAtSend, NoticeAtHome, Agree, Told,
          OneExchange, Handlers, Entering, Quiet, InHand, NeedsLobby
<1>42. CASE OtherSpeaks \/ OtherOpensRoom \/ OtherClosesRoom
  BY <1>42 DEF OtherSpeaks, OtherOpensRoom, OtherClosesRoom, OthersActive
<1>43. CASE UNCHANGED vars
  <2>1. /\ UNCHANGED <<menu, recv, wire, server, shared>>
        /\ Msg' = Msg /\ Request1' = Request1 /\ Answer1' = Answer1
    BY <1>43 DEF vars, Msg, Request1, Answer1
  <2>2. AtHome'
    BY <2>1 DEF AtHome, RequestAtHome, GuardHoldsAtSend, NoticeAtHome,
          OneExchange, InHand, Quiet, NeedsLobby, Entering, Handlers
  <2>3. RoomsAgree'
    BY <2>1 DEF RoomsAgree, Agree, Told, OneExchange, InHand, Quiet, AtHome,
          RequestAtHome, GuardHoldsAtSend, NoticeAtHome, NeedsLobby, Entering,
          Handlers
  <2>4. QED
    BY <2>2, <2>3
<1>44. QED
  BY <1>1, <1>2, <1>3, <1>4, <1>5, <1>6, <1>7, <1>8, <1>9, <1>10, <1>11,
     <1>12, <1>13, <1>14, <1>15, <1>16, <1>17, <1>18, <1>19, <1>20, <1>21,
     <1>22, <1>23, <1>24, <1>25, <1>26, <1>27, <1>28, <1>29, <1>30, <1>31,
     <1>32, <1>33, <1>34, <1>35, <1>36, <1>37, <1>38, <1>39, <1>40, <1>41,
     <1>42, <1>43
     DEF Next, UserStep, MenuStep, RecvStep, ServerStep, OthersStep, Terminated

(* And every step keeps what it says of the channel.                       *)
LEMMA ChannelsStep ==
    ASSUME PatientSession, Served, PatientInv, TypeOK, [Next]_vars
    PROVE  ChannelsAgree'
<1> USE SessionAssumption, MsgType DEF PatientSession, PatientInv, PatientExchange,
      PatientRooms, AtHome, TypeOK, UserReady,
      MENU_SELECT, shared, menu, recv, wire, server, RecvAt, MenuAt
<1> USE DEF Msg, Request1, Answer1
<1>1. CASE Login
  BY <1>1 DEF Login, Prepare, LoginPacket, ChannelsAgree, NoMoveUnderWay,
        OneExchange, Handlers, Quiet, InHand
<1>2. CASE MenuPoll
  BY <1>2 DEF MenuPoll, ChannelsAgree, NoMoveUnderWay, OneExchange, Handlers,
        Quiet, InHand
<1>3. CASE MenuPollHoisted
  BY <1>3 DEF MenuPollHoisted, ChannelsAgree, NoMoveUnderWay, OneExchange,
        Handlers, Quiet, InHand
<1>4. ASSUME NEW entry \in MENU_SELECT, Choose(entry) PROVE ChannelsAgree'
  BY <1>4 DEF Choose, Refused, ChannelsAgree, NoMoveUnderWay, OneExchange,
        Handlers, Quiet, InHand
<1>5. ASSUME NEW ch \in ChannelInputs, ChannelMove(ch) PROVE ChannelsAgree'
  BY <1>5 DEF ChannelMove, Prepare, ChannelsAgree, NoMoveUnderWay,
        OneExchange, Handlers, Quiet, InHand
<1>6. ASSUME NEW room \in RoomInputs, RoomCreate(room) PROVE ChannelsAgree'
  BY <1>6 DEF RoomCreate, Prepare, BackToPoll, ChannelsAgree, NoMoveUnderWay,
        OneExchange, Handlers, Quiet, InHand
<1>7. ASSUME NEW room \in RoomInputs, EnterRoomInit(room) PROVE ChannelsAgree'
  BY <1>7 DEF EnterRoomInit, Prepare, ChannelsAgree, NoMoveUnderWay,
        OneExchange, Handlers, Quiet, InHand
<1>8. CASE DisableForUserList
  BY <1>8 DEF DisableForUserList, ChannelsAgree, NoMoveUnderWay, OneExchange,
        Handlers, Quiet, InHand
<1>9. CASE InRoomUserList
  BY <1>9 DEF InRoomUserList, Prepare, ChannelsAgree, NoMoveUnderWay,
        OneExchange, Handlers, Quiet, InHand
<1>10. CASE ChannelChat
  BY <1>10 DEF ChannelChat, Prepare, ChannelsAgree, NoMoveUnderWay,
        OneExchange, Handlers, Quiet, InHand
<1>11. CASE RoomChat
  BY <1>11 DEF RoomChat, Prepare, ChannelsAgree, NoMoveUnderWay, OneExchange,
        Handlers, Quiet, InHand
<1>12. CASE LeaveRoom
  BY <1>12 DEF LeaveRoom, Prepare, ChannelsAgree, NoMoveUnderWay, OneExchange,
        Handlers, Quiet, InHand
<1>13. CASE ChannelMoved
  BY <1>13 DEF ChannelMoved, ChannelsAgree, NoMoveUnderWay, OneExchange,
        Handlers, Quiet, InHand
<1>14. CASE ChannelChatted
  BY <1>14 DEF ChannelChatted, ChannelsAgree, NoMoveUnderWay, OneExchange,
        Handlers, Quiet, InHand
<1>15. CASE RoomLeft
  BY <1>15 DEF RoomLeft, ChannelsAgree, NoMoveUnderWay, OneExchange, Handlers,
        Quiet, InHand
<1>16. CASE ExitServer
  BY <1>16 DEF ExitServer, ChannelsAgree, NoMoveUnderWay, OneExchange,
        Handlers, Quiet, InHand
<1>17. CASE Exit
  BY <1>17 DEF Exit, ChannelsAgree, NoMoveUnderWay, OneExchange, Handlers,
        Quiet, InHand
<1>18. CASE WSARecvZero
  BY <1>18 DEF Served, WSARecvZero, ChannelsAgree, NoMoveUnderWay,
        OneExchange, Handlers, Quiet, InHand
<1>19. CASE WSARecvError
  BY <1>19 DEF WSARecvError, ChannelsAgree, NoMoveUnderWay, OneExchange,
        Handlers, Quiet, InHand
<1>20. CASE ProcessEnterChannel
  BY <1>20 DEF ProcessEnterChannel, EnableMenu, GoTo, Handling, AtMessage,
        ChannelsAgree, NoMoveUnderWay, OneExchange, Handlers, Quiet, InHand
<1>21. CASE StoreIdAndChannel
  BY <1>21 DEF StoreIdAndChannel, NextMessage, ChannelsAgree, NoMoveUnderWay,
        OneExchange, Handlers, Quiet, InHand
<1>22. CASE ProcessNotify
  BY <1>22 DEF ProcessNotify, NextMessage, Handling, AtMessage, ChannelsAgree,
        NoMoveUnderWay, OneExchange, Handlers, Quiet, InHand
<1>23. CASE ProcessChatOrList
  BY <1>23 DEF ProcessChatOrList, EnableMenu, NextMessage, Handling,
        AtMessage, ReadsMyId, ChannelsAgree, NoMoveUnderWay, OneExchange,
        Handlers, Quiet, InHand
<1>24. CASE ProcessEnterRoom
  BY <1>24 DEF ProcessEnterRoom, NextMessage, Handling, AtMessage,
        ChannelsAgree, NoMoveUnderWay, OneExchange, Handlers, Quiet, InHand
<1>25. CASE ProcessRoomCreated
  BY <1>25 DEF ProcessRoomCreated, EnableMenu, GoTo, Handling, AtMessage,
        ChannelsAgree, NoMoveUnderWay, OneExchange, Handlers, Quiet, InHand
<1>26. CASE ProcessRoomExists
  BY <1>26 DEF ProcessRoomExists, GoTo, Handling, AtMessage, ChannelsAgree,
        NoMoveUnderWay, OneExchange, Handlers, Quiet, InHand
<1>27. CASE AnswerYes
  BY <1>27 DEF AnswerYes, GoTo, ChannelsAgree, NoMoveUnderWay, OneExchange,
        Handlers, Quiet, InHand
<1>28. CASE AnswerNo
  BY <1>28 DEF AnswerNo, EnableMenu, NextMessage, ChannelsAgree,
        NoMoveUnderWay, OneExchange, Handlers, Quiet, InHand
<1>29. CASE EnterRoomSent
  BY <1>29 DEF EnterRoomSent, EnableMenu, GoTo, ChannelsAgree, NoMoveUnderWay,
        OneExchange, Handlers, Quiet, InHand
<1>30. CASE StoreRoom
  BY <1>30 DEF StoreRoom, NextMessage, ChannelsAgree, NoMoveUnderWay,
        OneExchange, Handlers, Quiet, InHand
<1>31. CASE AfterBatch
  BY <1>31 DEF AfterBatch, ChannelsAgree, NoMoveUnderWay, OneExchange,
        Handlers, Quiet, InHand
<1>32. CASE ServerStops
  BY <1>32 DEF ServerStops, ChannelsAgree, NoMoveUnderWay, OneExchange,
        Handlers, Quiet, InHand
<1> HIDE MsgType DEF Msg, Request1, Answer1
<1>33. CASE Send
  BY <1>33, SendDoes DEF AfterSend, ChannelsAgree, NoMoveUnderWay,
        OneExchange, Handlers, Quiet, InHand
<1>34. CASE WSARecv
  <2>1. /\ inbound # <<>> /\ inbound' = <<>> /\ Len(recv_buffer') = 1
        /\ pos' = 1 /\ Msg' = Answer1 /\ Request1' = Request1
        /\ recvPc = "recv" /\ recvPc' = "dispatch"
        /\ UNCHANGED <<shared, menu, outbound, socket, server>>
    BY <1>34, WSARecvDoes
  <2>2. QED
    BY <1>34, <2>1 DEF ChannelsAgree, NoMoveUnderWay, OneExchange, Handlers,
          Quiet, InHand
<1>35. CASE SendEnterRoom
  <2>1. /\ recvPc = "enter_send" /\ InHand /\ outbound = <<>> /\ inbound = <<>>
        /\ inbound' = <<>> /\ Msg' = Msg /\ recvPc' = "entered"
        /\ UNCHANGED <<shared, menu, recv_buffer, pos, server, socket>>
        /\ socket = "open" => outbound' # <<>> /\ Request1' = EnterRoomPacket(Msg.index)
        /\ socket # "open" => outbound' = <<>>
        /\ Len(inbound') <= 1 /\ Len(outbound') <= 1
    BY <1>35, SendEnterRoomDoes
  <2>2. QED
    BY <1>35, <2>1 DEF EnterRoomPacket, ChannelsAgree, NoMoveUnderWay,
          OneExchange, Handlers, Quiet, InHand
<1>36. CASE ServerLogin
  <2>1. /\ outbound # <<>> /\ outbound' = <<>> /\ inbound = <<>> /\ socket = "open"
        /\ Request1.type = "USER_LOGIN" /\ Request1 \in Request
        /\ UNCHANGED <<socket, shared, menu, recv>> /\ Msg' = Msg /\ Len(outbound') = 0
    BY <1>36, TakesDoes DEF ServerLogin
  <2>2. /\ inbound' # <<>> /\ Len(inbound') = 1
        /\ Answer1' = NoticeOf("ENTER_CHANNEL", Self, srvChannel, FALSE)
    BY <1>36, <2>1, SaysFirst DEF ServerLogin
  <2>3. QED
    BY <1>36, <2>1, <2>2 DEF ServerLogin, NoticeOf, EnterRoomPacket, Request,
          ChannelsAgree, NoMoveUnderWay, OneExchange, Handlers, Quiet, InHand
<1>37. CASE ServerChangeChannel
  <2>1. /\ outbound # <<>> /\ outbound' = <<>> /\ inbound = <<>> /\ socket = "open"
        /\ Request1.type = "CHANGE_CHANNEL" /\ Request1 \in Request
        /\ UNCHANGED <<socket, shared, menu, recv>> /\ Msg' = Msg /\ Len(outbound') = 0
    BY <1>37, TakesDoes DEF ServerChangeChannel
  <2>2. \/ inbound' = <<>> /\ Len(inbound') = 0
        \/ /\ inbound' # <<>> /\ Len(inbound') = 1
           /\ Answer1' = NoticeOf("ENTER_CHANNEL", Self, Request1.index, FALSE)
    BY <1>37, <2>1, SaysFirst, EmptySeq DEF ServerChangeChannel
  <2>3. Len(inbound') <= 1
    BY <1>37, <2>1, SaysAtMostOne DEF ServerChangeChannel
  <2>4. QED
    BY <1>37, <2>1, <2>2, <2>3 DEF ServerChangeChannel, NoticeOf,
          EnterRoomPacket, Request, ChannelsAgree, NoMoveUnderWay,
          OneExchange, Handlers, Quiet, InHand
<1>38. CASE ServerCreateRoom
  <2>1. /\ outbound # <<>> /\ outbound' = <<>> /\ inbound = <<>> /\ socket = "open"
        /\ Request1.type = "CREATE_ROOM" /\ Request1 \in Request
        /\ UNCHANGED <<socket, shared, menu, recv>> /\ Msg' = Msg /\ Len(outbound') = 0
    BY <1>38, TakesDoes DEF ServerCreateRoom
  <2>2. /\ inbound' # <<>> /\ Len(inbound') = 1
        /\ Answer1' = NoticeOf("NOTIFY_EXIST_ROOM", 0, Request1.index,
                               Request1.index \in srvRooms)
    BY <1>38, <2>1, SaysFirst DEF ServerCreateRoom
  <2>3. QED
    BY <1>38, <2>1, <2>2 DEF ServerCreateRoom, NoticeOf, EnterRoomPacket,
          Request, ChannelsAgree, NoMoveUnderWay, OneExchange, Handlers,
          Quiet, InHand
<1>39. CASE ServerEnterRoom
  <2>1. /\ outbound # <<>> /\ outbound' = <<>> /\ inbound = <<>> /\ socket = "open"
        /\ Request1.type = "ENTER_ROOM" /\ Request1 \in Request
        /\ UNCHANGED <<socket, shared, menu, recv>> /\ Msg' = Msg /\ Len(outbound') = 0
    BY <1>39, TakesDoes DEF ServerEnterRoom
  <2>2. /\ inbound' # <<>> /\ Len(inbound') = 1
        /\ Answer1' = NoticeOf("ENTER_ROOM", 0, Request1.index,
                               Request1.index \in srvRooms)
    BY <1>39, <2>1, SaysFirst DEF ServerEnterRoom
  <2>3. QED
    BY <1>39, <2>1, <2>2 DEF ServerEnterRoom, NoticeOf, EnterRoomPacket,
          Request, ChannelsAgree, NoMoveUnderWay, OneExchange, Handlers,
          Quiet, InHand
<1>40. CASE ServerLeaveRoom
  <2>1. /\ outbound # <<>> /\ outbound' = <<>> /\ inbound = <<>> /\ socket = "open"
        /\ Request1.type = "LEAVE_ROOM" /\ Request1 \in Request
        /\ UNCHANGED <<socket, shared, menu, recv>> /\ Msg' = Msg /\ Len(outbound') = 0
    BY <1>40, TakesDoes DEF ServerLeaveRoom
  <2>2. inbound' = <<>>
    BY <1>40, <2>1 DEF ServerLeaveRoom
  <2>3. QED
    BY <1>40, <2>1, <2>2 DEF ServerLeaveRoom, NoticeOf, EnterRoomPacket,
          Request, ChannelsAgree, NoMoveUnderWay, OneExchange, Handlers,
          Quiet, InHand
<1>41. CASE ServerReply
  <2>1. PICK type \in {"ROOM_LIST", "ROOM_CHATTING", "CHANNEL_CHATTING"} :
          Takes(type) /\ \E id, index : Say(NoticeOf(type, id, index, FALSE))
    BY <1>41, TRUE DEF ServerReply
  <2>2. /\ outbound # <<>> /\ outbound' = <<>> /\ inbound = <<>> /\ socket = "open"
        /\ Request1.type = type
        /\ UNCHANGED <<socket, shared, menu, recv, server>> /\ Msg' = Msg
    BY <1>41, <2>1, TakesDoes DEF ServerReply
  <2>3. inbound' # <<>> /\ Len(inbound') = 1 /\ Answer1'.type = type
    BY <1>41, <2>1, <2>2, SaysFirst DEF NoticeOf
  <2>4. QED
    BY <2>1, <2>2, <2>3 DEF EnterRoomPacket, ChannelsAgree, NoMoveUnderWay,
          OneExchange, Handlers, Quiet, InHand
<1>42. CASE OtherSpeaks \/ OtherOpensRoom \/ OtherClosesRoom
  BY <1>42 DEF OtherSpeaks, OtherOpensRoom, OtherClosesRoom, OthersActive
<1>43. CASE UNCHANGED vars
  <2>1. /\ UNCHANGED <<menu, recv, wire, server, shared>>
        /\ Msg' = Msg /\ Request1' = Request1 /\ Answer1' = Answer1
    BY <1>43 DEF vars, Msg, Request1, Answer1
  <2>2. QED
    BY <2>1 DEF ChannelsAgree, NoMoveUnderWay, OneExchange, Handlers, Quiet,
          InHand
<1>44. QED
  BY <1>1, <1>2, <1>3, <1>4, <1>5, <1>6, <1>7, <1>8, <1>9, <1>10, <1>11,
     <1>12, <1>13, <1>14, <1>15, <1>16, <1>17, <1>18, <1>19, <1>20, <1>21,
     <1>22, <1>23, <1>24, <1>25, <1>26, <1>27, <1>28, <1>29, <1>30, <1>31,
     <1>32, <1>33, <1>34, <1>35, <1>36, <1>37, <1>38, <1>39, <1>40, <1>41,
     <1>42, <1>43
     DEF Next, UserStep, MenuStep, RecvStep, ServerStep, OthersStep, Terminated

(* The invariant holds at the start.                                       *)
LEMMA PatientInit == Init => PatientInv
<1> USE SessionAssumption
<1> SUFFICES ASSUME Init PROVE PatientInv
  OBVIOUS
<1>1. /\ recvPc = "recv" /\ recv_buffer = <<>> /\ menuPc = "login" /\ socket = "open"
      /\ inbound = <<>> /\ outbound = <<>> /\ room_index = 0 /\ srvRoom = 0
      /\ Len(inbound) = 0 /\ Len(outbound) = 0 /\ Len(recv_buffer) = 0
  BY EmptySeq DEF Init
<1>2. PatientExchange
  BY <1>1 DEF PatientExchange, OneExchange, HeldMenu, Handlers, Entering, Quiet,
        InHand, CreateAsked, CreateUnderWay
<1>3. srvRooms \subseteq Rooms /\ srvChannel \in Channels
  BY DEF Init, Channels
<1>4. PatientRooms
  BY <1>1, <1>3 DEF PatientRooms, AtHome, RoomsAgree, Agree, InHand, GuardHoldsAtSend
<1>5. ChannelsAgree
  BY <1>1 DEF ChannelsAgree, NoMoveUnderWay, InHand, Init
<1>6. QED
  BY <1>2, <1>4, <1>5 DEF PatientInv

LEMMA PatientStep ==
    ASSUME PatientSession, Served, PatientInv, TypeOK, [Next]_vars
    PROVE  PatientInv'
BY ExchangeStep, RoomsStep, ChannelsStep DEF PatientInv

(* Only leaving the program, and the server, close the connection.         *)
LEMMA WhoCloses ==
    ASSUME [Next]_vars
    PROVE  ExitServer \/ ServerStops \/ UNCHANGED socket
<1> USE DEF wire
<1>1. CASE UserStep
  BY <1>1 DEF UserStep, Login, Choose, ChannelMove, RoomCreate, EnterRoomInit,
        ChannelChat, RoomChat, AnswerYes, AnswerNo
<1>2. CASE MenuStep
  BY <1>2 DEF MenuStep, MenuPoll, MenuPollHoisted, DisableForUserList,
        InRoomUserList, LeaveRoom, Send, ChannelMoved, ChannelChatted, RoomLeft,
        Exit, Transmit
<1>3. CASE RecvStep
  BY <1>3 DEF RecvStep, WSARecv, WSARecvZero, WSARecvError,
        ProcessEnterChannel, StoreIdAndChannel, ProcessNotify, ProcessChatOrList,
        ProcessEnterRoom, ProcessRoomCreated, ProcessRoomExists, SendEnterRoom,
        EnterRoomSent, StoreRoom, AfterBatch, Transmit
<1>4. CASE ServerStep
  BY <1>4 DEF ServerStep, ServerLogin, ServerChangeChannel, ServerCreateRoom,
        ServerEnterRoom, ServerLeaveRoom, ServerReply, Takes
<1>5. CASE OthersStep
  BY <1>5 DEF OthersStep, OtherSpeaks, OtherOpensRoom, OtherClosesRoom,
        OthersActive
<1>6. CASE UNCHANGED vars
  BY <1>6 DEF vars
<1>7. QED
  BY <1>1, <1>2, <1>3, <1>4, <1>5, <1>6 DEF Next, Terminated

(* A closed connection stays closed.                                       *)
LEMMA ServedBefore == ASSUME [Next]_vars, Served' PROVE Served
BY WhoCloses DEF Served, ExitServer, ServerStops

(* With a patient user, and nobody else about, the invariant holds until   *)
(* the server closes.                                                      *)
LEMMA PatientInvariant == ASSUME PatientSession PROVE Spec => [](Served => PatientInv)
<1>1. (Served => PatientInv) /\ TypeOK /\ [Next]_vars => (Served => PatientInv)'
  BY PatientStep, ServedBefore
<1>2. Init => (Served => PatientInv)
  BY PatientInit
<1>3. QED
  BY <1>1, <1>2, TypeCorrect, PTL DEF Spec

(* The threads never ask the user at the same time, until the server       *)
(* closes: the menu is held from the moment a room is asked for until the  *)
(* answer Y or N has been read.                                            *)
THEOREM PromptsStayApart == ASSUME PatientSession PROVE Spec => []OnePromptAtATime
<1>1. TypeOK /\ (Served => PatientInv) => OnePromptAtATime
  BY DEF PatientInv, PatientExchange, HeldMenu, CreateUnderWay, OnePromptAtATime,
        MenuReads
<1>2. QED
  BY <1>1, PatientInvariant, TypeCorrect, PTL

(* The threads never build and send a packet at the same time, until the   *)
(* server closes, which is what their shared send_wsabuf needs.            *)
THEOREM SendersStayApart == ASSUME PatientSession PROVE Spec => []OneSenderAtATime
<1>1. (Served => PatientInv) => OneSenderAtATime
  BY DEF PatientInv, PatientExchange, HeldMenu, CreateUnderWay, OneSenderAtATime
<1>2. QED
  BY <1>1, PatientInvariant, PTL

(* Once everything settles, the client and the server agree on the room.   *)
THEOREM RoomIsKnown ==
    ASSUME PatientSession PROVE Spec => [](KnowsItsRoom /\ OnlyIfTheRoomExists)
<1>1. (Served => PatientInv) => KnowsItsRoom /\ OnlyIfTheRoomExists
  <2> SUFFICES ASSUME Served => PatientInv, Settled PROVE room_index = srvRoom
    BY DEF KnowsItsRoom, OnlyIfTheRoomExists
  <2>1. /\ socket = "open" /\ outbound = <<>> /\ inbound = <<>> /\ ~InHand
        /\ menuPc # "LEAVE_ROOM"
    BY DEF Settled, MenuWaits, MenuReads, InHand
  <2>2. QED
    BY <2>1 DEF PatientInv, PatientRooms, RoomsAgree, Agree, Served
<1>2. QED
  BY <1>1, PatientInvariant, PTL

(* And on the channel, whether or not the server answers a move.           *)
THEOREM ChannelIsKnown == ASSUME PatientSession PROVE Spec => []ChannelAgreement
<1>1. (Served => PatientInv) => ChannelAgreement
  <2> SUFFICES ASSUME Served => PatientInv, Settled PROVE channel_index = srvChannel
    BY DEF ChannelAgreement
  <2>1. /\ socket = "open" /\ outbound = <<>> /\ inbound = <<>> /\ ~InHand
        /\ menuPc # "CHANGE_CHANNEL" /\ loggedIn
    BY DEF Settled, MenuWaits, MenuReads, InHand
  <2>2. QED
    BY <2>1 DEF PatientInv, ChannelsAgree, NoMoveUnderWay, Served
<1>2. QED
  BY <1>1, PatientInvariant, PTL

(* What the menu refused inside a room is not sent from inside a room,     *)
(* until the server closes.                                                *)
THEOREM GuardOutlivesTheWait ==
    ASSUME PatientSession PROVE Spec => [](Served => GuardHoldsAtSend)
<1>1. (Served => PatientInv) => (Served => GuardHoldsAtSend)
  BY DEF PatientInv, PatientRooms, AtHome
<1>2. QED
  BY <1>1, PatientInvariant, PTL

-----------------------------------------------------------------------------
(* The session implements RoomView.                                        *)

(* What the user sees of the room and the channel changes in five places.  *)
LEMMA WhoMoves ==
    ASSUME [Next]_vars
    PROVE  \/ UNCHANGED <<room_index, channel_index>>
           \/ ChannelMoved \/ RoomLeft \/ StoreIdAndChannel \/ ProcessEnterRoom
           \/ StoreRoom
<1> USE DEF shared
<1>1. CASE UserStep
  BY <1>1 DEF UserStep, Login, Choose, ChannelMove, RoomCreate, EnterRoomInit,
        ChannelChat, RoomChat, AnswerYes, AnswerNo, Prepare, BackToPoll,
        EnableMenu
<1>2. CASE MenuStep
  BY <1>2 DEF MenuStep, MenuPoll, MenuPollHoisted, DisableForUserList,
        InRoomUserList, LeaveRoom, Send, ChannelChatted, ExitServer, Exit,
        Prepare
<1>3. CASE RecvStep
  BY <1>3 DEF RecvStep, WSARecv, WSARecvZero, WSARecvError,
        ProcessEnterChannel, ProcessNotify, ProcessChatOrList,
        ProcessRoomCreated, ProcessRoomExists, SendEnterRoom, EnterRoomSent,
        AfterBatch, EnableMenu
<1>4. CASE ServerStep
  BY <1>4 DEF ServerStep, ServerLogin, ServerChangeChannel, ServerCreateRoom,
        ServerEnterRoom, ServerLeaveRoom, ServerReply, Takes
<1>5. CASE OthersStep
  BY <1>5 DEF OthersStep, OtherSpeaks, OtherOpensRoom, OtherClosesRoom,
        OthersActive, ServerStops
<1>6. CASE UNCHANGED vars
  BY <1>6 DEF vars
<1>7. QED
  BY <1>1, <1>2, <1>3, <1>4, <1>5, <1>6 DEF Next, Terminated

(* Whether a room is asked for: by the packet the menu sends, by one under *)
(* way, or by the message in hand.                                         *)
AsksFor(r) ==
    \/ menuPc = "send" /\ req.type \in {"CREATE_ROOM", "ENTER_ROOM"} /\ req.index = r
    \/ /\ outbound # <<>> /\ Request1.type \in {"CREATE_ROOM", "ENTER_ROOM"}
       /\ Request1.index = r
    \/ /\ inbound # <<>> /\ Answer1.type \in {"NOTIFY_EXIST_ROOM", "ENTER_ROOM"}
       /\ Answer1.index = r
    \/ InHand /\ Msg.type \in {"NOTIFY_EXIST_ROOM", "ENTER_ROOM"} /\ Msg.index = r

LEMMA AskedForIs ==
    /\ RoomsAskedFor = IF room_index # 0 THEN {} ELSE {p.index : p \in AboutARoom}
    /\ \A r : r \in {p.index : p \in AboutARoom} <=> AsksFor(r)
<1>1. \A p : p \in AboutARoom <=>
        \/ menuPc = "send" /\ p = req /\ p.type \in {"CREATE_ROOM", "ENTER_ROOM"}
        \/ outbound # <<>> /\ p = Request1 /\ p.type \in {"CREATE_ROOM", "ENTER_ROOM"}
        \/ inbound # <<>> /\ p = Answer1 /\ p.type \in {"NOTIFY_EXIST_ROOM", "ENTER_ROOM"}
        \/ InHand /\ p = Msg /\ p.type \in {"NOTIFY_EXIST_ROOM", "ENTER_ROOM"}
  BY ZenonT(30) DEF AboutARoom, InHand, Answer1
<1>2. \A r : r \in {p.index : p \in AboutARoom} <=> \E p \in AboutARoom : p.index = r
  OBVIOUS
<1> HIDE DEF AboutARoom
<1>3. \A r : (\E p \in AboutARoom : p.index = r) <=> AsksFor(r)
  <2>1. ASSUME NEW r, NEW p \in AboutARoom, p.index = r PROVE AsksFor(r)
    BY <1>1, <2>1 DEF AsksFor
  <2>2. ASSUME NEW r, AsksFor(r) PROVE \E p \in AboutARoom : p.index = r
    BY <1>1, <2>2 DEF AsksFor
  <2>3. QED
    BY <2>1, <2>2
<1>4. QED
  BY <1>2, <1>3 DEF RoomsAskedFor

LEMMA AskedForIsNext ==
    (/\ RoomsAskedFor = IF room_index # 0 THEN {} ELSE {p.index : p \in AboutARoom}
     /\ \A r : r \in {p.index : p \in AboutARoom} <=> AsksFor(r))'
BY AskedForIs, PTL

(* A step asks for one room when none is asked for, or for no other room   *)
(* than before, or ends the asking.                                        *)
LEMMA AskedStep ==
    ASSUME PatientSession, Served, PatientInv, TypeOK, [Next]_vars, ~StoreRoom
    PROVE  \/ \A r : AsksFor(r)' <=> AsksFor(r)
           \/ \A r : ~AsksFor(r)'
           \/ /\ room_index = 0 /\ \A r : ~AsksFor(r)
              /\ \E room : \A r : AsksFor(r)' <=> r = room
<1> USE SessionAssumption, MsgType DEF PatientSession, PatientInv, PatientExchange,
      PatientRooms, AtHome, TypeOK, UserReady,
      MENU_SELECT, shared, menu, recv, wire, server, RecvAt, MenuAt
<1> USE DEF Msg, Request1, Answer1
<1> DEFINE Same == \A r : AsksFor(r)' <=> AsksFor(r)
           None == \A r : ~AsksFor(r)'
           One  == /\ room_index = 0 /\ \A r : ~AsksFor(r)
                   /\ \E room : \A r : AsksFor(r)' <=> r = room
<1>1. ASSUME Login PROVE Same
  BY <1>1 DEF Login, Prepare, LoginPacket, AsksFor, OneExchange, HeldMenu,
        CreateUnderWay, Handlers, Quiet, InHand
<1>2. ASSUME MenuPoll PROVE Same
  BY <1>2 DEF MenuPoll, AsksFor, OneExchange, HeldMenu, CreateUnderWay,
        Handlers, Quiet, InHand
<1>3. ASSUME MenuPollHoisted PROVE Same
  BY <1>3 DEF MenuPollHoisted, AsksFor, OneExchange, HeldMenu, CreateUnderWay,
        Handlers, Quiet, InHand
<1>4. ASSUME NEW entry \in MENU_SELECT, Choose(entry) PROVE Same
  BY <1>4 DEF Choose, AsksFor, OneExchange, HeldMenu, CreateUnderWay,
        Handlers, Quiet, InHand
<1>5. ASSUME NEW ch \in ChannelInputs, ChannelMove(ch) PROVE Same
  BY <1>5 DEF ChannelMove, Prepare, ChannelMovePacket, AsksFor, OneExchange,
        HeldMenu, CreateUnderWay, Handlers, Quiet, InHand
<1>6. ASSUME NEW room \in RoomInputs, RoomCreate(room) PROVE Same \/ One
  <2>1. CASE room < 1
    BY <1>6, <2>1 DEF RoomCreate, BackToPoll, AsksFor, OneExchange, HeldMenu,
          CreateUnderWay, Handlers, Quiet, InHand
  <2>2. CASE ~(room < 1)
    BY <1>6, <2>2 DEF RoomCreate, Prepare, CreateRoomPacket, NeedsLobby,
          AsksFor, OneExchange, HeldMenu, CreateUnderWay, Handlers, Quiet,
          InHand
  <2>3. QED
    BY <2>1, <2>2
<1>7. ASSUME NEW room \in RoomInputs, EnterRoomInit(room) PROVE One
  BY <1>7 DEF EnterRoomInit, Prepare, EnterRoomPacket, NeedsLobby, AsksFor,
        OneExchange, HeldMenu, CreateUnderWay, Handlers, Quiet, InHand
<1>8. ASSUME DisableForUserList PROVE Same
  BY <1>8 DEF DisableForUserList, AsksFor, OneExchange, HeldMenu,
        CreateUnderWay, Handlers, Quiet, InHand
<1>9. ASSUME InRoomUserList PROVE Same
  BY <1>9 DEF InRoomUserList, Prepare, RoomUserListPacket, AsksFor,
        OneExchange, HeldMenu, CreateUnderWay, Handlers, Quiet, InHand
<1>10. ASSUME ChannelChat PROVE Same
  BY <1>10 DEF ChannelChat, Prepare, ChannelChattingPacket, AsksFor,
        OneExchange, HeldMenu, CreateUnderWay, Handlers, Quiet, InHand
<1>11. ASSUME RoomChat PROVE Same
  BY <1>11 DEF RoomChat, Prepare, RoomChattingPacket, AsksFor, OneExchange,
        HeldMenu, CreateUnderWay, Handlers, Quiet, InHand
<1>12. ASSUME LeaveRoom PROVE Same
  BY <1>12 DEF LeaveRoom, Prepare, LeaveRoomPacket, AsksFor, OneExchange,
        HeldMenu, CreateUnderWay, Handlers, Quiet, InHand
<1>13. ASSUME ChannelMoved PROVE Same
  BY <1>13 DEF ChannelMoved, AsksFor, OneExchange, HeldMenu, CreateUnderWay,
        Handlers, Quiet, InHand
<1>14. ASSUME ChannelChatted PROVE Same
  BY <1>14 DEF ChannelChatted, AsksFor, OneExchange, HeldMenu, CreateUnderWay,
        Handlers, Quiet, InHand
<1>15. ASSUME RoomLeft PROVE Same
  BY <1>15 DEF RoomLeft, AsksFor, OneExchange, HeldMenu, CreateUnderWay,
        Handlers, Quiet, InHand
<1>16. ASSUME ExitServer PROVE Same
  BY <1>16 DEF ExitServer, AsksFor, OneExchange, HeldMenu, CreateUnderWay,
        Handlers, Quiet, InHand
<1>17. ASSUME Exit PROVE Same
  BY <1>17 DEF Exit, AsksFor, OneExchange, HeldMenu, CreateUnderWay, Handlers,
        Quiet, InHand
<1>18. ASSUME WSARecvZero PROVE Same
  BY <1>18 DEF Served, WSARecvZero, AsksFor, OneExchange, HeldMenu,
        CreateUnderWay, Handlers, Quiet, InHand
<1>19. ASSUME WSARecvError PROVE Same
  BY <1>19 DEF WSARecvError, AsksFor, OneExchange, HeldMenu, CreateUnderWay,
        Handlers, Quiet, InHand
<1>20. ASSUME ProcessEnterChannel PROVE Same
  BY <1>20 DEF ProcessEnterChannel, EnableMenu, GoTo, Handling, AtMessage,
        AsksFor, OneExchange, HeldMenu, CreateUnderWay, Handlers, Quiet,
        InHand
<1>21. ASSUME StoreIdAndChannel PROVE Same
  BY <1>21 DEF StoreIdAndChannel, NextMessage, AsksFor, OneExchange, HeldMenu,
        CreateUnderWay, Handlers, Quiet, InHand
<1>22. ASSUME ProcessNotify PROVE Same
  BY <1>22 DEF ProcessNotify, NextMessage, Handling, AtMessage, AsksFor,
        OneExchange, HeldMenu, CreateUnderWay, Handlers, Quiet, InHand
<1>23. ASSUME ProcessChatOrList PROVE Same
  BY <1>23 DEF ProcessChatOrList, EnableMenu, NextMessage, Handling,
        AtMessage, ReadsMyId, AsksFor, OneExchange, HeldMenu, CreateUnderWay,
        Handlers, Quiet, InHand
<1>24. ASSUME ProcessEnterRoom PROVE None
  BY <1>24 DEF ProcessEnterRoom, NextMessage, Handling, AtMessage, AsksFor,
        OneExchange, HeldMenu, CreateUnderWay, Handlers, Quiet, InHand
<1>25. ASSUME ProcessRoomCreated PROVE Same
  BY <1>25 DEF ProcessRoomCreated, EnableMenu, GoTo, Handling, AtMessage,
        AsksFor, OneExchange, HeldMenu, CreateUnderWay, Handlers, Quiet,
        InHand
<1>26. ASSUME ProcessRoomExists PROVE Same
  BY <1>26 DEF ProcessRoomExists, GoTo, Handling, AtMessage, AsksFor,
        OneExchange, HeldMenu, CreateUnderWay, Handlers, Quiet, InHand
<1>27. ASSUME AnswerYes PROVE Same
  BY <1>27 DEF AnswerYes, GoTo, AsksFor, OneExchange, HeldMenu,
        CreateUnderWay, Handlers, Quiet, InHand
<1>28. ASSUME AnswerNo PROVE None
  BY <1>28 DEF AnswerNo, EnableMenu, NextMessage, AsksFor, OneExchange,
        HeldMenu, CreateUnderWay, Handlers, Quiet, InHand
<1>29. ASSUME EnterRoomSent PROVE Same
  BY <1>29 DEF EnterRoomSent, EnableMenu, GoTo, AsksFor, OneExchange,
        HeldMenu, CreateUnderWay, Handlers, Quiet, InHand
<1>30. ASSUME AfterBatch PROVE Same
  BY <1>30 DEF AfterBatch, AsksFor, OneExchange, HeldMenu, CreateUnderWay,
        Handlers, Quiet, InHand
<1>31. ASSUME ServerStops PROVE Same
  BY <1>31 DEF ServerStops, AsksFor, OneExchange, HeldMenu, CreateUnderWay,
        Handlers, Quiet, InHand
<1> HIDE MsgType DEF Msg, Request1, Answer1
<1>32. ASSUME Send PROVE Same \/ None
  <2>1. CASE socket = "open"
    BY <1>32, <2>1, SendDoes DEF AsksFor, AfterSend, Quiet, InHand
  <2>2. CASE socket # "open"
    BY <1>32, <2>2, SendDoes DEF AsksFor, AfterSend, Quiet, InHand
  <2>3. QED
    BY <2>1, <2>2
<1>33. ASSUME WSARecv PROVE Same
  <2>1. /\ inbound # <<>> /\ inbound' = <<>> /\ Len(recv_buffer') = 1
        /\ pos' = 1 /\ Msg' = Answer1 /\ Request1' = Request1
        /\ recvPc = "recv" /\ recvPc' = "dispatch"
        /\ UNCHANGED <<shared, menu, outbound, socket, server>>
    BY <1>33, WSARecvDoes
  <2>2. QED
    BY <2>1 DEF AsksFor, OneExchange, InHand
<1>34. ASSUME SendEnterRoom PROVE Same
  <2>1. /\ recvPc = "enter_send" /\ InHand /\ outbound = <<>> /\ inbound = <<>>
        /\ inbound' = <<>> /\ Msg' = Msg /\ recvPc' = "entered"
        /\ UNCHANGED <<shared, menu, recv_buffer, pos, server, socket>>
        /\ socket = "open" => outbound' # <<>> /\ Request1' = EnterRoomPacket(Msg.index)
        /\ socket # "open" => outbound' = <<>>
    BY <1>34, SendEnterRoomDoes
  <2>2. QED
    BY <2>1 DEF EnterRoomPacket, AsksFor, Handlers, InHand
<1>35. ASSUME ServerLogin PROVE Same
  <2>1. /\ outbound # <<>> /\ outbound' = <<>> /\ inbound = <<>>
        /\ Request1.type = "USER_LOGIN" /\ UNCHANGED <<menu, recv>> /\ Msg' = Msg
    BY <1>35, TakesDoes DEF ServerLogin
  <2>2. inbound' # <<>> /\ Answer1' = NoticeOf("ENTER_CHANNEL", Self, srvChannel, FALSE)
    BY <1>35, <2>1, SaysFirst DEF ServerLogin
  <2>3. QED
    BY <2>1, <2>2 DEF NoticeOf, AsksFor, InHand
<1>36. ASSUME ServerChangeChannel PROVE Same
  <2>1. /\ outbound # <<>> /\ outbound' = <<>> /\ inbound = <<>>
        /\ Request1.type = "CHANGE_CHANNEL" /\ UNCHANGED <<menu, recv>> /\ Msg' = Msg
    BY <1>36, TakesDoes DEF ServerChangeChannel
  <2>2. \/ inbound' = <<>>
        \/ /\ inbound' # <<>>
           /\ Answer1' = NoticeOf("ENTER_CHANNEL", Self, Request1.index, FALSE)
    BY <1>36, <2>1, SaysFirst DEF ServerChangeChannel
  <2>3. QED
    BY <2>1, <2>2 DEF NoticeOf, AsksFor, InHand
<1>37. ASSUME ServerCreateRoom PROVE Same
  <2>1. /\ outbound # <<>> /\ outbound' = <<>> /\ inbound = <<>>
        /\ Request1.type = "CREATE_ROOM" /\ UNCHANGED <<menu, recv>> /\ Msg' = Msg
    BY <1>37, TakesDoes DEF ServerCreateRoom
  <2>2. inbound' # <<>> /\ Answer1' = NoticeOf("NOTIFY_EXIST_ROOM", 0, Request1.index,
                                             Request1.index \in srvRooms)
    BY <1>37, <2>1, SaysFirst DEF ServerCreateRoom
  <2>3. QED
    BY <2>1, <2>2 DEF NoticeOf, AsksFor, InHand
<1>38. ASSUME ServerEnterRoom PROVE Same
  <2>1. /\ outbound # <<>> /\ outbound' = <<>> /\ inbound = <<>>
        /\ Request1.type = "ENTER_ROOM" /\ UNCHANGED <<menu, recv>> /\ Msg' = Msg
    BY <1>38, TakesDoes DEF ServerEnterRoom
  <2>2. inbound' # <<>> /\ Answer1' = NoticeOf("ENTER_ROOM", 0, Request1.index,
                                             Request1.index \in srvRooms)
    BY <1>38, <2>1, SaysFirst DEF ServerEnterRoom
  <2>3. QED
    BY <2>1, <2>2 DEF NoticeOf, AsksFor, InHand
<1>39. ASSUME ServerLeaveRoom PROVE Same
  <2>1. /\ outbound # <<>> /\ outbound' = <<>> /\ inbound = <<>>
        /\ Request1.type = "LEAVE_ROOM" /\ UNCHANGED <<menu, recv>> /\ Msg' = Msg
    BY <1>39, TakesDoes DEF ServerLeaveRoom
  <2>2. QED
    BY <1>39, <2>1 DEF ServerLeaveRoom, AsksFor, InHand
<1>40. ASSUME ServerReply PROVE Same
  <2>1. PICK type \in {"ROOM_LIST", "ROOM_CHATTING", "CHANNEL_CHATTING"} :
          Takes(type) /\ \E id, index : Say(NoticeOf(type, id, index, FALSE))
    BY <1>40, TRUE DEF ServerReply
  <2>2. /\ outbound # <<>> /\ outbound' = <<>> /\ inbound = <<>>
        /\ Request1.type = type /\ UNCHANGED <<menu, recv>> /\ Msg' = Msg
    BY <2>1, TakesDoes
  <2>3. inbound' # <<>> /\ Answer1'.type = type
    BY <2>1, <2>2, SaysFirst DEF NoticeOf
  <2>4. QED
    BY <2>1, <2>2, <2>3 DEF AsksFor, InHand
<1>41. CASE OtherSpeaks \/ OtherOpensRoom \/ OtherClosesRoom
  BY <1>41 DEF OtherSpeaks, OtherOpensRoom, OtherClosesRoom, OthersActive
<1>42. ASSUME UNCHANGED vars PROVE Same
  <2>1. UNCHANGED <<menu, recv, wire>> /\ UNCHANGED <<Msg, Request1, Answer1>>
    BY <1>42 DEF vars, Msg, Request1, Answer1
  <2>2. QED
    BY <2>1 DEF AsksFor, InHand
<1>43. QED
  BY <1>1, <1>2, <1>3, <1>4, <1>5, <1>6, <1>7, <1>8, <1>9, <1>10, <1>11,
     <1>12, <1>13, <1>14, <1>15, <1>16, <1>17, <1>18, <1>19, <1>20, <1>21,
     <1>22, <1>23, <1>24, <1>25, <1>26, <1>27, <1>28, <1>29, <1>30, <1>31,
     <1>32, <1>33, <1>34, <1>35, <1>36, <1>37, <1>38, <1>39, <1>40, <1>41,
     <1>42
     DEF Next, UserStep, MenuStep, RecvStep, ServerStep, OthersStep, Terminated

(* Leaving a room, or moving, asks for none.                               *)
LEMMA NoneAsked ==
    ASSUME TypeOK, Len(recv_buffer) <= 1, \A r : ~AsksFor(r),
           RoomLeft \/ ChannelMoved \/ StoreIdAndChannel
    PROVE  \A r : ~AsksFor(r)'
<1>1. CASE RoomLeft \/ ChannelMoved
  BY <1>1 DEF RoomLeft, ChannelMoved, AsksFor, InHand, Msg, Request1, Answer1,
        recv, wire
<1>2. CASE StoreIdAndChannel
  <2>1. UNCHANGED <<menuPc, req, outbound, inbound, Request1, Answer1>>
    BY <1>2 DEF StoreIdAndChannel, menu, wire, Request1, Answer1
  <2>2. ~InHand'
    BY <1>2 DEF StoreIdAndChannel, NextMessage, InHand, TypeOK
  <2>3. QED
    BY <2>1, <2>2 DEF AsksFor
<1>3. QED
  BY <1>1, <1>2

(* So the room asked for appears, stays or goes.                           *)
LEMMA AskedMoves ==
    ASSUME PatientSession, Served, PatientInv, TypeOK, [Next]_vars, ~StoreRoom,
           UNCHANGED room_index
    PROVE  \/ UNCHANGED RoomsAskedFor
           \/ RoomsAskedFor' = {}
           \/ /\ room_index = 0 /\ RoomsAskedFor = {} /\ RoomsAskedFor' # {}
              /\ \A r, s \in RoomsAskedFor' : r = s
<1>1. CASE \A r : AsksFor(r)' <=> AsksFor(r)
  BY <1>1, AskedForIs, AskedForIsNext
<1>2. CASE \A r : ~AsksFor(r)'
  BY <1>2, AskedForIs, AskedForIsNext
<1>3. CASE /\ room_index = 0 /\ \A r : ~AsksFor(r)
           /\ \E room : \A r : AsksFor(r)' <=> r = room
  <2>1. RoomsAskedFor = {}
    BY <1>3, AskedForIs
  <2>2. PICK room : \A r : AsksFor(r)' <=> r = room
    BY <1>3
  <2>3. \A r : r \in RoomsAskedFor' <=> r = room
    BY <1>3, <2>2, AskedForIsNext
  <2>4. QED
    BY <1>3, <2>1, <2>3
<1>4. QED
  BY <1>1, <1>2, <1>3, AskedStep

(* Every step of the session is a step of RoomView, or none that the user  *)
(* sees.                                                                   *)
LEMMA ViewStep ==
    ASSUME PatientSession, Served => PatientInv, TypeOK, [Next]_vars
    PROVE  [View!ViewNext]_View!view
<1> USE DEF View!ViewNext, View!Served, View!view
<1>1. CASE ~Served
  BY <1>1, ServedBefore DEF View!Unserved
<1>2. CASE Served /\ ~Served'
  <2>1. ExitServer \/ ServerStops
    BY <1>2, WhoCloses DEF Served
  <2>2. /\ UNCHANGED <<room_index, channel_index, inbound, outbound, recv, req>>
        /\ (menuPc # "send" /\ menuPc' # "send") \/ UNCHANGED menuPc
    BY <2>1 DEF ExitServer, ServerStops, MenuAt, shared, menu
  <2>3. RoomsAskedFor' = RoomsAskedFor
    <3>1. UNCHANGED AboutARoom
      <4>1. UNCHANGED <<Request1, Head(inbound), recvPc, pos, recv_buffer, Msg>>
        BY <2>2 DEF recv, Request1, Msg
      <4>2. UNCHANGED (IF menuPc = "send" THEN {req} ELSE {})
        BY <2>2
      <4>3. QED
        BY <2>2, <4>1, <4>2 DEF AboutARoom
    <3>2. QED
      BY <2>2, <3>1 DEF RoomsAskedFor
  <2>4. QED
    BY <1>2, <2>2, <2>3 DEF View!Closes
<1>3. CASE Served /\ Served'
  <2>1. PatientInv /\ (Served' = Served)
    BY <1>3 DEF Served
  <2>2. CASE UNCHANGED <<room_index, channel_index>> /\ ~StoreRoom
    BY <1>3, <2>1, <2>2, AskedMoves DEF View!Asks, View!Refused
  <2>3. CASE ChannelMoved \/ StoreIdAndChannel
    <3>1. UNCHANGED room_index /\ channel_index' \in Channels /\ room_index = 0
      <4>1. CASE ChannelMoved
        BY <2>1, <4>1 DEF ChannelMoved, MenuAt, PatientInv, PatientRooms, AtHome
      <4>2. CASE StoreIdAndChannel
        <5>1. InHand /\ Msg.type = "ENTER_CHANNEL"
          BY <2>1, <4>2 DEF StoreIdAndChannel, RecvAt, TypeOK, InHand, PatientInv,
                PatientExchange, Handlers
        <5>2. room_index = 0 /\ Msg.index \in Channels
          BY <2>1, <5>1 DEF PatientInv, PatientRooms, AtHome, NoticeAtHome
        <5>3. QED
          BY <4>2, <5>2 DEF StoreIdAndChannel
      <4>3. QED
        BY <2>3, <4>1, <4>2
    <3>2. \A r : ~AsksFor(r)
      <4>1. CASE ChannelMoved
        BY <2>1, <4>1 DEF ChannelMoved, MenuAt, PatientInv, PatientRooms, AtHome,
              AsksFor
      <4>2. CASE StoreIdAndChannel
        BY <2>1, <4>2 DEF StoreIdAndChannel, RecvAt, TypeOK, InHand, PatientInv,
              PatientExchange, Handlers, OneExchange, Quiet, AsksFor
      <4>3. QED
        BY <2>3, <4>1, <4>2
    <3>3. \A r : ~AsksFor(r)'
      BY <2>1, <2>3, <3>2, NoneAsked DEF PatientInv, PatientExchange, OneExchange
    <3>4. RoomsAskedFor = {} /\ RoomsAskedFor' = {}
      BY <3>2, <3>3, AskedForIs, AskedForIsNext
    <3>5. QED
      BY <1>3, <2>1, <3>1, <3>4 DEF View!MovesChannel
  <2>4. CASE RoomLeft
    <3>1. menuPc = "LEAVE_ROOM" /\ menuPc' = "poll" /\ room_index' = 0
          /\ UNCHANGED <<channel_index, recvPc>>
      BY <2>4 DEF RoomLeft, MenuAt, recv
    <3>2. \A r : ~AsksFor(r)
      BY <2>1, <3>1 DEF PatientInv, PatientRooms, AtHome, AsksFor
    <3>3. RoomsAskedFor = {} /\ RoomsAskedFor' = {}
      <4>1. \A r : ~AsksFor(r)'
        BY <2>1, <2>4, <3>2, NoneAsked DEF PatientInv, PatientExchange, OneExchange
      <4>2. QED
        BY <3>2, <4>1, AskedForIs, AskedForIsNext
    <3>4. QED
      BY <1>3, <2>1, <3>1, <3>3 DEF View!LeavesRoom
  <2>5. CASE ProcessEnterRoom \/ StoreRoom
    <3>1. InHand
      BY <2>5 DEF ProcessEnterRoom, StoreRoom, Handling, AtMessage, RecvAt, InHand,
            TypeOK
    <3>2. Msg.type \in {"NOTIFY_EXIST_ROOM", "ENTER_ROOM"}
      BY <2>1, <2>5 DEF ProcessEnterRoom, StoreRoom, Handling, RecvAt, PatientInv,
            PatientExchange, Handlers
    <3>3. UNCHANGED channel_index
      BY <2>5 DEF ProcessEnterRoom, StoreRoom
    <3>4. CASE room_index' = room_index /\ ~StoreRoom
      BY <2>2, <3>3, <3>4
    <3>5. CASE room_index' = Msg.index /\ room_index = 0 /\ Msg.index \in Rooms
      <4>1. Msg.index \in RoomsAskedFor
        BY <3>1, <3>2, <3>5, AskedForIs DEF AsksFor
      <4>2. RoomsAskedFor' = {}
        BY <3>5, AskedForIsNext DEF Rooms
      <4>3. QED
        BY <1>3, <2>1, <3>3, <3>5, <4>1, <4>2 DEF View!EntersRoom
    <3>6. CASE StoreRoom
      <4>1. Msg.type = "NOTIFY_EXIST_ROOM"
        BY <2>1, <3>6 DEF StoreRoom, RecvAt, PatientInv, PatientExchange, Handlers
      <4>2. room_index = 0 /\ Msg.index \in Rooms
        BY <2>1, <3>1, <4>1 DEF PatientInv, PatientRooms, AtHome, NoticeAtHome
      <4>3. QED
        BY <3>5, <3>6, <4>2 DEF StoreRoom
    <3>7. CASE ProcessEnterRoom
      <4>1. Msg.type = "ENTER_ROOM"
        BY <3>7 DEF ProcessEnterRoom, Handling
      <4>2. Msg.flag => Msg.index \in Rooms /\ room_index \in {0, Msg.index}
        BY <2>1, <3>1, <4>1 DEF PatientInv, PatientRooms, AtHome, NoticeAtHome
      <4>3. ~StoreRoom
        BY <3>7 DEF ProcessEnterRoom, Handling, AtMessage, RecvAt, StoreRoom
      <4>4. QED
        BY <3>4, <3>5, <3>7, <4>2, <4>3 DEF ProcessEnterRoom
    <3>8. QED
      BY <2>5, <3>6, <3>7
  <2>6. QED
    BY <2>2, <2>3, <2>4, <2>5, WhoMoves
<1>4. QED
  BY <1>1, <1>2, <1>3

(* For a patient user the two threads together keep SetMenu's promise      *)
(* until the server closes: one room at a time, the one last asked for,    *)
(* entered from outside, and no move from inside a room.                   *)
THEOREM RoomViewKept == ASSUME PatientSession PROVE Spec => KeepsRoomView
<1>1. Init => View!ViewInit
  <2> SUFFICES ASSUME Init PROVE View!ViewInit
    OBVIOUS
  <2>1. room_index = 0 /\ channel_index \in Int /\ Served = TRUE
    BY TypeInit DEF Init, TypeOK, Served
  <2>2. RoomsAskedFor = {}
    BY AskedForIs DEF Init, AsksFor, InHand
  <2>3. QED
    BY <2>1, <2>2 DEF View!ViewInit
<1>2. (Served => PatientInv) /\ TypeOK /\ [Next]_vars => [View!ViewNext]_View!view
  BY ViewStep
<1>3. QED
  BY <1>1, <1>2, PatientInvariant, TypeCorrect, PTL DEF Spec, KeepsRoomView, View!ViewSpec

=============================================================================
