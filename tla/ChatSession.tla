---------------------------- MODULE ChatSession -----------------------------
(***************************************************************************)
(* One chat session: the menu thread (LoginToServer, then SetMenu), the    *)
(* receive thread (RecvThread, PacketProcess and its handlers) and the     *)
(* chat server, joined by a TCP connection.                                *)
(*                                                                         *)
(* The two threads share menu_enable, room_index, channel_index and the    *)
(* standard input without a lock.  A step is a stretch of code that        *)
(* touches what the other thread can see at most once, so every            *)
(* interleaving of those accesses is a behaviour.                          *)
(*                                                                         *)
(* What this module leaves to others (see the README):                     *)
(*  - a read from the socket ends at a message boundary, and the messages  *)
(*    in the receive buffer have one length (FrameParser, RecvBuffer);     *)
(*  - a packet that is sent reaches the server whole (SendPath);           *)
(*  - what the user types is what the prompt asked for.                    *)
(*                                                                         *)
(* The server is not in this repository.  Its actions are what the client  *)
(* relies on: it answers the packets whose handlers the client has, in     *)
(* order, and it speaks to a client only after the login.                  *)
(***************************************************************************)
EXTENDS ChatProtocol, Sequences

CONSTANTS
    Self,           \* the id the server gives this client
    Others,         \* the ids of the other users
    RoomInputs,     \* the numbers the user types when asked for a room
    ChannelInputs,  \* the numbers the user types when asked for a channel
    FirstChannel,   \* the channel a login starts in
    Garbage,        \* what uninitialised memory may hold
    BufferSize,     \* how many messages fit into recv_buffer
    MaxTraffic,     \* bound: no new input or noise beyond this much traffic
    Patient,        \* the user types only when nothing is in flight
    NoiseTypes,     \* what other users make the server send, unasked
    PollHoisted,    \* the build reads menu_enable once, outside the loop
    ServerMayStop   \* the server may close or reset the connection

ASSUME SessionAssumption ==
    /\ Self \in Int /\ Others \subseteq Int
    /\ RoomInputs \subseteq Int /\ ChannelInputs \subseteq Int
    /\ FirstChannel \in 0..4 /\ Garbage \subseteq Int
    /\ NoiseTypes \subseteq {"CHANNEL_CHATTING", "ROOM_CHATTING",
                             "NOTIFY_ENTER_ROOM", "NOTIFY_LEAVE_ROOM"}
    /\ BufferSize \in Nat \ {0} /\ MaxTraffic \in Nat
    /\ Patient \in BOOLEAN /\ PollHoisted \in BOOLEAN /\ ServerMayStop \in BOOLEAN

VARIABLES
    menu_enable, room_index, channel_index, my_id, recv_start,
    menuPc, req,                \* the menu thread and the packet it sends
    recvPc, recv_buffer, pos,   \* the receive thread and its parse position
    inbound, outbound, socket,  \* the connection, seen from this client
    loggedIn, srvRoom, srvChannel, srvRooms     \* the server

shared == <<menu_enable, room_index, channel_index, my_id, recv_start>>
menu   == <<menuPc, req>>
recv   == <<recvPc, recv_buffer, pos>>
wire   == <<inbound, outbound, socket>>
server == <<loggedIn, srvRoom, srvChannel, srvRooms>>
vars   == <<shared, menu, recv, wire, server>>

Channels == 0..4
Rooms    == {r \in RoomInputs : r >= 1}
NoPacket == LoginPacket     \* between packets req holds nothing of use

(* Menu entries SetMenu refuses inside a room, and outside of one.         *)
NeedsLobby == {"CHANNEL_MOVE", "ROOM_CREATE", "ENTER_ROOM_INIT"}
NeedsRoom  == {"IN_ROOM_USER_LIST", "ROOM_CHATTING_MENU", "LEAVE_ROOM_MENU"}

Init ==
    /\ menu_enable = FALSE /\ room_index = 0 /\ recv_start = FALSE
    /\ my_id \in Garbage /\ channel_index \in Garbage   \* never initialised
    /\ menuPc = "login" /\ req = NoPacket
    /\ recvPc = "recv" /\ recv_buffer = <<>> /\ pos = 1
    /\ inbound = <<>> /\ outbound = <<>> /\ socket = "open"
    /\ loggedIn = FALSE /\ srvRoom = 0 /\ srvChannel = FirstChannel
    /\ srvRooms \in SUBSET Rooms

-----------------------------------------------------------------------------
(* The menu thread.                                                        *)

(* When the user answers the menu: a patient user lets everything that is  *)
(* under way finish first.                                                 *)
UserReady ==
    IF Patient
      THEN /\ inbound = <<>> /\ outbound = <<>>
           /\ recvPc \in {"recv", "prompt", "dead"}
      ELSE Len(inbound) + Len(outbound) < MaxTraffic

MenuAt(pc) == menuPc = pc

(* The menu thread reads the standard input, or polls.                     *)
MenuReads == menuPc \in {"choose", "CHANNEL_MOVE", "ROOM_CREATE", "ENTER_ROOM_INIT",
                         "CHANNEL_CHATTING_MENU", "ROOM_CHATTING_MENU"}
MenuWaits == MenuReads \/ menuPc \in {"poll", "spin"}

(* menu_enable is set and the packet is ready to be sent.                  *)
Prepare(packet, enable) ==
    /\ req' = packet /\ menu_enable' = enable /\ menuPc' = "send"
    /\ UNCHANGED <<room_index, channel_index, my_id, recv_start>>

BackToPoll ==
    /\ menuPc' = "poll"
    /\ UNCHANGED <<shared, req>>

Login ==
    /\ MenuAt("login") /\ UserReady
    /\ Prepare(LoginPacket, menu_enable)
    /\ UNCHANGED <<recv, wire, server>>

MenuPoll ==
    /\ MenuAt("poll") /\ menu_enable
    /\ menuPc' = "choose"
    /\ UNCHANGED <<shared, req, recv, wire, server>>

(* Nothing orders the unsynchronised reads of menu_enable: a build may     *)
(* keep one read that found it false.                                      *)
MenuPollHoisted ==
    /\ MenuAt("poll") /\ ~menu_enable /\ PollHoisted
    /\ menuPc' = "spin"
    /\ UNCHANGED <<shared, req, recv, wire, server>>

(* Mutant: a channel move is not refused inside a room.                    *)
RefusedOnlyForRooms(entry) ==
    \/ entry \in NeedsLobby \ {"CHANNEL_MOVE"} /\ room_index # 0
    \/ entry \in NeedsRoom /\ room_index = 0
    \/ entry = "ROOM_MOVE"

Refused(entry) ==
    \/ entry \in NeedsLobby /\ room_index # 0
    \/ entry \in NeedsRoom /\ room_index = 0
    \/ entry = "ROOM_MOVE"

Choose(entry) ==
    /\ MenuAt("choose") /\ UserReady
    /\ menuPc' = IF Refused(entry) THEN "poll" ELSE entry
    /\ UNCHANGED <<shared, req, recv, wire, server>>

ChannelMove(ch) ==
    /\ MenuAt("CHANNEL_MOVE") /\ UserReady
    /\ IF ch \in Channels
         THEN Prepare(ChannelMovePacket(ch), menu_enable)
         ELSE /\ menuPc' = "poll" /\ menu_enable' = TRUE
              /\ UNCHANGED <<req, room_index, channel_index, my_id, recv_start>>
    /\ UNCHANGED <<recv, wire, server>>

(* Mutant: room 0 passes the test of the number typed.                     *)
RoomCreateFromZero(room) ==
    /\ MenuAt("ROOM_CREATE") /\ UserReady
    /\ IF room < 0 THEN BackToPoll ELSE Prepare(CreateRoomPacket(room), FALSE)
    /\ UNCHANGED <<recv, wire, server>>

RoomCreate(room) ==
    /\ MenuAt("ROOM_CREATE") /\ UserReady
    /\ IF room < 1 THEN BackToPoll ELSE Prepare(CreateRoomPacket(room), FALSE)
    /\ UNCHANGED <<recv, wire, server>>

EnterRoomInit(room) ==
    /\ MenuAt("ENTER_ROOM_INIT") /\ UserReady
    /\ Prepare(EnterRoomPacket(room), FALSE)
    /\ UNCHANGED <<recv, wire, server>>

(* The menu is disabled first, then room_index is read again.              *)
DisableForUserList ==
    /\ MenuAt("IN_ROOM_USER_LIST")
    /\ menu_enable' = FALSE /\ menuPc' = "list_room"
    /\ UNCHANGED <<room_index, channel_index, my_id, recv_start, req,
                   recv, wire, server>>

InRoomUserList ==
    /\ MenuAt("list_room")
    /\ Prepare(RoomUserListPacket(room_index), menu_enable)
    /\ UNCHANGED <<recv, wire, server>>

ChannelChat ==
    /\ MenuAt("CHANNEL_CHATTING_MENU") /\ UserReady
    /\ Prepare(ChannelChattingPacket, FALSE)
    /\ UNCHANGED <<recv, wire, server>>

RoomChat ==
    /\ MenuAt("ROOM_CHATTING_MENU") /\ UserReady
    /\ Prepare(RoomChattingPacket, FALSE)
    /\ UNCHANGED <<recv, wire, server>>

LeaveRoom ==
    /\ MenuAt("LEAVE_ROOM_MENU")
    /\ Prepare(LeaveRoomPacket(room_index), menu_enable)
    /\ UNCHANGED <<recv, wire, server>>

(* A send on a dead connection only prints an error.                       *)
Transmit(packet) ==
    /\ outbound' = IF socket = "open" THEN Append(outbound, packet) ELSE outbound
    /\ UNCHANGED <<inbound, socket>>

(* Where the menu thread goes on after WSASend.                            *)
AfterSend(type) ==
    IF type \in {"CHANGE_CHANNEL", "CHANNEL_CHATTING", "LEAVE_ROOM"}
      THEN type ELSE "poll"

Send ==
    /\ MenuAt("send")
    /\ Transmit(req)
    /\ menuPc' = AfterSend(req.type)
    /\ req' = IF req.type = "CHANGE_CHANNEL" THEN req ELSE NoPacket
    /\ UNCHANGED <<shared, recv, server>>

(* Mutant: the channel is left to the server's answer.                     *)
ChannelMovedUnstored ==
    /\ MenuAt("CHANGE_CHANNEL")
    /\ menu_enable' = TRUE /\ menuPc' = "poll"
    /\ req' = NoPacket
    /\ UNCHANGED <<room_index, channel_index, my_id, recv_start, recv, wire, server>>

ChannelMoved ==
    /\ MenuAt("CHANGE_CHANNEL")
    /\ menu_enable' = TRUE /\ channel_index' = req.index /\ menuPc' = "poll"
    /\ req' = NoPacket
    /\ UNCHANGED <<room_index, my_id, recv_start, recv, wire, server>>

(* Mutant: the menu is disabled after the send instead of before it.       *)
ChannelChattedLate ==
    /\ MenuAt("CHANNEL_CHATTING")
    /\ menu_enable' = FALSE /\ menuPc' = "poll"
    /\ UNCHANGED <<room_index, channel_index, my_id, recv_start, req,
                   recv, wire, server>>

ChannelChatted ==
    /\ MenuAt("CHANNEL_CHATTING")
    /\ menu_enable' = TRUE /\ menuPc' = "poll"
    /\ UNCHANGED <<room_index, channel_index, my_id, recv_start, req,
                   recv, wire, server>>

RoomLeft ==
    /\ MenuAt("LEAVE_ROOM")
    /\ room_index' = 0 /\ menuPc' = "poll"
    /\ UNCHANGED <<menu_enable, channel_index, my_id, recv_start, req,
                   recv, wire, server>>

(* closesocket, then exit: the process ends with both threads.             *)
ExitServer ==
    /\ MenuAt("EXIT_SERVER")
    /\ socket' = "closed" /\ menuPc' = "exit"
    /\ UNCHANGED <<shared, req, recv, inbound, outbound, server>>

Exit ==
    /\ MenuAt("exit")
    /\ menuPc' = "exited"
    /\ UNCHANGED <<shared, req, recv, wire, server>>

-----------------------------------------------------------------------------
(* The receive thread.                                                     *)

RecvAt(pc) == recvPc = pc /\ menuPc # "exited"

Msg       == recv_buffer[pos]
AtMessage == RecvAt("dispatch") /\ pos <= Len(recv_buffer)
Handling(type) == AtMessage /\ Msg.type = type

(* What a read of these messages leaves in the buffer: nothing clears it,  *)
(* so behind them is what earlier reads left, and it is parsed again.      *)
Overwrite(buffer, fresh) ==
    fresh \o SubSeq(buffer, Len(fresh) + 1, Len(buffer))

WSARecv ==
    /\ RecvAt("recv") /\ socket \in {"open", "eof"}
    /\ \E n \in 1..BufferSize :
         /\ n <= Len(inbound)
         /\ recv_buffer' = Overwrite(recv_buffer, SubSeq(inbound, 1, n))
         /\ inbound' = SubSeq(inbound, n + 1, Len(inbound))
    /\ pos' = 1 /\ recvPc' = "dispatch"
    /\ UNCHANGED <<shared, menu, outbound, socket, server>>

(* An orderly close is not an error: WSARecv reports zero bytes, which     *)
(* RecvThread does not look at, and it parses the whole buffer once more.  *)
WSARecvZero ==
    /\ RecvAt("recv") /\ socket = "eof" /\ inbound = <<>>
    /\ pos' = 1 /\ recvPc' = "dispatch"
    /\ UNCHANGED <<shared, menu, recv_buffer, wire, server>>

WSARecvError ==
    /\ RecvAt("recv") /\ socket \in {"reset", "aborted", "closed"}
    /\ recvPc' = "dead"
    /\ UNCHANGED <<shared, menu, recv_buffer, pos, wire, server>>

(* Mutant: the stream is advanced once by ReadRaw and once more by Skip.   *)
NextMessageTwice ==
    /\ recvPc' = "dispatch" /\ pos' = pos + 2
    /\ UNCHANGED recv_buffer

NextMessage ==
    /\ recvPc' = "dispatch" /\ pos' = pos + 1
    /\ UNCHANGED recv_buffer

GoTo(pc) == recvPc' = pc /\ UNCHANGED <<recv_buffer, pos>>

EnableMenu ==
    /\ menu_enable' = TRUE
    /\ UNCHANGED <<room_index, channel_index, my_id, recv_start>>

ProcessEnterChannel ==
    /\ Handling("ENTER_CHANNEL")
    /\ EnableMenu /\ GoTo("set_id")
    /\ UNCHANGED <<menu, wire, server>>

(* Mutant: the id is not stored.                                           *)
StoreChannelOnly ==
    /\ RecvAt("set_id")
    /\ channel_index' = Msg.index
    /\ NextMessage
    /\ UNCHANGED <<menu_enable, room_index, my_id, recv_start, menu, wire, server>>

StoreIdAndChannel ==
    /\ RecvAt("set_id")
    /\ my_id' = Msg.id /\ channel_index' = Msg.index
    /\ NextMessage
    /\ UNCHANGED <<menu_enable, room_index, recv_start, menu, wire, server>>

ProcessNotify ==
    /\ Handling("NOTIFY_ENTER_ROOM") \/ Handling("NOTIFY_LEAVE_ROOM")
    /\ NextMessage
    /\ UNCHANGED <<shared, menu, wire, server>>

ProcessChatOrList ==
    /\ \E type \in ReadsMyId : Handling(type)
    /\ EnableMenu /\ NextMessage
    /\ UNCHANGED <<menu, wire, server>>

(* Mutant: the test of isEnter is the wrong way round.                     *)
ProcessEnterRoomInverted ==
    /\ Handling("ENTER_ROOM")
    /\ room_index' = IF Msg.flag THEN room_index ELSE Msg.index
    /\ NextMessage
    /\ UNCHANGED <<menu_enable, channel_index, my_id, recv_start,
                   menu, wire, server>>

ProcessEnterRoom ==
    /\ Handling("ENTER_ROOM")
    /\ room_index' = IF Msg.flag THEN Msg.index ELSE room_index
    /\ NextMessage
    /\ UNCHANGED <<menu_enable, channel_index, my_id, recv_start,
                   menu, wire, server>>

ProcessRoomCreated ==
    /\ Handling("NOTIFY_EXIST_ROOM") /\ ~Msg.flag
    /\ EnableMenu /\ GoTo("set_room")
    /\ UNCHANGED <<menu, wire, server>>

(* Mutant: the menu is enabled before the user has been asked.             *)
ProcessRoomExistsEager ==
    /\ Handling("NOTIFY_EXIST_ROOM") /\ Msg.flag
    /\ EnableMenu /\ GoTo("prompt")
    /\ UNCHANGED <<menu, wire, server>>

ProcessRoomExists ==
    /\ Handling("NOTIFY_EXIST_ROOM") /\ Msg.flag
    /\ GoTo("prompt")
    /\ UNCHANGED <<shared, menu, wire, server>>

(* Y and N are read by this thread, from the input the menu reads too.     *)
AnswerYes ==
    /\ RecvAt("prompt")
    /\ GoTo("enter_send")
    /\ UNCHANGED <<shared, menu, wire, server>>

AnswerNo ==
    /\ RecvAt("prompt")
    /\ EnableMenu /\ NextMessage
    /\ UNCHANGED <<menu, wire, server>>

SendEnterRoom ==
    /\ RecvAt("enter_send")
    /\ Transmit(EnterRoomPacket(Msg.index))
    /\ GoTo("entered")
    /\ UNCHANGED <<shared, menu, server>>

EnterRoomSent ==
    /\ RecvAt("entered")
    /\ EnableMenu /\ GoTo("set_room")
    /\ UNCHANGED <<menu, wire, server>>

StoreRoom ==
    /\ RecvAt("set_room")
    /\ room_index' = Msg.index
    /\ NextMessage
    /\ UNCHANGED <<menu_enable, channel_index, my_id, recv_start,
                   menu, wire, server>>

(* Mutant: enabling the menu is left to the handlers, and the handler of   *)
(* Enter_Room returns before its own assignment.                           *)
AfterBatchSilent ==
    /\ RecvAt("dispatch") /\ pos > Len(recv_buffer)
    /\ recv_start' = TRUE
    /\ recvPc' = "recv" /\ pos' = 1
    /\ UNCHANGED <<menu_enable, room_index, channel_index, my_id, recv_buffer,
                   menu, wire, server>>

AfterBatch ==
    /\ RecvAt("dispatch") /\ pos > Len(recv_buffer)
    /\ menu_enable' = TRUE /\ recv_start' = TRUE
    /\ recvPc' = "recv" /\ pos' = 1
    /\ UNCHANGED <<room_index, channel_index, my_id, recv_buffer,
                   menu, wire, server>>

-----------------------------------------------------------------------------
(* The server, as the client's handlers presume it.                        *)

NoticeOf(type, id, index, flag) ==
    [type |-> type, id |-> id, index |-> index, flag |-> flag]

Say(notice) == inbound' = Append(inbound, notice)

ServerUp == socket = "open"

Request1 == Head(outbound)

Takes(type) ==
    /\ ServerUp /\ outbound # <<>> /\ Request1.type = type
    /\ outbound' = Tail(outbound)
    /\ UNCHANGED <<socket, shared, menu, recv>>

ServerLogin ==
    /\ Takes("USER_LOGIN")
    /\ loggedIn' = TRUE
    /\ Say(NoticeOf("ENTER_CHANNEL", Self, srvChannel, FALSE))
    /\ UNCHANGED <<srvRoom, srvChannel, srvRooms>>

(* The client stores the channel without waiting for an answer: whether    *)
(* one comes, each time, is the server's business.                         *)
ServerChangeChannel ==
    /\ Takes("CHANGE_CHANNEL")
    /\ srvChannel' = Request1.index
    /\ \/ Say(NoticeOf("ENTER_CHANNEL", Self, Request1.index, FALSE))
       \/ UNCHANGED inbound
    /\ UNCHANGED <<loggedIn, srvRoom, srvRooms>>

ServerCreateRoom ==
    /\ Takes("CREATE_ROOM")
    /\ LET room   == Request1.index
           exists == room \in srvRooms
       IN  /\ srvRoom' = IF exists THEN srvRoom ELSE room
           /\ srvRooms' = srvRooms \union {room}
           /\ Say(NoticeOf("NOTIFY_EXIST_ROOM", 0, room, exists))
    /\ UNCHANGED <<loggedIn, srvChannel>>

ServerEnterRoom ==
    /\ Takes("ENTER_ROOM")
    /\ LET room   == Request1.index
           exists == room \in srvRooms
       IN  /\ srvRoom' = IF exists THEN room ELSE srvRoom
           /\ Say(NoticeOf("ENTER_ROOM", 0, room, exists))
    /\ UNCHANGED <<loggedIn, srvChannel, srvRooms>>

ServerLeaveRoom ==
    /\ Takes("LEAVE_ROOM")
    /\ srvRoom' = 0
    /\ UNCHANGED <<inbound, loggedIn, srvChannel, srvRooms>>

(* A chat comes back to the one who sent it; a user list is sent on demand.*)
ServerReply ==
    /\ \/ /\ Takes("ROOM_LIST")
          /\ Say(NoticeOf("ROOM_LIST", 0, Request1.index, FALSE))
       \/ /\ Takes("ROOM_CHATTING")
          /\ Say(NoticeOf("ROOM_CHATTING", Self, 0, FALSE))
       \/ /\ Takes("CHANNEL_CHATTING")
          /\ Say(NoticeOf("CHANNEL_CHATTING", Self, 0, FALSE))
    /\ UNCHANGED server

(* The other users: what they do reaches this client unasked.              *)
OthersActive ==
    /\ NoiseTypes # {} /\ loggedIn /\ ServerUp
    /\ UNCHANGED <<outbound, socket, shared, menu, recv>>

OtherSpeaks ==
    /\ OthersActive /\ Len(inbound) + Len(outbound) < MaxTraffic
    /\ \E u \in Others, type \in NoiseTypes :
         /\ srvRoom = 0 => type = "CHANNEL_CHATTING"
         /\ Say(NoticeOf(type, u, 0, FALSE))
    /\ UNCHANGED server

OtherOpensRoom ==
    /\ OthersActive
    /\ \E room \in Rooms \ srvRooms : srvRooms' = srvRooms \union {room}
    /\ UNCHANGED <<inbound, loggedIn, srvRoom, srvChannel>>

OtherClosesRoom ==
    /\ OthersActive
    /\ \E room \in srvRooms \ {srvRoom} : srvRooms' = srvRooms \ {room}
    /\ UNCHANGED <<inbound, loggedIn, srvRoom, srvChannel>>

(* The server closes the connection, or it is lost: before that or after.  *)
ServerStops ==
    /\ ServerMayStop
    /\ \/ socket = "open" /\ socket' \in {"eof", "reset"}
       \/ socket = "eof" /\ socket' = "aborted"
    /\ UNCHANGED <<shared, menu, recv, inbound, outbound, server>>

-----------------------------------------------------------------------------
UserStep ==
    \/ Login
    \/ \E entry \in MENU_SELECT : Choose(entry)
    \/ \E ch \in ChannelInputs : ChannelMove(ch)
    \/ \E room \in RoomInputs : RoomCreate(room) \/ EnterRoomInit(room)
    \/ ChannelChat \/ RoomChat
    \/ AnswerYes \/ AnswerNo

MenuStep ==
    \/ MenuPoll \/ MenuPollHoisted
    \/ DisableForUserList \/ InRoomUserList \/ LeaveRoom
    \/ Send \/ ChannelMoved \/ ChannelChatted \/ RoomLeft
    \/ ExitServer \/ Exit

RecvStep ==
    \/ WSARecv \/ WSARecvZero \/ WSARecvError
    \/ ProcessEnterChannel \/ StoreIdAndChannel
    \/ ProcessNotify \/ ProcessChatOrList \/ ProcessEnterRoom
    \/ ProcessRoomCreated \/ ProcessRoomExists
    \/ SendEnterRoom \/ EnterRoomSent \/ StoreRoom
    \/ AfterBatch

ServerStep ==
    \/ ServerLogin \/ ServerChangeChannel \/ ServerCreateRoom
    \/ ServerEnterRoom \/ ServerLeaveRoom \/ ServerReply

OthersStep == OtherSpeaks \/ OtherOpensRoom \/ OtherClosesRoom \/ ServerStops

(* The end of the process is the one state the session stops in.           *)
Terminated == menuPc = "exited" /\ UNCHANGED vars

Next == UserStep \/ MenuStep \/ RecvStep \/ ServerStep \/ OthersStep \/ Terminated

Spec == Init /\ [][Next]_vars

(* Both threads are scheduled and the server answers.  Nothing makes the   *)
(* user type or the others act.                                            *)
FairSpec ==
    Spec /\ WF_vars(MenuStep) /\ WF_vars(RecvStep) /\ WF_vars(ServerStep)

-----------------------------------------------------------------------------
MenuPc ==
    {"login", "poll", "spin", "choose", "list_room", "send", "CHANGE_CHANNEL",
     "CHANNEL_CHATTING", "LEAVE_ROOM", "exit", "exited"}
       \union (MENU_SELECT \ {"ROOM_MOVE"})

RecvPc == {"recv", "dispatch", "set_id", "prompt", "enter_send", "entered",
           "set_room", "dead"}

(* The type of every variable; and the message a handler is busy with,     *)
(* which PacketProcess has taken from the buffer, is one of the buffer.    *)
TypeOK ==
    /\ menu_enable \in BOOLEAN /\ recv_start \in BOOLEAN
    /\ room_index \in Int /\ channel_index \in Int /\ my_id \in Int
    /\ menuPc \in MenuPc /\ req \in Request
    /\ recvPc \in RecvPc
    /\ recv_buffer \in Seq(Notice) /\ pos \in 1..Len(recv_buffer) + 1
    /\ recvPc \in {"set_id", "prompt", "enter_send", "entered", "set_room"}
         => pos <= Len(recv_buffer)
    /\ inbound \in Seq(Notice) /\ outbound \in Seq(Request)
    /\ socket \in {"open", "eof", "reset", "aborted", "closed"}
    /\ loggedIn \in BOOLEAN /\ srvRoom \in Int /\ srvChannel \in Int
    /\ srvRooms \subseteq Int

(* Nothing is under way: the menu waits for the user (or for menu_enable)  *)
(* and everything that was sent has been processed by its receiver.        *)
Settled ==
    /\ MenuWaits /\ recvPc = "recv" /\ inbound = <<>> /\ outbound = <<>>
    /\ socket = "open" /\ loggedIn

(* What reaches the server names a room it can look up: a room is created  *)
(* with a number from 1 on, and listed or left only by its number.  The    *)
(* menu tests room_index and reads it again later, while the receive       *)
(* thread stores into it.                                                  *)
NamesARoom(packet) ==
    /\ packet.type \in {"CREATE_ROOM", "ROOM_LIST", "LEAVE_ROOM"} => packet.index >= 1
    /\ packet.type = "CHANGE_CHANNEL" => packet.index \in Channels

RequestsNameARoom == \A i \in 1..Len(outbound) : NamesARoom(outbound[i])

(* my_id has no initial value; no handler that tells this user from the    *)
(* others runs before the login's answer has set it.                       *)
IdKnownBeforeUse ==
    AtMessage /\ Msg.type \in ReadsMyId => my_id = Self

(* The requests the server answers with a message.                         *)
Answered == {"USER_LOGIN", "CREATE_ROOM", "ENTER_ROOM", "ROOM_LIST",
             "ROOM_CHATTING", "CHANNEL_CHATTING"}

AnswerToCome ==
    \/ \E i \in 1..Len(outbound) : outbound[i].type \in Answered
    \/ inbound # <<>>
    \/ recvPc \notin {"recv", "dead"}

(* SetMenu waits only for what is still to come: while it polls a false    *)
(* menu_enable, a request the server answers is on its way, or a message   *)
(* is, or the receive thread has yet to end the batch it handles.          *)
NoLostWakeup ==
    menuPc = "poll" /\ ~menu_enable /\ socket = "open" => AnswerToCome

(* Once everything settles the channel shown to the user is the server's,  *)
(* although both threads store it, on a move and on Enter_Channel, and no  *)
(* answer to a move need come.  A user who does not wait can move before   *)
(* the answer to an earlier packet is handled, which then undoes the move. *)
ChannelAgreement == Settled => channel_index = srvChannel

(* Once everything settles, a client the server has in a room knows it.    *)
KnowsItsRoom == Settled /\ srvRoom # 0 => room_index = srvRoom

(* And the room it believes to be in is the one the server has it in.      *)
OnlyIfTheRoomExists == Settled /\ room_index # 0 => room_index = srvRoom

(* The server has not closed the connection.  Once it has, every read      *)
(* handles the last message again, and none of what follows holds.         *)
Served == socket \in {"open", "reset"}

(* The threads never wait for the same input: while the receive thread     *)
(* asks Y or N, the menu does not ask, and will not begin to.              *)
OnePromptAtATime == Served /\ recvPc = "prompt" => ~MenuReads /\ ~menu_enable

(* Nor are they ever in a Send*Packet at the same time, where they would   *)
(* use one send_wsabuf: what SendPath needs to keep packets apart.         *)
OneSenderAtATime == Served => ~(menuPc = "send" /\ recvPc = "enter_send")

(* "Leave the room before you move", "you are already in a room": what the *)
(* menu refuses inside a room is not sent from inside a room either.       *)
GuardHoldsAtSend ==
    menuPc = "send" /\ req.type \in {"CHANGE_CHANNEL", "CREATE_ROOM", "ENTER_ROOM"}
      => room_index = 0

(* The packets under way that create or enter a room, or answer that, from *)
(* the sender's first line to the handler's last.                          *)
AboutARoom ==
    {p \in (IF menuPc = "send" THEN {req} ELSE {})
             \union (IF outbound # <<>> THEN {Request1} ELSE {}) :
       p.type \in {"CREATE_ROOM", "ENTER_ROOM"}}
      \union
    {p \in (IF inbound # <<>> THEN {Head(inbound)} ELSE {})
             \union (IF recvPc \notin {"recv", "dead"} /\ pos <= Len(recv_buffer)
                       THEN {Msg} ELSE {}) :
       p.type \in {"NOTIFY_EXIST_ROOM", "ENTER_ROOM"}}

RoomsAskedFor == IF room_index # 0 THEN {} ELSE {p.index : p \in AboutARoom}

(* For a patient user the two threads together behave like the menu reads, *)
(* until the server closes: one room at a time, the one the user asked for *)
(* last, and no channel move from inside a room.                           *)
View == INSTANCE RoomView WITH
            room <- room_index, channel <- channel_index,
            asked <- RoomsAskedFor, served <- Served

KeepsRoomView == View!ViewSpec

(* The menu comes back after every request, or the user is being asked.    *)
MenuComesBack == menuPc = "poll" ~> menuPc = "choose" \/ recvPc = "prompt"
=============================================================================
