---------------------------- MODULE ChatProtocol ----------------------------
(***************************************************************************)
(* The vocabulary the chat client and its server share: the packets each   *)
(* side sends, and the menu entries a user can choose.                     *)
(*                                                                         *)
(* A packet is abstracted to the fields the client looks at.  A field that *)
(* a message does not have keeps the protobuf default (0 or false), so all *)
(* packets of one direction are records of one shape.  Names, chat texts   *)
(* and user lists are left out: nothing in the client depends on them.     *)
(***************************************************************************)
EXTENDS Integers

(* MENU_SELECT.  ROOM_MOVE is declared but SetMenu has no case for it.     *)
MENU_SELECT ==
    {"CHANNEL_MOVE", "ROOM_CREATE", "ENTER_ROOM_INIT", "IN_ROOM_USER_LIST",
     "ROOM_MOVE", "CHANNEL_CHATTING_MENU", "ROOM_CHATTING_MENU",
     "LEAVE_ROOM_MENU", "EXIT_SERVER"}

-----------------------------------------------------------------------------
(* Client to server.  index is the room or the channel the packet names.   *)

RequestType ==
    {"USER_LOGIN", "CHANGE_CHANNEL", "CHANNEL_CHATTING", "CREATE_ROOM",
     "ROOM_LIST", "ROOM_CHATTING", "ENTER_ROOM", "LEAVE_ROOM"}

Request == [type : RequestType, index : Int]

LoginPacket             == [type |-> "USER_LOGIN",     index |-> 0]
ChannelMovePacket(ch)   == [type |-> "CHANGE_CHANNEL", index |-> ch]
CreateRoomPacket(room)  == [type |-> "CREATE_ROOM",    index |-> room]
RoomUserListPacket(room) == [type |-> "ROOM_LIST",     index |-> room]
EnterRoomPacket(room)   == [type |-> "ENTER_ROOM",     index |-> room]
LeaveRoomPacket(room)   == [type |-> "LEAVE_ROOM",     index |-> room]

(* The chat senders take a channel or a room but put neither in the packet *)
ChannelChattingPacket   == [type |-> "CHANNEL_CHATTING", index |-> 0]
RoomChattingPacket      == [type |-> "ROOM_CHATTING",    index |-> 0]

-----------------------------------------------------------------------------
(* Server to client: the types PacketProcess has a case for.  index is     *)
(* channelIndex or roomIndex, flag is exist or isEnter.                    *)

NoticeType ==
    {"ENTER_CHANNEL", "NOTIFY_ENTER_ROOM", "NOTIFY_LEAVE_ROOM",
     "NOTIFY_EXIST_ROOM", "ROOM_CHATTING", "ROOM_LIST", "CHANNEL_CHATTING",
     "ENTER_ROOM"}

Notice == [type : NoticeType, id : Int, index : Int, flag : BOOLEAN]

(* The notices whose handler compares an id of the message with my_id.     *)
ReadsMyId == {"ROOM_CHATTING", "CHANNEL_CHATTING", "ROOM_LIST"}

=============================================================================
