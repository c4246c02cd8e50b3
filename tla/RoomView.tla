------------------------------ MODULE RoomView ------------------------------
(***************************************************************************)
(* What the menu promises its user, whatever the threads and the server    *)
(* do underneath: the user is in at most one room, the one last asked for, *)
(* enters it only from outside any room, and changes the channel only from *)
(* outside any room.                                                       *)
(*                                                                         *)
(* The promise is SetMenu's: "leave the room before you move" and "you are *)
(* already in a room" are what it prints instead of breaking it.  It ends  *)
(* when the server closes the connection.                                  *)
(***************************************************************************)
EXTENDS Integers

CONSTANTS Rooms, Channels

VARIABLES room,     \* the room the client believes to be in, or 0
          channel,  \* the channel it shows
          asked,    \* holds the room asked for and not yet given or refused
          served    \* the server has not closed the connection

view == <<room, channel, asked, served>>

ViewInit == room = 0 /\ channel \in Int /\ asked = {} /\ served = TRUE

(* The user asks for one room at a time.                                   *)
Asks ==
    room = 0 /\ asked = {} /\ asked' # {} /\ \A r, s \in asked' : r = s

EntersRoom == room = 0 /\ room' \in asked \intersect Rooms /\ asked' = {}

Refused == asked # {} /\ asked' = {}

LeavesRoom == room # 0 /\ room' = 0 /\ UNCHANGED asked

MovesChannel ==
    room = 0 /\ asked = {} /\ channel' \in Channels /\ UNCHANGED asked

(* While the server is there a step does one of these things.              *)
Served ==
    /\ served /\ UNCHANGED served
    /\ \/ (Asks \/ Refused) /\ UNCHANGED <<room, channel>>
       \/ (EntersRoom \/ LeavesRoom) /\ UNCHANGED channel
       \/ MovesChannel /\ UNCHANGED room

Closes == served /\ ~served' /\ UNCHANGED <<room, channel, asked>>

Unserved == ~served /\ ~served'

ViewNext == Served \/ Closes \/ Unserved

ViewSpec == ViewInit /\ [][ViewNext]_view

=============================================================================
