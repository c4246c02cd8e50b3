# ChattingClient in TLA+

A verification project for the chat client in `src/ChattingClient/ChattingClient`
and for the part of the vendored protobuf library that it runs: TLA+ modules of
what the code does, TLC runs that check them on small instances, and TLAPS proofs
of the properties for every value of the constants. Line numbers without a file
are those of `ChattingClient.cpp`.

## 1. The system

The program is one process with two threads and one TCP connection.
`clientMain.cpp` builds a `ChattingClient` on the stack and calls
`ServerConnect`, which connects, starts the receive thread, asks for the login
on the main thread, starts the menu thread, and joins both.

| Component | State | Operations | Correct when |
|---|---|---|---|
| Menu thread (`LoginToServer`, `SetMenu`) | locals `choice`, `room`, `send_msg`; writes `menu_enable`, `room_index`, `channel_index` | login; poll `menu_enable`; nine menu entries | it refuses what its texts say it refuses; it comes back after every request; its packets name existing things |
| Receive thread (`RecvThread`) | `recv_buffer`, writes `menu_enable`, `recv_start` | `WSARecv`, parse, enable the menu | it parses what was received, and every request's answer wakes the menu |
| Packet handlers (`PacketProcess` cases, `Process*Packet`) | write `my_id`, `channel_index`, `room_index`, `menu_enable`; read the console | eight message types, the Y/N question | they store what the server said, and use `my_id` only once it is known |
| Frame parser (`PacketProcess` loop) | position in the buffer | header, length test, skip | whole messages are dispatched in order; it ends, and stays inside the buffer |
| Packet senders (`Send*Packet`) | global `send_wsabuf` | eight packets | every packet reaches the connection once, whole, with its own length |
| Console (`std::cin`, `getchar`) | what is left of the input, the error state | read by both threads | each answer goes to the question it was typed for; a failed read is not taken for an answer |
| Generated messages (`Protocols.pb.cc`) | fields and has bits | parse, serialise, size, required fields | what was sent is what is read; a message that is cut invents nothing |
| protobuf's `CodedInputStream`, `ArrayInputStream` | buffer, limits, position | read, varint, skip, limits, destructor | a cursor on the bytes, up to the limit |
| protobuf's `GoogleOnceInit` | a state per object | construct default instances | each is built once, before anyone uses it |
| Life cycle (`ServerConnect`, `main`, `EXIT_SERVER`) | socket, two threads | connect, start, join, exit | no thread waits for the other for ever |
| Chat server | rooms, the channel and the room of the client | answers requests, forwards what other users do | external: not in this repository |

**Interactions.** The threads share `menu_enable`, `room_index`,
`channel_index`, `my_id`, the console, `send_wsabuf` and the library's default
instances. Only the last have any synchronisation (`GoogleOnceInit`).
`menu_enable` is the only means by which the threads take turns: the menu clears
it before a request and polls it; the receive thread sets it in most handlers
and after every batch (line 99).

**Hard behaviours.** (a) Any message, not only the answer, re-enables the menu.
(b) Guards on `room_index` are tested, then the user types, then the packet is
sent, while the other thread may store a room. (c) Handlers enable the menu
before the fields of the message are stored. (d) The receive thread asks the
user a question itself, and sends through the same global buffer. (e) TCP
segmentation, a buffer that is parsed as a whole whatever was received, a zero
byte read that is no error. (f) `my_id` and `channel_index` have no initial
value. (g) The receive thread may die while the menu lives. (h) Sizes are
unsigned, and compared as signed. (i) `std::cin` fails for good on the first
word that is no number. (j) Handlers ignore what the parse returned. (k) Limits
hide bytes of the buffer that must come back, and a destructor that backs up may
end the process. `PROJECT.json` lists every hazard at its line.

## 2. The modules

| Module | Models | EXTENDS / INSTANCE |
|---|---|---|
| `ChatProtocol` | packet types, the fields the client looks at, the menu entries | |
| `RoomView` | abstract: what the menu promises about room and channel | |
| `ChatSession` | both threads, the handlers, the connection, the server | EXTENDS `ChatProtocol`, INSTANCE `RoomView` |
| `PacketLog` | abstract: every packet once, whole, in its thread's order | |
| `SendPath` | the senders' accesses to `send_wsabuf` by any number of threads | INSTANCE `PacketLog` |
| `Console` | the input stream, its readers and the user | |
| `FrameParser` | one pass of `PacketProcess` over any buffer | |
| `RecvBuffer`, `MCRecvBuffer` | `WSARecv` and the parser over a byte stream | EXTENDS `FrameParser` |
| `ProtoMessages` | the twelve message classes: serialise, size, defaults | |
| `ProtoParser`, `MCProtoParser` | `ParseFromCodedStream`, field by field, with `SkipField` | EXTENDS `ProtoMessages` |
| `ByteCursor` | abstract: a cursor with a stack of limits | |
| `CodedStream`, `MCCodedStream` | `CodedInputStream` over `ArrayInputStream` in blocks | INSTANCE `ByteCursor` |
| `OnceInit` | `GoogleOnceInit` and the closures of `Protocols.pb.cc` | |
| `ChatSessionProofs`, `SendPathProofs`, `ConsoleProofs`, `RecvBufferProofs`, `ProtoParserProofs`, `CodedStreamProofs`, `OnceInitProofs` | the theorems | each EXTENDS what it is about |
| `PatientProofs` | theorems about the patient user's sessions | EXTENDS `ChatSessionProofs` |

How they meet: `OneSenderAtATime` of `ChatSession` is what `SendPath` needs to
implement `PacketLog` (its `alone`), and `ChatSession` in turn takes a packet as
sent whole. `ChatSession`'s batches are the whole messages that `RecvBuffer`
shows to come first in a read. The payloads `FrameParser` hands out are the
arrays `CodedStream` and `ProtoParser` read; a negative size makes an array of
negative length, which both have. `MessagesReadyInMain` is why `ChatSession` may
treat the construction of a message as a step nobody else sees.

### ChatSession

A step is a stretch of code with at most one access that the other thread can
observe, so TLC interleaves the threads as finely as the code does. The menu
thread's program counter `menuPc` names where it is: `poll` (line 661),
`choose` (675), the name of an entry between its `room_index` test and its
input, `send` (packet built, `menu_enable` already set as the entry sets it),
and after the send the packet types whose sender or entry stores something more
(`CHANGE_CHANNEL` 425 and 703, `CHANNEL_CHATTING` 460, `LEAVE_ROOM` 787). The
receive thread's `recvPc` is `recv`, `dispatch`, `set_id` (between 211 and
138), `prompt` (231), `enter_send`, `entered`, `set_room` (between 235 or 253
and 164), `dead` (91). Two stores of one thread are one step where the other
thread reads neither: 138 with 139, 99 with 100, 425 with 703.

`inbound` and `outbound` are the two directions of the connection, in order.
`recv_buffer` holds the messages of the current batch and `pos` the one being
handled. A read takes between one and `BufferSize` whole messages and overwrites
that much of the buffer; the messages behind it, which an earlier read left, are
handled again with it, and a read of nothing after the server has closed handles
the whole buffer again (lines 88 to 97).

After that close the client keeps none of its promises: with every read the last
message is handled anew, and if it was the Y/N question, that is asked while the
menu reads, its Y sends `Enter_Room` beside a packet of the menu, and its store
falls between a guard of the menu and the packet the guard was for.
`OnePromptAtATime`, `OneSenderAtATime` and `RoomView` therefore speak of the time
until the server closes (`Served`); with `Served` taken to be always true TLC
finds each of the three violated in `session_patient`. A reset is no such end:
`WSARecv` reports it as an error, and the receive thread is dead.

`RoomView`'s variables are expressions over the session: the room and the channel
the client shows, whether the server is there, and `asked`, the room of a packet
under way that creates or enters one or answers that (`RoomsAskedFor`), from the
sender's first line to the handler's last. A room is entered only out of `asked`,
so the one that is stored is the one last asked for.

What the constants switch:

- `PollHoisted`: the build keeps the first read of `menu_enable`, as the data
  race of line 661 allows.
- `ServerMayStop`: the server closes (`eof`, after which the connection may still
  be lost: `aborted`) or resets the connection (`reset`).
- `NoiseTypes`: what other users make the server send. Empty: this client is
  alone, and no other user opens or closes rooms.
- `Patient`: the user types only when nothing is in flight.

The **server** is what the handlers presume: it answers login, create, enter,
list and chat with the message the client has a handler for, and it speaks to
nobody before the login. Whether `Change_Channel` is answered cannot be seen from
this repository - the client stores the channel without waiting - so the server
answers it or not, each time anew. It enforces no rule about rooms, so nothing the
client should enforce is hidden by it. The **user** types numbers and Y/N; numbers of
rooms and channels include wrong ones (0, 5). What else may be typed is
`Console`'s.

### SendPath

A sender builds its packet in memory of its own, stores `buf` and `len` of
`send_wsabuf` (in either order: nothing orders them), and `WSASend` fetches both.
Each store and fetch is a step. `met[t]` are the packets of the calls that
overlap `t`'s, its own included: a history, which guards no step. What the code
promises of calls that overlap is little: one may hand over the packet of the
other with its own length, and `WSASend` then reads past a packet that is
shorter than that. `NothingStale` says what remains: buffer and length are both
of calls under way with this one, never of one that was over, nor the
constructor's. With `alone` a thread starts only when no other one is
sending, which is the case `OneSenderAtATime` establishes for a patient user;
without it anything may overlap.

### Console

The input is a sequence of tokens: a number, a word, a text longer than a line
buffer, the end of a line; every token remembers the question it answers.
`Extract` is `operator>>`, `GetLine` is `getline` with its limit, `DropLine` the
`while (getchar() != '\n')` loop, which at the end of the input never returns.
After the first failure every `>>` and `getline` returns at once, as the code has
no `clear()`, while `getchar` goes on. Both readers are there: the menu, and the
receive thread's Y/N question. A *careful* user answers what is asked in the form
asked; other users type anything, also while nobody asks. The Y or N is read into
five characters (224, 231); of a word that is longer (`Overrun`) the model knows
two outcomes, none at all and the end of the process, which a build that checks
the stack chooses on return. A build that does not check it may go on with
anything, and that is outside of the model.

### FrameParser and RecvBuffer

A cell is one 4 byte header field, a header is two cells, and `Wrap` stands for
2^32; `Signed` is the cast of line 118, and `SpanOf` what `Skip(-n)` and
`ArrayInputStream(p, -n)` do (they do nothing, see `coded_stream.cc`). In
`RecvBuffer` the server writes messages into one stream, a read takes any
non-empty prefix, and after the server has closed, reads of nothing parse the
buffer again. `Fill` is what the uninitialised buffer may hold at the start.

What a message's size counts is in dispute in the repository itself: the senders
put header and body into it (line 370 and its siblings), `PacketProcess` skips it
behind the header (126, 127). The server may do either (`counted`, chosen once).
If it counts the body, a read that begins with a message is taken apart as it was
put together (`WholeMessagesFirst`). If it counts the header in, the first message
is handled with the next message's header as a part of its body, the pass goes on
two cells into the next one, and no message but the first is ever delivered in
its place; `WholeMessagesFirst` and `CutMessageIsOne` say that for such a server,
through `Met` and `End`.

### ProtoMessages and ProtoParser

A class is a sequence of fields with type and rule, at their numbers; a message
has a has bit and a value for each. `ProtoParser` parses bytes that are a message
as sent (with unknown fields in between), such a message cut anywhere and
followed by old bytes, or any bytes of a small alphabet. One step per field, as
in the generated `MergePartialFromCodedStream`. `IntBits` and `WideBits` scale
down 32 and 64; negative numbers are widened before they are written, and the
low bits are kept when they are read, as in the code. A packed length becomes a
limit as in `PushLimit`: one that ends at `IntMax` or beyond is none, so
`BytesUntilLimit` is -1, the list is taken to be empty, and the parse goes on with
what was to be its items. That the bytes themselves are no more than `IntMax` is
what the size of a handler's array, an `int`, gives.

### ByteCursor and CodedStream

`CodedStream` has the members of the two classes under their names and one
action per call; a read or a varint that crosses a block takes several steps.
`ByteCursor` says what a caller may rely on: a call that can be served before the
limit and the end of the array is served, with the bytes that are next; any other
call fails and leaves the cursor between where it was and the limit. `answer`
names the call it answers, so that no call can fail in the place of another. The
client's streams have one block; the blocks are there because the library's code
is written for them.

### OnceInit

`at[t][o]` is the place a thread has reached in its call for the once object `o`:
the load, the second load, the compare and swap, the closure, the store, the
wait. `Needs(o)` is what `o`'s closure goes through, from `Protocols.pb.cc`. The
static initialiser's call is under way in the initial state; other threads may
begin before `main` (`Early`).

## 3. The runs

| Run | Instance | Distinct states | Shows |
|---|---|---|---|
| `session_noise` | 1 room, rooms typed 0..1, channels 1 and 5, all four kinds of noise, no more input beyond 2 packets in flight, one message a read, impatient user | 914 157 | requests name a room from 1 on or a channel of 0..4; `my_id` is known before it is used; no wakeup is lost; the menu comes back |
| `session_patient` | rooms 0..2, channels 1, 3 and 5, 2 messages a read, patient user, alone; moves answered or not; hoisted poll; close, reset and loss at any time | 234 203 | `ChatSession` implements `RoomView` until the server closes; client and server agree on room and channel; the threads never compete for the console or `send_wsabuf` |
| `session_guard_race` | patient user, channel chat of others | | violated: `GuardHoldsAtSend` |
| `session_room_gone` | patient user, others open and close rooms | | violated: `OnlyIfTheRoomExists` |
| `stream_whole` | 3 messages of 4 kinds, sizes with and without the header, 3 reads of any length, 6 cells filled with any period of three out of {0, 1, negative} | 1 425 050 | payloads are in the buffer and apart, the pass ends; whole messages of an aligned read come first, once, in order; a message it cuts is completed as one or dropped; of a server that counts the header in, the first message only |
| `stream_stale_tail` | the same, filled with 0 | | violated: `OnlyWhatWasReceived` |
| `send_path` | 2 threads, 2 packets each, 2 lengths, connection may fail | 392 172 | undisturbed calls send their own packet; calls that meet send nothing older than themselves; threads that do not meet implement `PacketLog` |
| `console_reads` | all entries, numbers 1 and 5, careful and careless users, words too long, end of input | 75 897 | answers reach their question and are read; a failed read names no room |
| `console_stuck` | careless user | | violated: `UserChooses` |
| `once` | 2 threads, 2 message classes, 2 calls each, threads before `main` | 4 676 | each closure runs once, is complete on return, every call returns, nothing is left to construct in `main` |
| `proto_parse` | all twelve classes, 4 integers, 3 texts, 3 lists, 7 unknown fields, cuts at every byte, all sequences of up to 3 of 14 bytes, packed lengths about `IntMax` | 237 393 | sizes, round trips, what a failed parse leaves in the fields, progress |
| `coded_stream` | arrays of -2, 1 and 4 bytes with every choice of continuation bits, blocks of 1, 2 and all, counts -1..INT_MAX, 2 limits | 1 115 690 | `CodedStream` implements `ByteCursor`; `BackUp` never aborts; the destructor leaves the first unread byte; one block is all in the buffer |

**Why the bounds are enough.** One room is enough for every race on
`room_index`, which only compares with 0, and a second room is needed for
confusing rooms (`session_patient`). `MaxTraffic` limits how much is in flight
when the user or another user adds something, not how long a behaviour is: the
session runs explore unbounded behaviours. Two packets in flight are enough for a
request to cross with an unrelated message. `session_noise` reads one message at a
time, behind which nothing old lies: with two there are more states than can be
visited. Batches of several messages and old messages behind them are in the
theorems of `ChatSessionProofs`, which hold for every `BufferSize`;
`MenuComesBack` is checked for batches of one only. Six cells hold two messages with
bodies, or a message and a part of the next. Two threads and two calls each are
what the client has and what a stale `send_wsabuf` of an earlier call needs.
In `coded_stream` an array of four bytes in blocks of one or two has reads that
cross two refreshes, and `INT_MAX` 7 is near enough for every overflow test to be
met. Where a bound could matter, the theorems of section 4 do without it.

**Deadlock** is checked everywhere except in `session_patient`: once the
connection is dead, or the poll is hoisted, the menu polls a `menu_enable` that
nobody sets, which is where the program really stops making progress. The end of
the process (`Terminated`, `Stopped`, `Gone`), of a pass (`Parsed`), of a parse
(`Returned`) and of what the bounds allow (`Idle`, `AllSent`, `AllCalled`) are
explicit stuttering steps.

**Fairness.** Weak fairness of operating system threads that are scheduled, and
nothing more:

- `ChatSession`: the menu thread's own steps, the receive thread's, and a server
  that answers. The user and the other users have none, so nothing relies on
  anybody typing; the Y/N question is therefore one of the outcomes in
  `MenuComesBack`.
- `Console`: the two readers; the user never has to type (`AnswersAreRead` only
  speaks of what was typed).
- `RecvBuffer`: the receive thread's parse (`PassEnds`).
- `OnceInit`: every thread (`CallsReturn`): the wait of the code is a loop with
  `SchedYield`, not a lock that could be handed on unfairly.

### What the violations say

1. *A menu re-opened by somebody else's chat* (`session_guard_race`, line 99).
   Create a room; before the answer is handled, another user's chat re-enables
   the menu; choose "channel move", whose guard sees `room_index` 0; the answer
   stores the room; the channel move is sent from inside the room, against the
   rule of line 690.
2. *A room that is gone* (`session_room_gone`, line 164). After Y the room is
   stored without waiting for `Enter_Room`'s answer, so a refusal leaves the
   client in a room the server did not put it in (line 196: only if the room
   exists).
3. *Old bytes are parsed again* (`stream_stale_tail`, line 93). The parser is
   given 1024 bytes whatever was received; a zero byte read parses the last
   batch again. The remaining length of line 114 is the buffer's.
4. *The console that is stuck* (`console_stuck`, line 675). After one word that
   is no number the menu acts again and again on an entry nobody has chosen,
   although it asks to "choose the menu again" (678).

Three more observations. The parser skips `header.size` behind the header (126,
127), while the senders of this program put header and body into it (370): if the
server writes frames as the client does, a message that follows another in one
read is lost, as `stream_whole` has it for such a server. Which of the two it does
cannot be seen from this repository. A user who does not wait for the answer to
the login can move between line 211, which enables the menu, and line 139, which
then stores the login's channel over the one moved to; unless the server answers
the move, nothing corrects it. `ChannelAgreement` is therefore a property of the
patient user's sessions (`session_patient`), and fails with `session_noise`'s user
and `FirstChannel = 0`. And the code under "close the socket" (103) cannot be
reached: the loop above it ends only by the `return` of line 91.

## 4. The proofs

All theorems hold for every value of the constants that satisfies the module's
named assumption. Each has the shape Init, step, PTL; a step proof has one case
per action. The property each one states is also checked by a run, but for
`GuardOutlivesTheWait`, which says where the property `session_guard_race` refutes
does hold.

**`ChatSessionProofs`** (`SessionAssumption`: any users, rooms, buffer size,
noise, hoisted poll and server failures; every batch with what earlier reads left
behind it).

- `TypeCorrect`: `TypeOK` is inductive by itself. Its one clause that is not
  about types, that `pos` is inside the buffer while a handler runs, is what lets
  the later proofs speak of `Msg`.
- `RoomsAreNamed`: `RequestsNameARoom`. Inductive invariant `RoomInv`: a packet
  that is being sent, and every one in `outbound`, names a room from 1 on where
  it must; so does every notice that can lead to a store into `room_index`
  (`NoticesNameARoom`, `HandlesRoomNotice`), because the server only knows rooms
  from 1 on (`ServerRoomsNumbered`); and `RoomStaysKnown`: between the test of
  `room_index` and its second read (740/746, 780/786) the receive thread can only
  replace a room by another room, since only the menu thread ever stores 0. That
  last fact is why the unsynchronised second read is harmless.
- `IdIsKnown`: `IdKnownBeforeUse`. Inductive invariant `IdInv`: every
  `Enter_Channel` carries this client's id, nothing but the login is first in
  `outbound` and nothing is in `inbound` before the server has seen it
  (`LoginFirst`), and until `my_id` is stored the answer to the login is the
  first message of `inbound`, or of the buffer with nothing handled yet
  (`IdPending`). It holds with stale batches because the oldest message anywhere
  is the login's answer.
- `NoWakeupIsLost`: `NoLostWakeup`. Inductive invariant `WakeupInv`:
  `menu_enable` is true wherever the menu thread is past its poll
  (`MenuEnabledUnlessWaiting`, which also says that a sender that cleared it
  sends a request that is answered), and the receive thread is dead only when
  the connection is. A read never leaves the menu asleep because line 99 follows
  every batch.

**`PatientProofs`** (`PatientSession`: a patient user, no messages of other users,
everything else as above, server failures and the hoisted poll included). With
other users two of these properties are violated, which `session_guard_race` and `session_room_gone` show; the theorems show that other
users are what it takes. The invariant is `Served => PatientInv`: it holds until
the server closes, and after that nothing of it does. `PatientInv` is
`PatientExchange`: at most one message is under way, be it in `outbound`, in
`inbound` or in the receive thread's hand (`OneExchange`; only the answer Y makes a
request while its message is in hand), from a `Create_Room` to the answer of the
Y/N question the menu polls a flag that is false (`HeldMenu`), and where a
handler is says which message it has (`Handlers`, `Entering`); and
`PatientRooms`: what `room_index` and the server's room are while each exchange
is under way (`AtHome`, `RoomsAgree`); and `ChannelsAgree`, the same for the
channel, the stores behind a move's send and the answer that may come or not.
TLC finds it to hold on `session_patient`'s instance too. From it:

- `PromptsStayApart` (`OnePromptAtATime`) and `SendersStayApart`
  (`OneSenderAtATime`, which is what `SendPath` and `PacketLog` need);
- `RoomIsKnown` (`KnowsItsRoom`, `OnlyIfTheRoomExists`), `ChannelIsKnown`
  (`ChannelAgreement`) and `GuardOutlivesTheWait` (`GuardHoldsAtSend`);
- `RoomViewKept`: `ChatSession` implements `RoomView`, one case per action.

`PromptsStayApart`, `SendersStayApart`, `GuardOutlivesTheWait` and `RoomViewKept`
are about the time until the server closes, which includes a reset.

**`SendPathProofs`** (`SendAssumption`: any threads, packet lengths and number of
calls). `IInv` is `TypeOK`; `PacketsBuilt` (whoever is in a call has built a
packet, and calls that overlap have met); `Fresh`, the heart of it: from a call's
first store on, a field of `send_wsabuf`, and what `WSASend` has fetched of it,
comes from a call it has met; and `Apart` (with `alone`, one thread at a time, and
how many packets the connection took). From it: `SendTypeCorrect`;
`NothingOldIsSent` (`NothingStale`); `UndisturbedSendsItsOwn`, as a call that has
met only itself can have fetched nothing else; and the refinement
`ImplementsPacketLog`, where `Transfer` is the step that maps to `PutPacket` and
every other one stutters.

**`ConsoleProofs`** (`ConsoleAssumption`: any entries and numbers). `IInv` is
`TypeOK`, `Placed` (where the menu is says which entry it is in) and
`FailedRoomIsZero`: once `std::cin` has failed, an entry that asks for a room is
repeated only if it was the room that could not be read, as a failing read of
`choice` makes it 0. Hence `NoRoomFromFailure`. `ConsoleTypeCorrect` is the type
invariant. `AnswersAreTaken` (`AnswersReachTheirQuestion`) adds `AnswersInOrder`:
of a careful user's input nothing is left but one answer and the line end behind
it (`Clean`), or before that one stray line end that an `operator>>` left
(`Stray`), never where a whole line is read next.

**`RecvBufferProofs`**. About `FrameParser` (`ParserAssumption`: any buffer length
and size width): `ParserTypeCorrect` and `HandlersStayInside`; the lemma
`SkipStaysInside` is the arithmetic: a size that passes the signed comparison
leaves the stream inside the buffer, negative ones included. About `RecvBuffer`
(and `StreamAssumption`: any messages whose sizes an int can hold, a server that
counts the header in or not): `IInv` adds to the types that no cell is lost or
invented between sender and reads (`StreamTypeOK`), `Laid`, which says how the
messages lie in the stream, `Ordered`, and `HeadersInPlace`: type and size of a
message are in the buffer or in flight, at their distance from the reads.
`Delivery` follows one pass: as long as it is on track (`OnTrack`: inside of what
was read and, where the header is counted in, at its start) it stands at a
message's boundary and has delivered exactly the handled messages before it
(`InStep`, `Inside`); once it has left the track, it has delivered the whole ones
first and then dealt with the one that was cut (`Past`). Hence
`WholeMessagesArrive` (`WholeMessagesFirst`) and `CutMessageArrives`
(`CutMessageIsOne`).

**`ProtoParserProofs`** (`WidthAssumption`, `ParserAssumption`: integers of any
width from seven bits on, varints of any length, messages of any values, unknown
fields, cuts and bytes, no more of them than `IntMax`). `ProtoTypeCorrect`:
the parse stays inside of the bytes, whatever they are, and every field keeps its
type; `PackedIsList`, that only a list is packed, makes it inductive.
`ParsesMoveOn` is `ParseMovesOn`. Both rest on what a varint reads
(`VarintRead`: a value below 2^WideBits, from bytes before the limit). The model's
recursive functions - a varint's digits, the messages of a class, `FlattenSeq` -
are reasoned about through `CountsThrough`, induction stated for a set of
naturals, which needs no operator as a parameter; existence of the function and
the type of its values are two inductions each.

`ReceivedIsRight` (`ReceivedPartIsRight`, for any cut and anything behind it) and
`MessagesSurvive` (`RoundTrip`) say that the parser reads what the writer wrote.
Their layers, from below: the digits of a varint's bytes give its number
(`DigitsOfVarint`), and a number that was widened with its sign comes back
(`Int32OfExtended`); the texts that `FlattenSeq` joins, and so the fields of a
message and the items of a list, each begin where the one before ends
(`FlattenLayout`, `Placed`, `ListPlaced`); if the bytes received agree with a
field or an item as far as they go, the step that reads it stores what was sent,
or it runs into the cut and stores a part of it or reads on behind what was
received (`PrimitiveOutcome`, `RepeatedOutcome`, `StringOutcome`). The inductive
invariant `SentInv` adds to the types that as long as the parse is inside of what
was received it stands before a field or behind some items of a list, with all
before that as it was sent and nothing after it (`Reading`, `HeadRight`), and
that a whole message has ended as it should (`WholeRight`); TLC checks it on
`proto_parse`'s instance. `MessagesSurvive` is for `Unknowns = {}`: both sides are
built from one `Protocols.proto`. That fields of newer classes do no harm is
checked by `proto_parse`, which has some.

`SizeIsRight` (`SizeIsLength`, for `IntBits <= 64`; the code has 32): the sizes of
fields and items add up to where the last text ends (`TotalIs`, by the same
layout); a varint is as long as `VarintSize32` says (`VarintSizeIs`), because
`(log2 * 9 + 73) / 64` is `log2 / 7 + 1` (`SizeByBits`, which fails for
`log2 = 70`), and a negative number, widened to `WideBits`, is always
`MaxVarintBytes` long (`Int32SizeIs`).

**`CodedStreamProofs`** (`StreamAssumption`: any array, blocks, `INT_MAX`, calls
and depth of limits). `IInv` is `Window` (the buffer is the last of what the
array handed out; only bytes behind the current limit are out of reach; stream
and array agree unless a skip went past the end), `Nested` (limits that were
pushed later are no further), `Progress` (what the call under way still needs)
and `Answered`. From it `StreamTypeCorrect`, `DestructorNeverAborts`,
`DestructorBacksUp`, `RemainingLengthIsAll`.
`ImplementsByteCursor` is the refinement. `Copied` says that
what a read has copied are the bytes from where it began; there is one lemma
`...Simulates` per action, which shows the step to be a step of `ByteCursor` or a
stutter under the mapping of `Cursor`.

**`OnceInitProofs`** (`OnceAssumption`: any threads, classes and calls). `IInv`:
`OneExecutor` (one thread at most is between the compare and swap and the store
of an object), `ClosuresInOrder` (what a closure got back is done) and
`BuiltInOrder` (an object is built before it is done, what it needs before that).
From it `OnceTypeCorrect`, `ConstructedOnce`, `CompleteOnReturn`; with
`DoneInOrder` and `StaticFirst`, which follow the static initialiser's call,
`ReadyBeforeMain`.

**Only model-checked:**

- `MenuComesBack`, `PassEnds`, `CallsReturn`, `AnswersAreRead`: liveness under
  fairness is out of the prover's reach.
- `RoundTrip` with fields of newer classes between a message's own.

## 5. Not modelled

- *A message cut by the end of a read, and what it does to the session* (line
  119). `RecvBuffer` says what the pass does with it (`CutMessageIsOne`),
  `ProtoParser` what its fields become (`ReceivedPartIsRight`), and the theorems
  about `ChatSession` cover old messages parsed again. The code keeps nothing
  between reads, so of the next read, which begins in the middle of a message, only
  what is true of every buffer holds, and the session may be told anything. No read
  is modelled that splits one of the header's two fields, and `ChatSession`'s reads
  end where a message does. What old messages parsed again do to the room of an
  impatient user is not claimed: an old `Notify_Exist_Room` that is parsed again
  asks again, a consequence of violation 3.
- *A build that does not check its stack* and a word of more than four characters
  for the Y or N (224, 231).
- *`ServerConnect`'s early returns and the joins of `main`*: the first end the
  start-up before the threads share anything, and `EXIT_SERVER` ends the process
  before a join could be observed.
- *Chat server*: not in the repository; external.
- *Members nobody calls* (`Recvn`, `WsaRecv`, `SendPacket`, `CloseSocket`,
  `ProcessCreateRoomPacket`), `protocol.h`, which nothing includes, and output
  (`err_display`, `printf`, `std::cout`), on which no state depends.
- *Generated classes*: merge, copy, swap and reflection, which the client never
  calls, and the unknown fields the library keeps, which nobody reads.
- *The vendored protobuf library* beyond what the client's calls reach: the
  compiler and its generators, descriptors and their pool, reflection, text and
  JSON formats, the other languages' runtimes and the library's tests. It is most
  of the repository by far, third-party code at a released version, and no call
  of the client gets there at run time; a model of it would say nothing about
  this program. The map therefore covers a small share of the repository's lines,
  though most of the client's own.
