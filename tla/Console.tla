------------------------------ MODULE Console -------------------------------
(***************************************************************************)
(* The standard input as the client reads it: std::cin and getchar on one  *)
(* stream, used by LoginToServer and SetMenu and, for the Y or N, by the   *)
(* receive thread.                                                         *)
(*                                                                         *)
(* The input is a sequence of tokens: a number, a word that is no number,  *)
(* a text of more than MSG_SIZE - 1 characters, or the end of a line.  The *)
(* user types whole lines.  Every token remembers which question the user  *)
(* meant to answer.                                                        *)
(*                                                                         *)
(*  - operator>> skips line ends; a number is taken, a word is left where  *)
(*    it is, the variable becomes 0 and std::cin fails;                    *)
(*  - getline takes the rest of the line and its end, and fails if the     *)
(*    line is longer than the buffer, which leaves the rest of it;         *)
(*  - both fail at the end of the input, and do nothing at all once        *)
(*    std::cin has failed, as nobody calls clear();                        *)
(*  - getchar knows nothing of that.                                       *)
(*                                                                         *)
(* What the menu does with an answer, and when it refuses an entry, is     *)
(* ChatSession's; here an entry may be refused at any time.                *)
(*                                                                         *)
(* The Y or N is read into five characters.  A longer word overruns them,  *)
(* which is undefined: it stays without effect or the process ends, as it  *)
(* does where the compiler checks the stack.                               *)
(***************************************************************************)
EXTENDS Integers, Sequences, FiniteSets, FiniteSetsExt

CONSTANTS
    Entries,        \* the numbers the user types at the menu
    Numbers,        \* the numbers typed for a channel or a room
    Users,          \* which users there are, as careful says
    InputMayEnd     \* the input may end

ASSUME ConsoleAssumption ==
    /\ Entries \subseteq Nat /\ Numbers \subseteq Nat
    /\ Users \subseteq BOOLEAN /\ InputMayEnd \in BOOLEAN

VARIABLES
    careful,                \* answers what was asked, in the form asked, and
                            \* is asked one question at a time
    input, ended,           \* what can be read, and that no more will come
    cinFailed,              \* the failbit of std::cin
    menuAt, recvAt,         \* what the two readers do
    menu_enable, choice, channel, room,
    looked,                 \* the last >> choice looked at the input
    answered,               \* the last answer taken: the question, and the one meant
    sent                    \* the last packet of the menu, and its number

stdin  == <<input, ended, cinFailed>>
locals == <<choice, channel, room>>
ghosts == <<looked, answered, sent>>
vars   == <<careful, stdin, menuAt, recvAt, menu_enable, locals, ghosts>>

(* MENU_SELECT, as far as the entries differ in what they read.            *)
CHANNEL_MOVE == 1
ROOM_CREATE == 2
ENTER_ROOM_INIT == 3
IN_ROOM_USER_LIST == 4
CHANNEL_CHATTING_MENU == 6
ROOM_CHATTING_MENU == 7
LEAVE_ROOM_MENU == 8
EXIT_SERVER == 10

AsksForRoom == {ROOM_CREATE, ENTER_ROOM_INIT}
Chattings == {CHANNEL_CHATTING_MENU, ROOM_CHATTING_MENU}
Questions == {"id", "choice", "channel", "room", "text", "yn"}

Nothing == [question |-> "none", meant |-> "none"]
NoPacket == [type |-> 0, number |-> 0]

Token(kind, number, meant) == [kind |-> kind, number |-> number, meant |-> meant]
LineEnd == Token("end", 0, "none")

Init ==
    /\ careful \in Users
    /\ input = <<>> /\ ended = FALSE /\ cinFailed = FALSE
    /\ menuAt = "greet" /\ recvAt = "recv" /\ menu_enable = FALSE
    /\ choice = 0 /\ channel \in Numbers /\ room = 0
    /\ looked = FALSE /\ answered = Nothing /\ sent = NoPacket

-----------------------------------------------------------------------------
(* The user.                                                               *)
Asked == {menuAt, recvAt} \intersect Questions

(* The forms an answer may have; a careful user gives the first one.       *)
Proper(question) ==
    CASE question = "choice" -> {Token("number", n, question) : n \in Entries}
      [] question \in {"channel", "room"} ->
           {Token("number", n, question) : n \in Numbers}
      [] question \in {"id", "text", "yn"} -> {Token("word", 0, question)}

Improper(question) ==
    {Token("word", 0, question)}
      \union IF question \in {"id", "text"} THEN {Token("long", 0, question)} ELSE {}

Words == {i \in 1..Len(input) : input[i].kind # "end"}

TypeLine ==
    /\ ~ended /\ Words = {}
    /\ \E question \in Asked :
         \E token \in Proper(question) \union IF careful THEN {} ELSE Improper(question) :
           input' = input \o <<token, LineEnd>>
    /\ UNCHANGED <<careful, ended, cinFailed, menuAt, recvAt, menu_enable, locals, ghosts>>

(* LoginToServer reads a line before it asks for the id.  A user who is    *)
(* not careful types a line whenever the client is silent.                 *)
TypeUnasked ==
    /\ ~ended /\ input = <<>>
    /\ \/ menuAt = "greet" /\ input' = <<LineEnd>>
       \/ /\ ~careful /\ Asked = {}
          /\ \E kind \in {"number", "word"}, n \in Numbers :
               input' = <<Token(kind, n, "none"), LineEnd>>
    /\ UNCHANGED <<careful, ended, cinFailed, menuAt, recvAt, menu_enable, locals, ghosts>>

EndInput ==
    /\ InputMayEnd /\ ~ended /\ ended' = TRUE
    /\ UNCHANGED <<careful, input, cinFailed, menuAt, recvAt, menu_enable, locals, ghosts>>

-----------------------------------------------------------------------------
(* The library calls.  Each says what becomes of the input, of std::cin    *)
(* and of answered, and waits while there is nothing to decide by.         *)
From(i)   == SubSeq(input, i, Len(input))
LineEnds  == {i \in 1..Len(input) : input[i].kind = "end"}
FirstWord == input[Min(Words)]

NothingRead == UNCHANGED <<stdin, answered>>

Took(question, token, rest) ==
    /\ answered' = [question |-> question, meant |-> token.meant]
    /\ input' = rest
    /\ UNCHANGED <<ended, cinFailed>>

Fails(rest) ==
    /\ input' = rest /\ cinFailed' = TRUE
    /\ UNCHANGED <<ended, answered>>

(* operator>>, for tokens of these kinds.                                  *)
Extract(question, kinds) ==
    \/ cinFailed /\ NothingRead
    \/ ~cinFailed /\ Words = {} /\ ended /\ Fails(<<>>)
    \/ /\ ~cinFailed /\ Words # {}
       /\ IF FirstWord.kind \in kinds
            THEN Took(question, FirstWord, From(Min(Words) + 1))
            ELSE Fails(From(Min(Words)))

ExtractNumber(question) == Extract(question, {"number"})
ExtractWord(question)   == Extract(question, {"number", "word", "long"})

(* Mutant: a variable that cannot be read keeps its value.                 *)
ValueKept(old) ==
    IF cinFailed \/ Words = {} \/ FirstWord.kind # "number" THEN old
                                                           ELSE FirstWord.number

(* Mutant: without input the variable becomes -1.                          *)
ValueOrSentinel(old) ==
    IF cinFailed \/ Words = {} THEN -1
    ELSE IF FirstWord.kind = "number" THEN FirstWord.number ELSE 0

(* The value a number variable has after ExtractNumber.                    *)
ValueRead(old) ==
    IF cinFailed \/ Words = {} THEN old
    ELSE IF FirstWord.kind = "number" THEN FirstWord.number ELSE 0

(* getline: a line that is too long stays, but for its beginning.          *)
GetLine(question) ==
    \/ cinFailed /\ NothingRead
    \/ ~cinFailed /\ LineEnds = {} /\ ended /\ Fails(<<>>)
    \/ /\ ~cinFailed /\ LineEnds # {}
       /\ IF Head(input).kind = "long"
            THEN Fails(<<[Head(input) EXCEPT !.kind = "word"]>> \o Tail(input))
            ELSE Took(question, Head(input), From(Min(LineEnds) + 1))

(* while (getchar() != '\n');  At the end of the input it never returns.   *)
DropLine ==
    /\ LineEnds # {}
    /\ IF Head(input).kind = "end"
         THEN input' = Tail(input) /\ UNCHANGED <<ended, cinFailed, answered>>
         ELSE Took("none", Head(input), From(Min(LineEnds) + 1))

-----------------------------------------------------------------------------
(* LoginToServer, on the main thread, and then SetMenu.                    *)
At(place) == menuAt = place

Greet ==
    /\ At("greet") /\ DropLine
    /\ menuAt' = "id"
    /\ UNCHANGED <<careful, recvAt, menu_enable, locals, looked, sent>>

ReadId ==
    /\ At("id") /\ GetLine("id")
    /\ menuAt' = "poll"
    /\ UNCHANGED <<careful, recvAt, menu_enable, locals, looked, sent>>

Poll ==
    /\ At("poll") /\ menu_enable
    /\ menuAt' = "choice"
    /\ UNCHANGED <<careful, stdin, recvAt, menu_enable, locals, ghosts>>

ReadChoice ==
    /\ At("choice") /\ ExtractNumber("choice")
    /\ choice' = ValueRead(choice) /\ looked' = ~cinFailed
    /\ menuAt' = "act"
    /\ UNCHANGED <<careful, recvAt, menu_enable, channel, room, sent>>

(* An entry that room_index forbids, or no entry.                          *)
Refuse ==
    /\ At("act") /\ choice \notin {CHANNEL_CHATTING_MENU, EXIT_SERVER}
    /\ menuAt' = "poll"
    /\ UNCHANGED <<careful, stdin, recvAt, menu_enable, locals, ghosts>>

(* Mutant: the rest of the line is not dropped before the next question.   *)
AskMoreAtOnce ==
    /\ At("act")
    /\ \/ choice = CHANNEL_MOVE   /\ menuAt' = "channel"
       \/ choice \in AsksForRoom  /\ menuAt' = "room"
       \/ choice \in Chattings    /\ menuAt' = "text"
    /\ UNCHANGED <<careful, stdin, recvAt, menu_enable, locals, ghosts>>

(* The rest of the line of the choice is dropped, then more is asked.      *)
AskMore ==
    /\ At("act") /\ DropLine
    /\ \/ choice = CHANNEL_MOVE   /\ menuAt' = "channel"
       \/ choice \in AsksForRoom  /\ menuAt' = "room"
       \/ choice \in Chattings    /\ menuAt' = "text"
    /\ UNCHANGED <<careful, recvAt, menu_enable, locals, looked, sent>>

(* The packet is sent and the menu comes back at once, or is woken later.  *)
SendAndPoll(number, enable) ==
    /\ sent' = [type |-> choice, number |-> number]
    /\ menu_enable' = enable /\ menuAt' = "poll"

ReadChannel ==
    /\ At("channel") /\ ExtractNumber("channel")
    /\ channel' = ValueRead(channel)
    /\ IF channel' \in 0..4
         THEN SendAndPoll(channel', TRUE)
         ELSE menu_enable' = TRUE /\ menuAt' = "poll" /\ UNCHANGED sent
    /\ UNCHANGED <<careful, recvAt, choice, room, looked>>

ReadRoom ==
    /\ At("room") /\ ExtractNumber("room")
    /\ room' = ValueRead(room)
    /\ IF choice = ROOM_CREATE /\ room' < 1
         THEN menuAt' = "poll" /\ UNCHANGED <<menu_enable, sent>>
         ELSE SendAndPoll(room', FALSE)
    /\ UNCHANGED <<careful, recvAt, choice, channel, looked>>

(* A text to the channel gives the menu back as soon as it is sent.        *)
ReadText ==
    /\ At("text") /\ GetLine("text")
    /\ SendAndPoll(0, choice = CHANNEL_CHATTING_MENU)
    /\ UNCHANGED <<careful, recvAt, locals, looked>>

(* The entries that ask for nothing more.                                  *)
ListOrLeave ==
    /\ At("act") /\ choice \in {IN_ROOM_USER_LIST, LEAVE_ROOM_MENU}
    /\ SendAndPoll(0, menu_enable /\ choice = LEAVE_ROOM_MENU)
    /\ UNCHANGED <<careful, stdin, recvAt, locals, looked, answered>>

Exit ==
    /\ At("act") /\ choice = EXIT_SERVER
    /\ menuAt' = "exited"
    /\ UNCHANGED <<careful, stdin, recvAt, menu_enable, locals, ghosts>>

-----------------------------------------------------------------------------
(* The receive thread: the server speaks once the login is sent.           *)
Listening == recvAt = "recv" /\ menuAt \notin {"greet", "id", "exited"}

Wake ==
    /\ Listening /\ ~menu_enable
    /\ menu_enable' = TRUE
    /\ UNCHANGED <<careful, stdin, menuAt, recvAt, locals, ghosts>>

Ask ==
    /\ Listening /\ sent.type = ROOM_CREATE
    /\ ~careful \/ (At("poll") /\ ~menu_enable)
    /\ recvAt' = "yn"
    /\ UNCHANGED <<careful, stdin, menuAt, menu_enable, locals, ghosts>>

ReadYesOrNo ==
    /\ recvAt = "yn" /\ ~At("exited") /\ ExtractWord("yn")
    /\ recvAt' = "recv" /\ menu_enable' = TRUE
    /\ UNCHANGED <<careful, menuAt, locals, looked, sent>>

(* A word that is too long for enter_choice, which nobody careful types.   *)
Overrun ==
    /\ recvAt = "yn" /\ ~At("exited") /\ ~careful
    /\ ~cinFailed /\ Words # {}
    /\ menuAt' = "exited"
    /\ UNCHANGED <<careful, stdin, recvAt, menu_enable, locals, ghosts>>

-----------------------------------------------------------------------------
UserStep == TypeLine \/ TypeUnasked \/ EndInput

MenuStep ==
    \/ Greet \/ ReadId \/ Poll \/ ReadChoice \/ Refuse \/ AskMore
    \/ ReadChannel \/ ReadRoom \/ ReadText \/ ListOrLeave \/ Exit

(* Nothing can be read any more: getchar spins, or the process has ended.  *)
Stopped ==
    /\ At("exited") \/ (menuAt \in {"greet", "act"} /\ ended /\ LineEnds = {})
    /\ UNCHANGED vars

Next == UserStep \/ MenuStep \/ Wake \/ Ask \/ ReadYesOrNo \/ Overrun \/ Stopped

Spec == Init /\ [][Next]_vars

(* Both threads are scheduled; nobody has to type anything.                *)
FairSpec == Spec /\ WF_vars(MenuStep) /\ WF_vars(ReadYesOrNo)

-----------------------------------------------------------------------------
TokenSet == [kind : {"number", "word", "long", "end"}, number : Nat,
             meant : Questions \union {"none"}]

TypeOK ==
    /\ careful \in BOOLEAN
    /\ input \in Seq(TokenSet) /\ ended \in BOOLEAN /\ cinFailed \in BOOLEAN
    /\ menuAt \in {"greet", "poll", "act", "exited"} \union (Questions \ {"yn"})
    /\ recvAt \in {"recv", "yn"} /\ menu_enable \in BOOLEAN
    /\ choice \in Nat /\ channel \in Nat /\ room \in Nat
    /\ looked \in BOOLEAN /\ sent \in [type : Nat, number : Nat]
    /\ answered \in [question : Questions \union {"none"},
                     meant : Questions \union {"none"}]

(* What a careful user types reaches the question it was typed for: no     *)
(* answer is read by the other thread, taken for the rest of a line and    *)
(* dropped, or replaced by the line end an earlier answer left.            *)
AnswersReachTheirQuestion == careful => answered.question = answered.meant

(* A careful user's answer is read at some time.                           *)
AnswersAreRead == careful /\ Words # {} ~> Words = {}

(* While the input lasts, a room number that could not be read names no    *)
(* room: neither at the failure nor in any round after it, although the    *)
(* later reads leave in room what it held.                                 *)
NoRoomAfterFailure ==
    [][At("room") /\ menuAt' = "poll" /\ cinFailed' /\ ~ended => room' = 0]_vars

(* "Choose the menu again": before the menu acts, it has read the input.   *)
UserChooses == At("act") => looked
=============================================================================
