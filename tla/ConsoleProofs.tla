---------------------------- MODULE ConsoleProofs ----------------------------
(***************************************************************************)
(* Whatever the user types, in whatever order the two readers take it, the *)
(* console keeps its types, and a room number that could not be read names *)
(* no room; and what a careful user types is read by who asked for it.     *)
(***************************************************************************)
EXTENDS Console, SequenceTheorems, WellFoundedInduction, TLAPS

(* Where the menu is says which entry it is in; before the login nothing   *)
(* has been chosen.                                                        *)
Placed ==
    /\ menuAt \in {"greet", "id"} => choice = 0
    /\ menuAt = "channel" => choice = CHANNEL_MOVE
    /\ menuAt = "room" => choice \in AsksForRoom
    /\ menuAt = "text" => choice \in Chattings

(* Once std::cin has failed, an entry that asks for a room is repeated     *)
(* only if it was the room that could not be read.                         *)
FailedRoomIsZero == cinFailed /\ ~ended /\ choice \in AsksForRoom => room = 0

IInv == TypeOK /\ Placed /\ FailedRoomIsZero

-----------------------------------------------------------------------------
LEMMA MinIsIn ==
  ASSUME NEW S \in SUBSET Nat, S # {}
  PROVE  Min(S) \in S
<1>1. PICK x \in S : \A y \in S : ~(<<y, x>> \in OpToRel(<, Nat))
  BY NatLessThanWellFounded, WFMin
<1>2. \A y \in S : x <= y
  <2> TAKE y \in S
  <2>1. <<y, x>> \in Nat \X Nat /\ ~(<<y, x>>[1] < <<y, x>>[2])
    BY <1>1 DEF OpToRel
  <2> QED
    BY <2>1
<1> QED
  BY <1>1, <1>2 DEF Min

LEMMA InputType ==
  ASSUME TypeOK
  PROVE  /\ Len(input) \in Nat /\ \A i \in 1..Len(input) : input[i] \in TokenSet
         /\ Words \in SUBSET (1..Len(input)) /\ LineEnds \in SUBSET (1..Len(input))
         /\ Words # {} => Min(Words) \in Words
         /\ LineEnds # {} => Min(LineEnds) \in LineEnds
<1>1. Len(input) \in Nat /\ \A i \in 1..Len(input) : input[i] \in TokenSet
  BY LenProperties, ElementOfSeq DEF TypeOK
<1>2. Words \in SUBSET (1..Len(input)) /\ LineEnds \in SUBSET (1..Len(input))
  BY DEF Words, LineEnds
<1>3. Words \in SUBSET Nat /\ LineEnds \in SUBSET Nat
  BY <1>1, <1>2
<1> QED
  BY <1>1, <1>2, <1>3, MinIsIn

LEMMA FromIsInput ==
  ASSUME TypeOK, NEW i \in 1..Len(input) + 1
  PROVE  From(i) \in Seq(TokenSet)
<1>1. \A j \in i..Len(input) : input[j] \in TokenSet
  BY InputType
<1>2. i \in Int /\ Len(input) \in Int
  BY InputType
<1> QED
  BY <1>1, <1>2, SubSeqProperties DEF From

LEMMA FirstWordType ==
  ASSUME TypeOK, Words # {}
  PROVE  /\ FirstWord \in TokenSet /\ FirstWord.kind \in {"number", "word", "long"}
         /\ From(Min(Words)) \in Seq(TokenSet) /\ From(Min(Words) + 1) \in Seq(TokenSet)
<1>1. Min(Words) \in Words /\ Min(Words) \in 1..Len(input)
  BY InputType
<1>2. FirstWord \in TokenSet /\ FirstWord.kind # "end"
  BY <1>1, InputType DEF FirstWord, Words
<1>3. Min(Words) \in 1..Len(input) + 1 /\ Min(Words) + 1 \in 1..Len(input) + 1
  BY <1>1, InputType
<1> QED
  BY <1>2, <1>3, FromIsInput DEF TokenSet

LEMMA LineType ==
  ASSUME TypeOK, LineEnds # {}
  PROVE  /\ input # <<>> /\ Head(input) \in TokenSet /\ Tail(input) \in Seq(TokenSet)
         /\ From(Min(LineEnds) + 1) \in Seq(TokenSet)
<1>1. Min(LineEnds) \in 1..Len(input)
  BY InputType
<1>2. Min(LineEnds) + 1 \in 1..Len(input) + 1 /\ input # <<>>
  BY <1>1, InputType, EmptySeq
<1> QED
  BY <1>2, FromIsInput, HeadTailProperties DEF TypeOK

-----------------------------------------------------------------------------
(* What the library calls do to the stream: std::cin never recovers, and   *)
(* the answer that is taken is a token of the input.                       *)
StreamKept ==
    /\ input' \in Seq(TokenSet) /\ ended' = ended /\ cinFailed' \in BOOLEAN
    /\ cinFailed => cinFailed'
    /\ answered' \in [question : Questions \union {"none"},
                      meant : Questions \union {"none"}]

LEMMA TookKeeps ==
  ASSUME TypeOK, NEW question \in Questions \union {"none"}, NEW token \in TokenSet,
         NEW rest \in Seq(TokenSet), Took(question, token, rest)
  PROVE  StreamKept /\ cinFailed' = cinFailed
BY DEF TypeOK, Took, StreamKept, TokenSet

LEMMA FailsKeeps ==
  ASSUME TypeOK, NEW rest \in Seq(TokenSet), Fails(rest)
  PROVE  StreamKept
BY DEF TypeOK, Fails, StreamKept

LEMMA NothingKeeps == ASSUME TypeOK, UNCHANGED <<stdin, answered>> PROVE StreamKept
BY DEF TypeOK, StreamKept, stdin

(* operator>> fails while there is input only at a token it cannot take.   *)
LEMMA ExtractKeeps ==
  ASSUME TypeOK, NEW question \in Questions, NEW kinds, Extract(question, kinds)
  PROVE  /\ StreamKept
         /\ cinFailed' /\ ~cinFailed /\ ~ended => Words # {} /\ FirstWord.kind \notin kinds
<1>0. <<>> \in Seq(TokenSet)
  BY EmptySeq
<1>1. CASE cinFailed /\ NothingRead
  BY <1>1, NothingKeeps DEF NothingRead
<1>2. CASE ~cinFailed /\ Words = {} /\ ended /\ Fails(<<>>)
  BY <1>0, <1>2, FailsKeeps
<1>3. CASE ~cinFailed /\ Words # {} /\ FirstWord.kind \in kinds
            /\ Took(question, FirstWord, From(Min(Words) + 1))
  BY <1>3, FirstWordType, TookKeeps
<1>4. CASE ~cinFailed /\ Words # {} /\ FirstWord.kind \notin kinds
            /\ Fails(From(Min(Words)))
  BY <1>4, FirstWordType, FailsKeeps
<1> QED
  BY <1>1, <1>2, <1>3, <1>4 DEF Extract

LEMMA GetLineKeeps ==
  ASSUME TypeOK, NEW question \in Questions, GetLine(question) PROVE StreamKept
<1>0. <<>> \in Seq(TokenSet)
  BY EmptySeq
<1>1. CASE cinFailed /\ NothingRead
  BY <1>1, NothingKeeps DEF NothingRead
<1>2. CASE ~cinFailed /\ LineEnds = {} /\ ended /\ Fails(<<>>)
  BY <1>0, <1>2, FailsKeeps
<1>3. CASE LineEnds # {} /\ Took(question, Head(input), From(Min(LineEnds) + 1))
  BY <1>3, LineType, TookKeeps
<1>4. CASE LineEnds # {} /\ Fails(<<[Head(input) EXCEPT !.kind = "word"]>> \o Tail(input))
  <2>1. [Head(input) EXCEPT !.kind = "word"] \in TokenSet
    BY <1>4, LineType DEF TokenSet
  <2>2. <<[Head(input) EXCEPT !.kind = "word"]>> \in Seq(TokenSet)
    BY <2>1
  <2>3. <<[Head(input) EXCEPT !.kind = "word"]>> \o Tail(input) \in Seq(TokenSet)
    BY <1>4, <2>2, LineType, ConcatProperties
  <2> QED
    BY <1>4, <2>3, FailsKeeps
<1> QED
  BY <1>1, <1>2, <1>3, <1>4 DEF GetLine

LEMMA DropLineKeeps == ASSUME TypeOK, DropLine PROVE StreamKept /\ cinFailed' = cinFailed
<1>1. CASE /\ LineEnds # {} /\ input' = Tail(input)
           /\ UNCHANGED <<ended, cinFailed, answered>>
  BY <1>1, LineType DEF StreamKept, TypeOK
<1>2. CASE LineEnds # {} /\ Took("none", Head(input), From(Min(LineEnds) + 1))
  BY <1>2, LineType, TookKeeps
<1> QED
  BY <1>1, <1>2 DEF DropLine

(* What a number variable has after a read: a number; its old value only   *)
(* if std::cin had failed before or the input has ended.                   *)
LEMMA ValueType ==
  ASSUME TypeOK, NEW old \in Nat
  PROVE  /\ ValueRead(old) \in Nat
         /\ cinFailed => ValueRead(old) = old
         /\ ~cinFailed /\ Words # {} /\ FirstWord.kind # "number" => ValueRead(old) = 0
BY FirstWordType DEF ValueRead, TokenSet

-----------------------------------------------------------------------------
LEMMA TokenType ==
  ASSUME NEW question \in Questions, NEW token \in Proper(question) \union Improper(question)
  PROVE  <<token, LineEnd>> \in Seq(TokenSet)
<1>1. token \in TokenSet
  <2>1. CASE token \in Improper(question)
    BY <2>1 DEF Improper, Token, TokenSet
  <2>2. CASE token \in Proper(question)
    BY <2>2, ConsoleAssumption DEF Proper, Questions, Token, TokenSet
  <2> QED
    BY <2>1, <2>2
<1>2. LineEnd \in TokenSet
  BY DEF LineEnd, Token, TokenSet, Questions
<1> QED
  BY <1>1, <1>2

LEMMA UserKeeps == IInv /\ UserStep => IInv'
<1> SUFFICES ASSUME IInv, UserStep PROVE IInv'
  OBVIOUS
<1> USE ConsoleAssumption
<1>1. ASSUME input' \in Seq(TokenSet), ended' \in BOOLEAN, ended => ended',
             UNCHANGED <<careful, cinFailed, menuAt, recvAt, menu_enable, locals, ghosts>>
      PROVE  IInv'
  BY <1>1 DEF IInv, TypeOK, Placed, FailedRoomIsZero, locals, ghosts
<1>2. CASE TypeLine
  <2>1. PICK question \in Asked :
           \E token \in Proper(question) \union Improper(question) :
             input' = input \o <<token, LineEnd>>
    BY <1>2 DEF TypeLine
  <2>2. PICK token \in Proper(question) \union Improper(question) :
           input' = input \o <<token, LineEnd>>
    BY <2>1
  <2>3. <<token, LineEnd>> \in Seq(TokenSet)
    BY TokenType DEF Asked
  <2>4. input' \in Seq(TokenSet)
    BY <2>2, <2>3, ConcatProperties DEF IInv, TypeOK
  <2> QED
    BY <1>1, <1>2, <2>4 DEF TypeLine, IInv, TypeOK
<1>3. CASE TypeUnasked
  <2>1. LineEnd \in TokenSet
    BY DEF LineEnd, Token, TokenSet, Questions
  <2>2. ASSUME NEW kind \in {"number", "word"}, NEW n \in Numbers
        PROVE  Token(kind, n, "none") \in TokenSet
    BY DEF Token, TokenSet
  <2>3. <<LineEnd>> \in Seq(TokenSet)
    BY <2>1
  <2>4. ASSUME NEW kind \in {"number", "word"}, NEW n \in Numbers
        PROVE  <<Token(kind, n, "none"), LineEnd>> \in Seq(TokenSet)
    BY <2>1, <2>2
  <2>5. input' = <<LineEnd>> => input' \in Seq(TokenSet)
    BY <2>3
  <2>6. (\E kind \in {"number", "word"}, n \in Numbers :
           input' = <<Token(kind, n, "none"), LineEnd>>) => input' \in Seq(TokenSet)
    BY <2>4
  <2>7. /\ \/ input' = <<LineEnd>>
           \/ \E kind \in {"number", "word"}, n \in Numbers :
                input' = <<Token(kind, n, "none"), LineEnd>>
        /\ UNCHANGED <<careful, ended, cinFailed, menuAt, recvAt, menu_enable, locals, ghosts>>
    BY <1>3 DEF TypeUnasked
  <2>8. input' \in Seq(TokenSet)
    BY <2>5, <2>6, <2>7
  <2>9. ended' \in BOOLEAN /\ (ended => ended')
    BY <2>7 DEF IInv, TypeOK
  <2> QED
    BY <1>1, <2>7, <2>8, <2>9
<1>4. CASE EndInput
  BY <1>1, <1>4 DEF EndInput, IInv, TypeOK
<1> QED
  BY <1>2, <1>3, <1>4 DEF UserStep

-----------------------------------------------------------------------------
(* A step that reads, or not, but changes no number and cannot make        *)
(* std::cin fail where a room may be asked for next.                       *)
LEMMA QuietKeeps ==
  ASSUME IInv, StreamKept, UNCHANGED <<careful, locals>>,
         menuAt' \in {"greet", "poll", "act", "exited"} \union (Questions \ {"yn"}),
         recvAt' \in {"recv", "yn"}, menu_enable' \in BOOLEAN, looked' \in BOOLEAN,
         sent' \in [type : Nat, number : Nat], Placed',
         cinFailed' /\ ~ended /\ choice \in AsksForRoom => cinFailed
  PROVE  IInv'
BY DEF IInv, TypeOK, StreamKept, FailedRoomIsZero, locals

LEMMA NotRead == ASSUME IInv, UNCHANGED <<stdin, answered>>
                 PROVE  StreamKept /\ cinFailed' = cinFailed
BY NothingKeeps DEF IInv, stdin

LEMMA GreetKeeps == IInv /\ Greet => IInv'
<1> SUFFICES ASSUME IInv, Greet PROVE IInv'
  OBVIOUS
<1>1. /\ menuAt = "greet" /\ DropLine /\ menuAt' = "id"
      /\ UNCHANGED <<careful, recvAt, menu_enable, locals, looked, sent>>
  BY DEF Greet, At
<1>2. StreamKept /\ cinFailed' = cinFailed
  BY <1>1, DropLineKeeps DEF IInv
<1>3. Placed'
  BY <1>1 DEF IInv, Placed, locals
<1> QED
  BY <1>1, <1>2, <1>3, QuietKeeps DEF IInv, TypeOK, Questions

LEMMA ReadIdKeeps == IInv /\ ReadId => IInv'
<1> SUFFICES ASSUME IInv, ReadId PROVE IInv'
  OBVIOUS
<1>1. /\ menuAt = "id" /\ GetLine("id") /\ menuAt' = "poll"
      /\ UNCHANGED <<careful, recvAt, menu_enable, locals, looked, sent>>
  BY DEF ReadId, At
<1>2. StreamKept
  BY <1>1, GetLineKeeps DEF IInv, Questions
<1>3. Placed' /\ choice \notin AsksForRoom
  BY <1>1 DEF IInv, Placed, locals, AsksForRoom, ROOM_CREATE, ENTER_ROOM_INIT
<1> QED
  BY <1>1, <1>2, <1>3, QuietKeeps DEF IInv, TypeOK

LEMMA ReadChoiceKeeps == IInv /\ ReadChoice => IInv'
<1> SUFFICES ASSUME IInv, ReadChoice PROVE IInv'
  OBVIOUS
<1>1. /\ Extract("choice", {"number"}) /\ choice' = ValueRead(choice)
      /\ looked' = ~cinFailed /\ menuAt' = "act"
      /\ UNCHANGED <<careful, recvAt, menu_enable, channel, room, sent>>
  BY DEF ReadChoice, ExtractNumber
<1>2. /\ StreamKept
      /\ cinFailed' /\ ~cinFailed /\ ~ended =>
            Words # {} /\ FirstWord.kind \notin {"number"}
  BY <1>1, ExtractKeeps DEF IInv, Questions
<1>3. choice \in Nat /\ choice' \in Nat
  BY <1>1, ValueType DEF IInv, TypeOK
<1>4. FailedRoomIsZero'
  <2> SUFFICES ASSUME cinFailed', ~ended', choice' \in AsksForRoom PROVE room' = 0
    BY DEF FailedRoomIsZero
  <2>1. ~ended
    BY <1>2 DEF StreamKept
  <2>2. CASE cinFailed
    BY <1>1, <1>3, <2>1, <2>2, ValueType DEF IInv, FailedRoomIsZero
  <2>3. CASE ~cinFailed
    <3>1. choice' = 0
      BY <1>1, <1>2, <1>3, <2>1, <2>3, ValueType DEF IInv
    <3> QED
      BY <3>1 DEF AsksForRoom, ROOM_CREATE, ENTER_ROOM_INIT
  <2> QED
    BY <2>2, <2>3
<1> QED
  BY <1>1, <1>2, <1>3, <1>4 DEF IInv, TypeOK, Placed, StreamKept

LEMMA AskMoreKeeps == IInv /\ AskMore => IInv'
<1> SUFFICES ASSUME IInv, AskMore PROVE IInv'
  OBVIOUS
<1>1. /\ DropLine
      /\ \/ choice = CHANNEL_MOVE   /\ menuAt' = "channel"
         \/ choice \in AsksForRoom  /\ menuAt' = "room"
         \/ choice \in Chattings    /\ menuAt' = "text"
      /\ UNCHANGED <<careful, recvAt, menu_enable, locals, looked, sent>>
  BY DEF AskMore
<1>2. StreamKept /\ cinFailed' = cinFailed
  BY <1>1, DropLineKeeps DEF IInv
<1>3. Placed'
  BY <1>1 DEF IInv, Placed, locals
<1> QED
  BY <1>1, <1>2, <1>3, QuietKeeps DEF IInv, TypeOK, Questions

LEMMA ReadChannelKeeps == IInv /\ ReadChannel => IInv'
<1> SUFFICES ASSUME IInv, ReadChannel PROVE IInv'
  OBVIOUS
<1>1. /\ menuAt = "channel" /\ Extract("channel", {"number"}) /\ channel' = ValueRead(channel)
      /\ menuAt' = "poll" /\ menu_enable' = TRUE
      /\ sent' = sent \/ sent' = [type |-> choice, number |-> channel']
      /\ UNCHANGED <<careful, recvAt, choice, room, looked>>
  BY DEF ReadChannel, ExtractNumber, SendAndPoll, At
<1>2. StreamKept
  BY <1>1, ExtractKeeps DEF IInv, Questions
<1>3. channel' \in Nat
  BY <1>1, ValueType DEF IInv, TypeOK
<1>4. FailedRoomIsZero' /\ Placed'
  BY <1>1, <1>2 DEF FailedRoomIsZero, IInv, Placed, StreamKept, AsksForRoom, CHANNEL_MOVE,
                    ROOM_CREATE, ENTER_ROOM_INIT
<1> QED
  BY <1>1, <1>2, <1>3, <1>4 DEF IInv, TypeOK, StreamKept

(* The room that is left when a read of a room fails.                      *)
LEMMA RoomRead ==
  ASSUME IInv, ReadRoom
  PROVE  StreamKept /\ room' \in Nat /\ (cinFailed' /\ ~ended => room' = 0)
<1>1. menuAt = "room" /\ Extract("room", {"number"}) /\ room' = ValueRead(room)
  BY DEF ReadRoom, ExtractNumber, At
<1>2. /\ StreamKept
      /\ cinFailed' /\ ~cinFailed /\ ~ended =>
            Words # {} /\ FirstWord.kind \notin {"number"}
  BY <1>1, ExtractKeeps DEF IInv, Questions
<1>3. choice \in AsksForRoom /\ room \in Nat
  BY <1>1 DEF IInv, Placed, TypeOK
<1>4. ASSUME cinFailed', ~ended PROVE room' = 0
  <2>1. CASE cinFailed
    BY <1>1, <1>3, <1>4, <2>1, ValueType DEF IInv, FailedRoomIsZero
  <2>2. CASE ~cinFailed
    BY <1>1, <1>2, <1>3, <1>4, <2>2, ValueType DEF IInv
  <2> QED
    BY <2>1, <2>2
<1> QED
  BY <1>1, <1>2, <1>3, <1>4, ValueType DEF IInv

LEMMA ReadRoomKeeps == IInv /\ ReadRoom => IInv'
<1> SUFFICES ASSUME IInv, ReadRoom PROVE IInv'
  OBVIOUS
<1>1. /\ menuAt' = "poll" /\ menu_enable' \in BOOLEAN
      /\ sent' = sent \/ sent' = [type |-> choice, number |-> room']
      /\ UNCHANGED <<careful, recvAt, choice, channel, looked>>
  BY DEF ReadRoom, SendAndPoll, IInv, TypeOK
<1>2. FailedRoomIsZero' /\ Placed'
  BY <1>1, RoomRead DEF FailedRoomIsZero, Placed, StreamKept
<1> QED
  BY <1>1, <1>2, RoomRead DEF IInv, TypeOK, StreamKept

LEMMA ReadTextKeeps == IInv /\ ReadText => IInv'
<1> SUFFICES ASSUME IInv, ReadText PROVE IInv'
  OBVIOUS
<1>1. /\ menuAt = "text" /\ GetLine("text") /\ menuAt' = "poll"
      /\ menu_enable' = (choice = CHANNEL_CHATTING_MENU)
      /\ sent' = [type |-> choice, number |-> 0]
      /\ UNCHANGED <<careful, recvAt, locals, looked>>
  BY DEF ReadText, SendAndPoll, At
<1>2. StreamKept
  BY <1>1, GetLineKeeps DEF IInv, Questions
<1>3. Placed' /\ choice \notin AsksForRoom /\ sent' \in [type : Nat, number : Nat]
  BY <1>1 DEF IInv, TypeOK, Placed, AsksForRoom, ROOM_CREATE, ENTER_ROOM_INIT, Chattings,
             CHANNEL_CHATTING_MENU, ROOM_CHATTING_MENU
<1> QED
  BY <1>1, <1>2, <1>3, QuietKeeps DEF IInv, TypeOK

LEMMA ReadYesOrNoKeeps == IInv /\ ReadYesOrNo => IInv'
<1> SUFFICES ASSUME IInv, ReadYesOrNo PROVE IInv'
  OBVIOUS
<1>1. /\ Extract("yn", {"number", "word", "long"}) /\ recvAt' = "recv" /\ menu_enable' = TRUE
      /\ UNCHANGED <<careful, menuAt, locals, looked, sent>>
  BY DEF ReadYesOrNo, ExtractWord
<1>2. /\ StreamKept
      /\ cinFailed' /\ ~cinFailed /\ ~ended =>
            Words # {} /\ FirstWord.kind \notin {"number", "word", "long"}
  BY <1>1, ExtractKeeps DEF IInv, Questions
<1>3. cinFailed' /\ ~ended => cinFailed
  BY <1>2, FirstWordType DEF IInv
<1>4. Placed'
  BY <1>1 DEF IInv, Placed, locals
<1> QED
  BY <1>1, <1>2, <1>3, <1>4, QuietKeeps DEF IInv, TypeOK

(* The steps that read nothing.                                            *)
LEMMA SilentKeeps ==
  IInv /\ (Poll \/ Refuse \/ ListOrLeave \/ Exit \/ Wake \/ Ask \/ Overrun \/ Stopped) => IInv'
<1> SUFFICES ASSUME IInv, Poll \/ Refuse \/ ListOrLeave \/ Exit \/ Wake \/ Ask \/ Overrun
                \/ Stopped PROVE  IInv'
  OBVIOUS
<1>1. UNCHANGED <<careful, stdin, answered, locals, looked>>
  BY DEF Poll, Refuse, ListOrLeave, Exit, Wake, Ask, Overrun, Stopped, vars, ghosts
<1>2. /\ \/ menuAt' \in {"choice", "poll", "exited"}
         \/ menuAt' = menuAt
      /\ recvAt' \in {"recv", "yn"} /\ menu_enable' \in BOOLEAN
      /\ sent' = sent \/ sent' = [type |-> choice, number |-> 0]
  BY DEF Poll, Refuse, ListOrLeave, Exit, Wake, Ask, Overrun, Stopped, vars, ghosts,
         SendAndPoll,
         IInv, TypeOK
<1>3. Placed'
  BY <1>1, <1>2 DEF IInv, Placed, locals
<1>4. sent' \in [type : Nat, number : Nat]
  BY <1>2 DEF IInv, TypeOK
<1> QED
  BY <1>1, <1>2, <1>3, <1>4, NotRead, QuietKeeps DEF IInv, TypeOK, Questions

LEMMA NextKeeps == IInv /\ [Next]_vars => IInv'
<1> SUFFICES ASSUME IInv, [Next]_vars PROVE IInv'
  OBVIOUS
<1>1. CASE UNCHANGED vars
  BY <1>1 DEF vars, stdin, locals, ghosts, IInv, TypeOK, Placed, FailedRoomIsZero
<1> QED
  BY <1>1, UserKeeps, GreetKeeps, ReadIdKeeps, ReadChoiceKeeps, AskMoreKeeps,
     ReadChannelKeeps, ReadRoomKeeps, ReadTextKeeps, ReadYesOrNoKeeps, SilentKeeps
  DEF Next, MenuStep

LEMMA InitIInv == Init => IInv
<1> SUFFICES ASSUME Init PROVE IInv
  OBVIOUS
<1>1. input \in Seq(TokenSet)
  BY EmptySeq DEF Init
<1>2. careful \in BOOLEAN /\ channel \in Nat
  BY ConsoleAssumption DEF Init
<1>3. answered \in [question : Questions \union {"none"}, meant : Questions \union {"none"}]
  BY DEF Init, Nothing
<1>4. sent \in [type : Nat, number : Nat]
  BY DEF Init, NoPacket
<1>5. TypeOK
  BY <1>1, <1>2, <1>3, <1>4 DEF Init, TypeOK
<1> QED
  BY <1>5 DEF Init, IInv, Placed, FailedRoomIsZero

LEMMA Inductive == Spec => []IInv
BY InitIInv, NextKeeps, PTL DEF Spec

-----------------------------------------------------------------------------
(* The input is a sequence of tokens and every variable keeps its type,    *)
(* with any entries and numbers typed.                                     *)
THEOREM ConsoleTypeCorrect == Spec => []TypeOK
BY Inductive, PTL DEF IInv

(* While the input lasts, a room number that could not be read is 0, in    *)
(* the round that fails and in all that follow.                            *)
THEOREM NoRoomFromFailure == Spec => NoRoomAfterFailure
<1>1. IInv /\ [Next]_vars =>
        [At("room") /\ menuAt' = "poll" /\ cinFailed' /\ ~ended => room' = 0]_vars
  <2> SUFFICES ASSUME IInv, Next, menuAt = "room", menuAt' = "poll", cinFailed', ~ended
               PROVE  room' = 0
    BY DEF At
  <2>1. ReadRoom
    BY DEF Next, UserStep, MenuStep, TypeLine, TypeUnasked, EndInput, Greet, ReadId, Poll,
           ReadChoice, Refuse, AskMore, ReadChannel, ReadText, ListOrLeave, Exit, Wake, Ask,
           ReadYesOrNo, Overrun, Stopped, At, vars
  <2> QED
    BY <2>1, RoomRead
<1> QED
  BY <1>1, Inductive, PTL DEF Spec, NoRoomAfterFailure

-----------------------------------------------------------------------------
(***************************************************************************)
(* A careful user.  There is at most one question, and the input holds at  *)
(* most the line that answers it, behind at most one line end that an      *)
(* operator>> has left.                                                    *)
(***************************************************************************)
Answers == UNION {Proper(question) : question \in Asked}

Silent == input = <<>> \/ input = <<LineEnd>>

Clean == input = <<>> \/ \E token \in Answers : input = <<token, LineEnd>>

Stray == input = <<LineEnd>> \/ \E token \in Answers : input = <<LineEnd, token, LineEnd>>

(* The receive thread asks while the menu waits; what reads a whole line   *)
(* finds no line end before it; and std::cin fails at the end of the input *)
(* only.                                                                   *)
AnswersInOrder ==
    /\ recvAt = "yn" => menuAt = "poll" /\ ~menu_enable
    /\ Clean \/ Stray
    /\ menuAt \in {"id", "channel", "room", "text"} => Clean
    /\ cinFailed => ended /\ input = <<>>
    /\ answered.question = answered.meant

InOrder == careful => AnswersInOrder

-----------------------------------------------------------------------------
LEMMA ProperToken ==
  ASSUME NEW question \in Questions, NEW token \in Proper(question)
  PROVE  /\ token \in TokenSet /\ token.meant = question
         /\ token.kind \in {"number", "word"}
         /\ question \in {"choice", "channel", "room"} => token.kind = "number"
BY ConsoleAssumption DEF Proper, Questions, Token, TokenSet

(* Where the words and the line ends of a line are.                        *)
LEMMA NoLine == ASSUME input = <<>> PROVE Words = {} /\ LineEnds = {}
BY DEF Words, LineEnds

LEMMA BareLine ==
  ASSUME input = <<LineEnd>>
  PROVE  Words = {} /\ Head(input) = LineEnd /\ Tail(input) = <<>> /\ LineEnd.kind = "end"
<1>1. /\ Len(input) = 1 /\ input[1] = LineEnd /\ LineEnd.kind = "end"
  BY DEF LineEnd, Token
<1>2. Words = {}
  BY <1>1 DEF Words
<1>3. Head(input) = LineEnd /\ Tail(input) = <<>>
  OBVIOUS
<1> QED
  BY <1>1, <1>2, <1>3

LEMMA OneOf == ASSUME NEW x \in Nat PROVE Min({x}) = x
BY MinIsIn

LEMMA LastCell ==
  ASSUME NEW n \in Nat, Len(input) = n, input[n] = LineEnd
  PROVE  From(n) = <<LineEnd>> /\ From(n + 1) = <<>>
<1>1. \A i \in n..n : input[i] \in {LineEnd}
  OBVIOUS
<1> DEFINE rest == SubSeq(input, n, n)
<1>2. /\ rest \in Seq({LineEnd}) /\ Len(rest) = (IF n <= n THEN n - n + 1 ELSE 0)
      /\ \A i \in 1..n - n + 1 : rest[i] = input[n + i - 1]
  BY <1>1, SubSeqProperties
<1>3. Len(rest) = 1 /\ rest \in Seq({LineEnd})
  BY <1>2
<1>4. rest[1] \in {LineEnd}
  BY <1>3, ElementOfSeq
<1> HIDE DEF rest
<1>5. <<LineEnd>> \in Seq({LineEnd}) /\ Len(<<LineEnd>>) = 1 /\ <<LineEnd>>[1] = LineEnd
  OBVIOUS
<1>6. \A i \in 1..Len(rest) : rest[i] = <<LineEnd>>[i]
  <2>1. \A i \in 1..Len(rest) : i = 1
    BY <1>3
  <2> QED
    BY <1>4, <1>5, <2>1
<1>7. rest = <<LineEnd>>
  BY <1>3, <1>5, <1>6, SeqEqual
<1>8. From(n + 1) = <<>>
  BY SubSeqEmpty DEF From
<1> QED
  BY <1>7, <1>8 DEF rest, From

LEMMA CleanLine ==
  ASSUME NEW token, token.kind # "end", input = <<token, LineEnd>>
  PROVE  /\ Words = {1} /\ LineEnds = {2} /\ FirstWord = token /\ Head(input) = token
         /\ From(Min(Words) + 1) = <<LineEnd>> /\ From(Min(LineEnds) + 1) = <<>>
<1>1. /\ Len(input) = 2 /\ input[1] = token /\ input[2] = LineEnd /\ LineEnd.kind = "end"
  BY DEF LineEnd, Token
<1>2. \A i \in 1..Len(input) : i = 1 \/ i = 2
  BY <1>1
<1>3. Words = {1}
  BY <1>1, <1>2 DEF Words
<1>4. LineEnds = {2}
  BY <1>1, <1>2 DEF LineEnds
<1>5. Min(Words) = 1 /\ Min(LineEnds) = 2
  BY <1>3, <1>4, OneOf
<1>6. From(2) = <<LineEnd>> /\ From(3) = <<>>
  BY <1>1, LastCell
<1> QED
  BY <1>1, <1>3, <1>4, <1>5, <1>6 DEF FirstWord

LEMMA BehindTheLineEnd ==
  ASSUME NEW token \in TokenSet
  PROVE  <<LineEnd>> \o <<token, LineEnd>> = <<LineEnd, token, LineEnd>>
<1> DEFINE a == <<LineEnd>>
           b == <<token, LineEnd>>
           c == <<LineEnd, token, LineEnd>>
<1>1. LineEnd \in TokenSet
  BY DEF LineEnd, Token, TokenSet, Questions
<1>2. /\ a \in Seq(TokenSet) /\ b \in Seq(TokenSet) /\ c \in Seq(TokenSet)
      /\ Len(a) = 1 /\ Len(b) = 2 /\ Len(c) = 3
      /\ a[1] = LineEnd /\ b[1] = token /\ b[2] = LineEnd
      /\ c[1] = LineEnd /\ c[2] = token /\ c[3] = LineEnd
  BY <1>1
<1> HIDE DEF a, b, c
<1>3. /\ a \o b \in Seq(TokenSet) /\ Len(a \o b) = 3
      /\ \A i \in 1..3 : (a \o b)[i] = IF i <= 1 THEN a[i] ELSE b[i - 1]
  <2>1. /\ a \o b \in Seq(TokenSet) /\ Len(a \o b) = Len(a) + Len(b)
        /\ \A i \in 1..Len(a) + Len(b) : (a \o b)[i] = IF i <= Len(a) THEN a[i] ELSE b[i - Len(a)]
    BY <1>2, ConcatProperties
  <2> QED
    BY <1>2, <2>1
<1>4. (a \o b)[1] = c[1] /\ (a \o b)[2] = c[2] /\ (a \o b)[3] = c[3]
  BY <1>2, <1>3
<1>5. \A i \in 1..3 : i = 1 \/ i = 2 \/ i = 3
  OBVIOUS
<1>6. \A i \in 1..Len(a \o b) : (a \o b)[i] = c[i]
  BY <1>3, <1>4, <1>5
<1>7. a \o b = c
  BY <1>2, <1>3, <1>6, SeqEqual
<1> QED
  BY <1>7 DEF a, b, c

LEMMA StrayLine ==
  ASSUME NEW token, token.kind # "end", input = <<LineEnd, token, LineEnd>>
  PROVE  /\ Words = {2} /\ FirstWord = token
         /\ From(Min(Words) + 1) = <<LineEnd>>
<1>1. /\ Len(input) = 3 /\ input[1] = LineEnd /\ input[2] = token /\ input[3] = LineEnd
      /\ LineEnd.kind = "end"
  BY DEF LineEnd, Token
<1>2. \A i \in 1..Len(input) : i = 1 \/ i = 2 \/ i = 3
  BY <1>1
<1>3. Words = {2}
  BY <1>1, <1>2 DEF Words
<1>4. Min(Words) = 2
  BY <1>3, OneOf
<1>5. From(3) = <<LineEnd>>
  BY <1>1, LastCell
<1> QED
  BY <1>1, <1>3, <1>4, <1>5 DEF FirstWord

(* While nothing is asked there is no answer; and where one question is,   *)
(* an answer is one to it.                                                 *)
LEMMA NobodyAsks ==
  ASSUME Asked = {}, Clean \/ Stray PROVE Silent /\ Words = {}
<1>1. Answers = {}
  BY DEF Answers
<1>2. Silent
  BY <1>1 DEF Clean, Stray, Silent
<1> QED
  BY <1>2, NoLine, BareLine DEF Silent

LEMMA OneAsks ==
  ASSUME NEW question \in Questions, Asked = {question}, NEW token \in Answers
  PROVE  /\ token.meant = question /\ token.kind \in {"number", "word"}
         /\ question \in {"choice", "channel", "room"} => token.kind = "number"
<1>1. token \in Proper(question)
  BY DEF Answers
<1> QED
  BY <1>1, ProperToken

(* What is read is the answer, and nothing or a line end is left.          *)
Answered ==
    /\ input' = <<>> \/ input' = <<LineEnd>>
    /\ ended' = ended /\ (cinFailed' => ended /\ input' = <<>>)
    /\ answered'.question = answered'.meant

LEMMA ExtractAnswers ==
  ASSUME AnswersInOrder, NEW question \in {"choice", "channel", "room", "yn"},
         Asked = {question}, NEW kinds, "number" \in kinds,
         question = "yn" => "word" \in kinds, Extract(question, kinds)
  PROVE  Answered
<1> USE DEF Answered
<1>1. CASE cinFailed /\ NothingRead
  BY <1>1 DEF NothingRead, stdin, AnswersInOrder
<1>2. CASE ~cinFailed /\ Words = {} /\ ended /\ Fails(<<>>)
  BY <1>2 DEF Fails, AnswersInOrder
<1>3. CASE ~cinFailed /\ Words # {}
  <2>1. PICK token \in Answers :
           input = <<token, LineEnd>> \/ input = <<LineEnd, token, LineEnd>>
    BY <1>3, NoLine, BareLine DEF AnswersInOrder, Clean, Stray
  <2>2. /\ token.meant = question /\ token.kind \in {"number", "word"}
        /\ question \in {"choice", "channel", "room"} => token.kind = "number"
    BY OneAsks DEF Questions
  <2>3. FirstWord = token /\ From(Min(Words) + 1) = <<LineEnd>>
    BY <2>1, <2>2, CleanLine, StrayLine
  <2>4. token.kind \in kinds
    BY <2>2
  <2>5. Took(question, token, <<LineEnd>>)
    BY <1>3, <2>3, <2>4 DEF Extract
  <2> QED
    BY <1>3, <2>2, <2>5 DEF Took
<1> QED
  BY <1>1, <1>2, <1>3 DEF Extract

LEMMA GetLineAnswers ==
  ASSUME AnswersInOrder, NEW question \in {"id", "text"}, Asked = {question}, Clean,
         GetLine(question)
  PROVE  Answered
<1> USE DEF Answered
<1>1. CASE cinFailed /\ NothingRead
  BY <1>1 DEF NothingRead, stdin, AnswersInOrder
<1>2. CASE ~cinFailed /\ LineEnds = {} /\ ended /\ Fails(<<>>)
  BY <1>2 DEF Fails, AnswersInOrder
<1>3. CASE ~cinFailed /\ LineEnds # {}
  <2>1. PICK token \in Answers : input = <<token, LineEnd>>
    BY <1>3, NoLine DEF Clean
  <2>2. token.meant = question /\ token.kind \in {"number", "word"}
    BY OneAsks DEF Questions
  <2>3. Head(input) = token /\ From(Min(LineEnds) + 1) = <<>>
    BY <2>1, <2>2, CleanLine
  <2>4. Took(question, token, <<>>)
    BY <1>3, <2>2, <2>3 DEF GetLine
  <2> QED
    BY <1>3, <2>2, <2>4 DEF Took
<1> QED
  BY <1>1, <1>2, <1>3 DEF GetLine

(* Only a line end is dropped.                                             *)
LEMMA DropAnswers ==
  ASSUME AnswersInOrder, Asked = {}, DropLine
  PROVE  /\ input' = <<>> /\ UNCHANGED <<ended, cinFailed, answered>>
         /\ ~cinFailed
<1>1. input = <<LineEnd>>
  BY NobodyAsks, NoLine DEF AnswersInOrder, DropLine, Silent
<1>2. Head(input) = LineEnd /\ Tail(input) = <<>> /\ LineEnd.kind = "end"
  BY <1>1, BareLine
<1>3. input # <<>>
  BY <1>1
<1> QED
  BY <1>2, <1>3 DEF DropLine, AnswersInOrder

-----------------------------------------------------------------------------
(* Where the input is silent, any question may be asked next, but by what  *)
(* reads a whole line only if nothing is left.                             *)
LEMMA SilentInOrder ==
  ASSUME input' = <<>> \/ input' = <<LineEnd>>,
         recvAt' = "yn" => menuAt' = "poll" /\ ~menu_enable',
         menuAt' \in {"id", "channel", "room", "text"} => input' = <<>>,
         cinFailed' => ended' /\ input' = <<>>,
         answered'.question = answered'.meant
  PROVE  AnswersInOrder'
BY DEF AnswersInOrder, Clean, Stray

(* What is asked where.                                                    *)
LEMMA AskedAt ==
  ASSUME TypeOK, AnswersInOrder
  PROVE  /\ menuAt \in Questions => Asked = {menuAt} /\ recvAt = "recv"
         /\ menuAt \notin Questions /\ recvAt = "recv" => Asked = {}
         /\ menuAt = "act" \/ menuAt = "greet" => recvAt = "recv" /\ Asked = {}
         /\ recvAt = "yn" => Asked = {"yn"} /\ menuAt = "poll"
<1>1. recvAt \in {"recv", "yn"} /\ (recvAt = "yn" => menuAt = "poll")
  BY DEF TypeOK, AnswersInOrder
<1>2. "recv" \notin Questions /\ "poll" \notin Questions /\ "act" \notin Questions
      /\ "greet" \notin Questions /\ "yn" \in Questions
  BY DEF Questions
<1> QED
  BY <1>1, <1>2 DEF Asked

LEMMA UserInOrder ==
  ASSUME TypeOK, careful, AnswersInOrder, UserStep PROVE AnswersInOrder'
<1>1. UNCHANGED <<careful, cinFailed, menuAt, recvAt, menu_enable, answered>>
  BY DEF UserStep, TypeLine, TypeUnasked, EndInput, ghosts
<1>2. Answers' = Answers
  BY <1>1 DEF Answers, Asked, Proper
<1>3. CASE TypeLine
  <2>1. PICK question \in Asked : \E token \in Proper(question) :
           input' = input \o <<token, LineEnd>>
    BY <1>3 DEF TypeLine
  <2>2. PICK token \in Proper(question) : input' = input \o <<token, LineEnd>>
    BY <2>1
  <2>3. token \in Answers
    BY DEF Answers
  <2>4. Words = {} /\ ~ended /\ ended' = ended
    BY <1>3 DEF TypeLine
  <2>5. ASSUME NEW t \in Answers PROVE t.kind # "end"
    BY ProperToken DEF Answers, Asked
  <2>6. Silent
    BY <2>4, <2>5, CleanLine, StrayLine DEF AnswersInOrder, Clean, Stray, Silent
  <2>7. CASE input = <<>>
    <3>1. input' = <<token, LineEnd>>
      BY <2>2, <2>7
    <3>2. Clean'
      BY <1>2, <2>3, <3>1 DEF Clean
    <3> QED
      BY <1>1, <2>4, <3>2 DEF AnswersInOrder
  <2>8. CASE input = <<LineEnd>>
    <3>1. input' = <<LineEnd, token, LineEnd>>
      BY <2>2, <2>8, BehindTheLineEnd, ProperToken DEF Asked
    <3>2. Stray'
      BY <1>2, <2>3, <3>1 DEF Stray
    <3>3. menuAt \notin {"id", "channel", "room", "text"}
      <4>1. ASSUME NEW t, <<LineEnd>> = <<t, LineEnd>> PROVE FALSE
        BY <4>1
      <4> QED
        BY <2>8, <4>1 DEF AnswersInOrder, Clean
    <3> QED
      BY <1>1, <2>4, <3>2, <3>3 DEF AnswersInOrder
  <2> QED
    BY <2>6, <2>7, <2>8 DEF Silent
<1>4. CASE TypeUnasked
  <2>1. menuAt = "greet" /\ input' = <<LineEnd>> /\ ~ended /\ ended' = ended
    BY <1>4 DEF TypeUnasked
  <2> QED
    BY <1>1, <2>1, SilentInOrder DEF AnswersInOrder
<1>5. CASE EndInput
  BY <1>1, <1>2, <1>5 DEF EndInput, AnswersInOrder, Clean, Stray
<1> QED
  BY <1>3, <1>4, <1>5 DEF UserStep

LEMMA MenuInOrder ==
  ASSUME IInv, careful, AnswersInOrder, MenuStep PROVE AnswersInOrder'
<1>0. TypeOK
  BY DEF IInv
<1>1. CASE Greet \/ AskMore
  <2>1. /\ menuAt \in {"greet", "act"} /\ DropLine /\ recvAt' = recvAt
    BY <1>1 DEF Greet, AskMore, At
  <2>2. /\ input' = <<>> /\ UNCHANGED <<ended, cinFailed, answered>> /\ ~cinFailed
        /\ recvAt = "recv"
    BY <1>0, <2>1, AskedAt, DropAnswers
  <2> QED
    BY <2>1, <2>2, SilentInOrder DEF AnswersInOrder
<1>2. CASE ReadId \/ ReadText
  <2>1. PICK question \in {"id", "text"} :
           /\ menuAt = question /\ GetLine(question) /\ recvAt' = recvAt /\ menuAt' = "poll"
    BY <1>2 DEF ReadId, ReadText, At, SendAndPoll
  <2>2. Asked = {question} /\ recvAt = "recv" /\ Clean
    BY <1>0, <2>1, AskedAt DEF AnswersInOrder, Questions
  <2>3. Answered
    BY <2>1, <2>2, GetLineAnswers
  <2> QED
    BY <2>1, <2>2, <2>3, SilentInOrder DEF Answered
<1>3. CASE ReadChoice \/ ReadChannel \/ ReadRoom
  <2>1. PICK question \in {"choice", "channel", "room"} :
           /\ menuAt = question /\ Extract(question, {"number"}) /\ recvAt' = recvAt
           /\ menuAt' \in {"poll", "act"}
    <3>1. CASE ReadChoice
      BY <3>1 DEF ReadChoice, At, ExtractNumber
    <3>2. CASE ReadChannel
      BY <3>2 DEF ReadChannel, At, ExtractNumber, SendAndPoll
    <3>3. CASE ReadRoom
      BY <3>3 DEF ReadRoom, At, ExtractNumber, SendAndPoll
    <3> QED
      BY <1>3, <3>1, <3>2, <3>3
  <2>2. Asked = {question} /\ recvAt = "recv"
    BY <1>0, <2>1, AskedAt DEF Questions
  <2>3. Answered
    BY <2>1, <2>2, ExtractAnswers
  <2> QED
    BY <2>1, <2>2, <2>3, SilentInOrder DEF Answered
<1>4. CASE Poll \/ Refuse \/ ListOrLeave \/ Exit
  <2>1. /\ menuAt \in {"poll", "act"} /\ recvAt = "recv"
    BY <1>0, <1>4 DEF Poll, Refuse, ListOrLeave, Exit, At, AnswersInOrder, TypeOK
  <2>2. /\ menuAt' \in {"choice", "poll", "exited"}
        /\ UNCHANGED <<input, ended, cinFailed, answered, recvAt>>
    BY <1>4 DEF Poll, Refuse, ListOrLeave, Exit, SendAndPoll, stdin, ghosts
  <2>3. Silent
    BY <1>0, <2>1, AskedAt, NobodyAsks DEF AnswersInOrder, Questions
  <2> QED
    BY <2>1, <2>2, <2>3, SilentInOrder DEF Silent, AnswersInOrder
<1> QED
  BY <1>1, <1>2, <1>3, <1>4 DEF MenuStep

LEMMA ReceiverInOrder ==
  ASSUME IInv, careful, AnswersInOrder, Wake \/ Ask \/ ReadYesOrNo \/ Overrun
  PROVE  AnswersInOrder'
<1>0. TypeOK
  BY DEF IInv
<1>1. CASE Wake
  <2>1. /\ recvAt = "recv"
        /\ UNCHANGED <<input, ended, cinFailed, answered, recvAt, menuAt>>
    BY <1>1 DEF Wake, Listening, stdin, ghosts
  <2>2. Answers' = Answers
    BY <2>1 DEF Answers, Asked, Proper
  <2> QED
    BY <2>1, <2>2 DEF AnswersInOrder, Clean, Stray
<1>2. CASE Ask
  <2>1. /\ menuAt = "poll" /\ ~menu_enable /\ recvAt = "recv"
        /\ UNCHANGED <<input, ended, cinFailed, answered, menuAt, menu_enable>>
    BY <1>2 DEF Ask, Listening, At, stdin, ghosts
  <2>2. Silent
    BY <1>0, <2>1, AskedAt, NobodyAsks DEF AnswersInOrder, Questions
  <2> QED
    BY <2>1, <2>2, SilentInOrder DEF Silent, AnswersInOrder
<1>3. CASE ReadYesOrNo
  <2>1. recvAt = "yn" /\ Extract("yn", {"number", "word", "long"})
        /\ recvAt' = "recv" /\ menuAt' = menuAt
    BY <1>3 DEF ReadYesOrNo, ExtractWord
  <2>2. Asked = {"yn"} /\ menuAt = "poll"
    BY <1>0, <2>1, AskedAt
  <2>3. Answered
    BY <2>1, <2>2, ExtractAnswers
  <2> QED
    BY <2>1, <2>2, <2>3, SilentInOrder DEF Answered
<1>4. CASE Overrun
  BY <1>4 DEF Overrun
<1> QED
  BY <1>1, <1>2, <1>3, <1>4

LEMMA NextInOrder == IInv /\ InOrder /\ [Next]_vars => InOrder'
<1> SUFFICES ASSUME IInv, InOrder, [Next]_vars, careful' PROVE AnswersInOrder'
  BY DEF InOrder
<1>1. careful' = careful
  BY DEF Next, UserStep, MenuStep, TypeLine, TypeUnasked, EndInput, Greet, ReadId, Poll,
         ReadChoice, Refuse, AskMore, ReadChannel, ReadRoom, ReadText, ListOrLeave, Exit,
         Wake, Ask, ReadYesOrNo, Overrun, Stopped, vars
<1>2. careful /\ AnswersInOrder /\ TypeOK
  BY <1>1 DEF InOrder, IInv
<1>3. CASE UNCHANGED vars
  <2>1. UNCHANGED <<input, ended, cinFailed, answered, recvAt, menuAt, menu_enable>>
    BY <1>3 DEF vars, stdin, ghosts
  <2>2. Answers' = Answers
    BY <2>1 DEF Answers, Asked, Proper
  <2> QED
    BY <1>2, <2>1, <2>2 DEF AnswersInOrder, Clean, Stray
<1> QED
  BY <1>2, <1>3, UserInOrder, MenuInOrder, ReceiverInOrder DEF Next, Stopped

(* Whatever entries and numbers a careful user types, each answer is taken *)
(* by the reader that asked for it: none is dropped with the rest of a     *)
(* line, read by the other thread, or displaced by a line end that an      *)
(* earlier operator>> left.                                                *)
THEOREM AnswersAreTaken == Spec => []AnswersReachTheirQuestion
<1>1. Init => InOrder
  BY DEF Init, Nothing, InOrder, AnswersInOrder, Clean
<1>2. InOrder => AnswersReachTheirQuestion
  BY DEF InOrder, AnswersInOrder, AnswersReachTheirQuestion
<1> QED
  BY <1>1, <1>2, NextInOrder, Inductive, PTL DEF Spec
=============================================================================
