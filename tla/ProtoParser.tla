----------------------------- MODULE ProtoParser ----------------------------
(***************************************************************************)
(* ParseFromCodedStream on one message's bytes: the generated              *)
(* MergePartialFromCodedStream, one field at a time, WireFormat::SkipField *)
(* for the fields it does not know, and the check of the required fields.  *)
(*                                                                         *)
(* The handlers look at the fields whatever the parse returns, so a field  *)
(* that could not be read counts as much as the result.  A failed read     *)
(* leaves the field's has bit set and, of a text, what there was of it.    *)
(* Nothing is read after a failure; pos is then behind the bytes.          *)
(*                                                                         *)
(* Unknown fields are kept by the library and used by nobody here.         *)
(***************************************************************************)
EXTENDS ProtoMessages

CONSTANTS
    Sources,            \* which inputs there are: "whole", "cut", "any"
    Ints, Texts, Lists, \* the values of the messages that are sent
    Unknowns,           \* fields of newer classes, as they are written
    Leftovers,          \* what lies behind a message that is cut
    Bytes, MaxBytes,    \* the bytes of arbitrary inputs, and how many
    RecursionLimit      \* how deep groups may nest

ASSUME ParserAssumption ==
    /\ Ints \subseteq Int32s /\ Texts \subseteq Seq(0..255) /\ Lists \subseteq Seq(Int32s)
    /\ \A text \in Texts : Len(text) < Narrow \div 2
    /\ Unknowns \union Leftovers \subseteq Seq(0..255) /\ Bytes \subseteq 0..255
    /\ MaxBytes \in Nat /\ RecursionLimit \in Nat

VARIABLES
    input,      \* the message's class and bytes, and where they come from
    pos,        \* the next byte to read
    message,    \* the message as parsed so far
    groups,     \* the numbers of the unknown groups around pos
    packed,     \* the packed field around pos, and its last byte
    result      \* "busy", or what ParseFromCodedStream has returned

vars == <<input, pos, message, groups, packed, result>>

NotPacked == [field |-> 0, last |-> 0]

schema == input.schema
bytes  == input.bytes

(* What a field of a message that is sent may hold.                        *)
PlacesOf(field) ==
    LET present == {TRUE} \union IF field.rule = "optional" THEN {FALSE} ELSE {}
        values  == CASE field.rule = "repeated" -> Lists
                     [] field.type = "string"   -> Texts
                     [] field.type = "bool"     -> BOOLEAN
                     [] OTHER                   -> Ints
    IN  IF field.rule = "repeated" THEN [has : {FALSE}, value : values]
        ELSE {p \in [has : present, value : values] : ~p.has => p.value = DefaultOf(field)}

WithField(messages, field) == {Append(m, p) : m \in messages, p \in PlacesOf(field)}

MessagesOf(class) ==
    LET upTo[n \in 0..Len(class)] ==
          IF n = 0 THEN {<<>>} ELSE WithField(upTo[n - 1], class[n])
    IN  upTo[Len(class)]

IntMax == Narrow \div 2 - 1

Input(source, class, m, bs, received) ==
    [source |-> source, schema |-> class, sent |-> m, bytes |-> bs, received |-> received]

(* A message, with a field of a newer class among its own or without.      *)
WholeMessage(class, m) ==
    \E unknown \in Unknowns \union {<<>>}, i \in 1..(Len(class) + 1) :
      LET bs == FlattenSeq(InsertAt(Written(class, m), i, unknown))
      IN  input = Input("whole", class, m, bs, Len(bs))

(* A message of which the first bytes were received, and what an earlier   *)
(* read left behind them.                                                  *)
CutMessage(class, m) ==
    LET bs == SerializeToArray(class, m)
    IN  \E k \in 0..(Len(bs) - 1), old \in Leftovers :
          input = Input("cut", class, m, SubSeq(bs, 1, k) \o old, k)

AnyBytes(class) ==
    \E n \in 0..MaxBytes : \E bs \in [1..n -> Bytes] :
      input = Input("any", class, Cleared(class), bs, 0)

Init ==
    /\ \E class \in Schemas :
         \/ /\ "whole" \in Sources
            /\ \E m \in MessagesOf(class) : WholeMessage(class, m)
         \/ /\ "cut" \in Sources
            /\ \E m \in MessagesOf(class) : CutMessage(class, m)
         \/ /\ "any" \in Sources
            /\ AnyBytes(class)
    /\ Len(bytes) <= IntMax                    \* the size a handler has is an int
    /\ pos = 1 /\ message = Cleared(schema) /\ groups = <<>>
    /\ packed = NotPacked /\ result = "busy"

-----------------------------------------------------------------------------
(* Where reads must stop: at the end of the bytes, or at the packed limit. *)
Limit == IF packed = NotPacked THEN Len(bytes) ELSE Min({packed.last, Len(bytes)})

LastBytes(p) ==
    {k \in p..Min({p + MaxVarintBytes - 1, Limit}) : bytes[k] < More}

Digits(p, last) ==
    LET value[k \in p..(last + 1)] ==
          IF k > last THEN 0 ELSE (bytes[k] % More) + More * value[k + 1]
    IN  value[p] % Wide

(* Mutant: a varint cut by the end of the bytes is taken as it is.         *)
ReadVarintLax(p) ==
    LET last == IF LastBytes(p) = {} THEN Limit ELSE Min(LastBytes(p))
    IN  [ok |-> LastBytes(p) # {} \/ p <= Limit,
         value |-> Digits(p, last), next |-> last + 1]

(* The varint at p, if it ends in time.                                    *)
ReadVarint(p) ==
    IF LastBytes(p) = {} THEN [ok |-> FALSE, value |-> 0, next |-> p]
    ELSE LET last == Min(LastBytes(p))
         IN  [ok |-> TRUE, value |-> Digits(p, last), next |-> last + 1]

(* Mutant: the number is taken without its sign.                           *)
Int32Unsigned(v) == v % Narrow

(* The low bits, as a number with a sign.                                  *)
Int32(v) == LET low == v % Narrow
            IN  IF low >= Narrow \div 2 THEN low - Narrow ELSE low

(* No tag and a tag that cannot be read are both 0.                        *)
Tag      == ReadVarint(pos).value % Narrow
TagEnd   == ReadVarint(pos).next
Number   == Tag \div 8
WireType == Tag % 8

Busy == result = "busy" /\ packed = NotPacked

(* DO_: go on at next, or fail.                                            *)
GoOn(ok, next) ==
    IF ok THEN pos' = next /\ UNCHANGED result
          ELSE pos' = Len(bytes) + 1 /\ result' = "false"

-----------------------------------------------------------------------------
(* The fields the class knows.                                             *)
Expects(n, wireType) ==
    CASE schema[n].rule = "repeated"  -> wireType \in {VARINT, LENGTH_DELIMITED}
      [] schema[n].type = "string"    -> wireType = LENGTH_DELIMITED
      [] OTHER                        -> wireType = VARINT

Known ==
    groups = <<>> /\ Tag < More /\ Number \in DOMAIN schema /\ Expects(Number, WireType)

Single(n) == schema[n].rule # "repeated"

SetValue(n, value) == message' = [message EXCEPT ![n] = [has |-> TRUE, value |-> value]]

ReadPrimitive(n) ==
    /\ Busy /\ Known /\ Number = n /\ Single(n) /\ WireType = VARINT
    /\ LET v == ReadVarint(TagEnd)
       IN  /\ SetValue(n, CASE ~v.ok -> message[n].value
                            [] v.ok /\ schema[n].type = "int32" -> Int32(v.value)
                            [] v.ok /\ schema[n].type = "bool"  -> v.value # 0)
           /\ GoOn(v.ok, v.next)
    /\ UNCHANGED <<input, groups, packed>>

ReadString(n) ==
    /\ Busy /\ Known /\ Number = n /\ Single(n) /\ WireType = LENGTH_DELIMITED
    /\ LET v == ReadVarint(TagEnd)
           size == Int32(v.value)
           left == Len(bytes) - v.next + 1
       IN  IF v.ok /\ size >= 0
             THEN /\ SetValue(n, SubSeq(bytes, v.next, v.next + Min({size, left}) - 1))
                  /\ GoOn(size <= left, v.next + size)
             ELSE SetValue(n, message[n].value) /\ GoOn(FALSE, pos)
    /\ UNCHANGED <<input, groups, packed>>

Add(n, v) ==
    /\ message' = IF v.ok THEN [message EXCEPT ![n].value = Append(@, Int32(v.value))]
                          ELSE message
    /\ GoOn(v.ok, v.next)

ReadRepeated(n) ==
    /\ Busy /\ Known /\ Number = n /\ ~Single(n) /\ WireType = VARINT
    /\ Add(n, ReadVarint(TagEnd))
    /\ UNCHANGED <<input, groups, packed>>

(* ReadPackedPrimitive: PushLimit makes the length a limit; then one value *)
(* a step.  A limit of INT_MAX, which stands for all that lie no lower, is *)
(* none: BytesUntilLimit is -1 and the field is left as if it were empty.  *)
BeginPacked(n) ==
    /\ Busy /\ Known /\ Number = n /\ ~Single(n) /\ WireType = LENGTH_DELIMITED
    /\ LET v == ReadVarint(TagEnd)
           fits == v.ok /\ v.value <= IntMax
           last == v.next + v.value - 1
       IN  /\ packed' = IF fits /\ last < IntMax THEN [field |-> n, last |-> last]
                                                 ELSE NotPacked
           /\ GoOn(fits, v.next)
    /\ UNCHANGED <<input, message, groups>>

ReadPacked ==
    /\ result = "busy" /\ packed # NotPacked /\ pos <= packed.last
    /\ Add(packed.field, ReadVarint(pos))
    /\ UNCHANGED <<input, groups, packed>>

EndPacked ==
    /\ result = "busy" /\ packed # NotPacked /\ pos > packed.last
    /\ packed' = NotPacked
    /\ UNCHANGED <<input, pos, message, groups, result>>

-----------------------------------------------------------------------------
(* Tag 0 ends the message, which must have all that is required; inside *)
(* of a group the end is a failure.                                        *)
EndOfFields ==
    /\ Busy /\ Tag = 0
    /\ result' = IF groups = <<>> /\ IsInitialized(schema, message)
                   THEN "true" ELSE "false"
    /\ UNCHANGED <<input, pos, message, groups, packed>>

(* SkipField, for a field the class does not know or of another wire type. *)
Unusual == Busy /\ Tag # 0 /\ ~Known

SkipVarint ==
    /\ Unusual /\ WireType = VARINT
    /\ LET v == ReadVarint(TagEnd) IN GoOn(v.ok, v.next)
    /\ UNCHANGED <<input, message, groups, packed>>

(* Mutant: nobody looks whether the bytes are there.                       *)
SkipFixedUnchecked ==
    /\ Unusual /\ WireType \in {FIXED32, FIXED64}
    /\ LET size == IF WireType = FIXED32 THEN 4 ELSE 8
       IN  GoOn(TRUE, TagEnd + size)
    /\ UNCHANGED <<input, message, groups, packed>>

SkipFixed ==
    /\ Unusual /\ WireType \in {FIXED32, FIXED64}
    /\ LET size == IF WireType = FIXED32 THEN 4 ELSE 8
       IN  GoOn(TagEnd + size - 1 <= Len(bytes), TagEnd + size)
    /\ UNCHANGED <<input, message, groups, packed>>

(* Mutant: a length that is negative as an int is not refused.             *)
SkipDelimitedSigned ==
    /\ Unusual /\ WireType = LENGTH_DELIMITED
    /\ LET v == ReadVarint(TagEnd)
           size == Int32(v.value)
       IN  GoOn(v.ok /\ v.next + size - 1 <= Len(bytes), v.next + size)
    /\ UNCHANGED <<input, message, groups, packed>>

SkipDelimited ==
    /\ Unusual /\ WireType = LENGTH_DELIMITED
    /\ LET v == ReadVarint(TagEnd)
           size == Int32(v.value)
       IN  GoOn(v.ok /\ size >= 0 /\ v.next + size - 1 <= Len(bytes), v.next + size)
    /\ UNCHANGED <<input, message, groups, packed>>

StartGroup ==
    /\ Unusual /\ WireType = START_GROUP
    /\ LET deeper == Len(groups) < RecursionLimit
       IN  /\ groups' = IF deeper THEN Append(groups, Number) ELSE groups
           /\ GoOn(deeper, TagEnd)
    /\ UNCHANGED <<input, message, packed>>

EndGroup ==
    /\ Unusual /\ WireType = END_GROUP
    /\ LET matches == groups # <<>> /\ Last(groups) = Number
       IN  /\ groups' = IF matches THEN Front(groups) ELSE groups
           /\ GoOn(matches, TagEnd)
    /\ UNCHANGED <<input, message, packed>>

NoWireType ==
    /\ Unusual /\ WireType \in {6, 7}
    /\ GoOn(FALSE, pos)
    /\ UNCHANGED <<input, message, groups, packed>>

-----------------------------------------------------------------------------
MergeStep ==
    \/ \E n \in DOMAIN schema :
         ReadPrimitive(n) \/ ReadString(n) \/ ReadRepeated(n) \/ BeginPacked(n)
    \/ ReadPacked \/ EndPacked \/ EndOfFields
    \/ SkipVarint \/ SkipFixed \/ SkipDelimited \/ StartGroup \/ EndGroup
    \/ NoWireType

Returned == result # "busy" /\ UNCHANGED vars

Next == MergeStep \/ Returned

Spec == Init /\ [][Next]_vars

-----------------------------------------------------------------------------
ValuesOf(field) ==
    CASE field.rule = "repeated" -> Seq(Int32s)
      [] field.type = "string"   -> Seq(0..255)
      [] field.type = "bool"     -> BOOLEAN
      [] OTHER                   -> Int32s

TypeOK ==
    /\ schema \in Schemas /\ bytes \in Seq(0..255) /\ pos \in 1..(Len(bytes) + 1)
    /\ DOMAIN message = DOMAIN schema
    /\ \A n \in DOMAIN schema :
         message[n] \in [has : BOOLEAN, value : ValuesOf(schema[n])]
    /\ groups \in Seq(Nat) /\ Len(groups) <= RecursionLimit
    /\ packed \in [field : 0..Len(schema), last : Nat]
    /\ result \in {"busy", "true", "false"}

(* A message that arrives whole is read as it was sent, negative numbers   *)
(* and fields this program does not know included, and the parse succeeds. *)
RoundTrip ==
    input.source = "whole" /\ result # "busy" => result = "true" /\ message = input.sent

(* ByteSizeConsistencyError never happens: the buffer the senders allocate *)
(* by ByteSizeLong is exactly what SerializeToArray fills, and what the    *)
(* length in the header stands for.                                        *)
SizeIsLength ==
    input.source # "any" =>
      ByteSizeLong(schema, input.sent) = Len(SerializeToArray(schema, input.sent))

(* While the parse is inside of what was received of a message, no field   *)
(* has a value that was not sent: it has its own, or none yet, or of a     *)
(* list or a text the beginning.                                           *)
PartlyRead(field, value, whole) ==
    \/ value = whole \/ value = DefaultOf(field)
    \/ (field.rule = "repeated" \/ field.type = "string") /\ IsPrefix(value, whole)

ReceivedPartIsRight ==
    input.source = "cut" /\ pos <= input.received + 1 =>
      \A n \in DOMAIN schema : PartlyRead(schema[n], message[n].value, input.sent[n].value)

(* Whatever the bytes are, the parse ends: each step reads on, ends the    *)
(* parse or leaves a packed field, which must be entered by reading on.    *)
ParseMovesOn ==
    [][\/ result' # "busy" \/ pos' > pos
       \/ pos' = pos /\ packed # NotPacked /\ packed' = NotPacked]_vars
=============================================================================
