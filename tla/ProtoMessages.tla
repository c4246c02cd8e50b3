---------------------------- MODULE ProtoMessages ---------------------------
(***************************************************************************)
(* The messages of Protocols.proto, as the generated classes serialise     *)
(* them.  A message has a place for every field, in the order of the field *)
(* numbers: its has bit and its value.                                     *)
(*                                                                         *)
(* A byte is a number below 256, a text a sequence of bytes.  Integers are *)
(* narrower than in the code, where IntBits is 32, WideBits is 64 and      *)
(* MaxVarintBytes is 10: what matters is that a negative number is widened *)
(* before it is written, and that a reader keeps the low bits only.        *)
(***************************************************************************)
EXTENDS Integers, Sequences, FiniteSetsExt, SequencesExt

CONSTANTS IntBits, WideBits, MaxVarintBytes

(* An int is wider than a byte's seven bits, and holds any tag there is.   *)
ASSUME WidthAssumption ==
    /\ IntBits \in Nat \ {0} /\ 7 <= IntBits
    /\ WideBits \in Nat /\ IntBits <= WideBits
    /\ MaxVarintBytes \in Nat
    /\ 7 * (MaxVarintBytes - 1) < WideBits /\ WideBits <= 7 * MaxVarintBytes

Narrow == 2^IntBits
Wide   == 2^WideBits
Int32s == -(Narrow \div 2) .. (Narrow \div 2 - 1)
More   == 128       \* the bit of a byte that says that more bytes follow

-----------------------------------------------------------------------------
(* The classes: each field's type and rule, at its number.                 *)
Optional(type) == [type |-> type, rule |-> "optional"]
Required(type) == [type |-> type, rule |-> "required"]
Repeated(type) == [type |-> type, rule |-> "repeated"]

User_Login        == <<Optional("int32"), Optional("string"), Optional("string")>>
Enter_Channel     == <<Optional("int32"), Required("int32")>>
Change_Channel    == <<Optional("int32"), Required("int32")>>
Channel_Chatting  == <<Optional("int32"), Required("string")>>
Create_Room       == <<Optional("int32"), Required("int32")>>
Room_Chatting     == <<Optional("int32"), Required("string")>>
Enter_Room        == <<Optional("int32"), Required("int32"), Optional("bool")>>
Leave_Room        == <<Optional("int32"), Required("int32")>>
Notify_Exist_Room == <<Optional("int32"), Required("int32"), Optional("bool")>>
Notify_Enter_Room == <<Optional("int32")>>
Notify_Leave_Room == <<Optional("int32")>>
Room_List         == <<Optional("int32"), Repeated("int32"), Required("int32"),
                       Optional("int32")>>

Schemas ==
    {User_Login, Enter_Channel, Change_Channel, Channel_Chatting, Create_Room,
     Room_Chatting, Enter_Room, Leave_Room, Notify_Exist_Room, Notify_Enter_Room,
     Notify_Leave_Room, Room_List}

(* A cleared message.                                                      *)
DefaultOf(field) ==
    CASE field.rule = "repeated" \/ field.type = "string" -> <<>>
      [] field.rule # "repeated" /\ field.type = "int32"  -> 0
      [] field.rule # "repeated" /\ field.type = "bool"   -> FALSE

Cleared(schema) ==
    [n \in DOMAIN schema |-> [has |-> FALSE, value |-> DefaultOf(schema[n])]]

IsInitialized(schema, message) ==
    \A n \in DOMAIN schema : schema[n].rule = "required" => message[n].has

-----------------------------------------------------------------------------
(* Varints: seven bits to a byte, the low ones first.                      *)
VarintLength(v) == Min({n \in 1..MaxVarintBytes : v < 2^(7 * n)})

Varint(v) ==
    LET length == VarintLength(v)
    IN  [k \in 1..length |->
           ((v \div 2^(7 * (k - 1))) % More) + (IF k < length THEN More ELSE 0)]

(* An int32 is cast to 64 bits, and keeps its sign.                        *)
SignExtended(i) == IF i < 0 THEN Wide + i ELSE i

(* The size of a varint without writing it, by its highest bit.            *)
Log2Floor(v) == Max({n \in 0..(IntBits - 1) : 2^n <= v})

VarintSize32(v) == IF v < More THEN 1 ELSE (Log2Floor(v) * 9 + 73) \div 64

(* Mutant: the number is counted as it is, not as it is written.           *)
Int32SizeUnsigned(i) == VarintSize32(i % Narrow)

Int32Size(i) == IF i < 0 THEN MaxVarintBytes ELSE VarintSize32(i)

-----------------------------------------------------------------------------
VARINT == 0
FIXED64 == 1
LENGTH_DELIMITED == 2
START_GROUP == 3
END_GROUP == 4
FIXED32 == 5

MakeTag(number, wireType) == number * 8 + wireType

WriteInt32(n, i) == <<MakeTag(n, VARINT)>> \o Varint(SignExtended(i))

(* What is written for field n, if it is there.                            *)
WriteField(schema, n, place) ==
    CASE schema[n].rule = "repeated" ->
           FlattenSeq([i \in DOMAIN place.value |-> WriteInt32(n, place.value[i])])
      [] schema[n].rule # "repeated" /\ ~place.has -> <<>>
      [] OTHER ->
           CASE schema[n].type = "int32"  -> WriteInt32(n, place.value)
             [] schema[n].type = "bool"   ->
                  <<MakeTag(n, VARINT), IF place.value THEN 1 ELSE 0>>
             [] schema[n].type = "string" ->
                  <<MakeTag(n, LENGTH_DELIMITED)>>
                    \o Varint(Len(place.value)) \o place.value

Written(schema, message) ==
    [n \in DOMAIN schema |-> WriteField(schema, n, message[n])]

SerializeToArray(schema, message) == FlattenSeq(Written(schema, message))

(* The sum of sizes that are counted one by one.                           *)
Total(sizes) ==
    LET upTo[n \in 0..Len(sizes)] == IF n = 0 THEN 0 ELSE upTo[n - 1] + sizes[n]
    IN  upTo[Len(sizes)]

FieldSize(schema, n, place) ==
    CASE schema[n].rule = "repeated" ->
           Total([i \in DOMAIN place.value |-> 1 + Int32Size(place.value[i])])
      [] schema[n].rule # "repeated" /\ ~place.has -> 0
      [] OTHER ->
           CASE schema[n].type = "int32"  -> 1 + Int32Size(place.value)
             [] schema[n].type = "bool"   -> 1 + 1
             [] schema[n].type = "string" ->
                  1 + VarintSize32(Len(place.value)) + Len(place.value)

(* The size the senders allocate before they serialise.                    *)
ByteSizeLong(schema, message) ==
    Total([n \in DOMAIN schema |-> FieldSize(schema, n, message[n])])
=============================================================================
