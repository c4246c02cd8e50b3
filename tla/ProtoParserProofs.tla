-------------------------- MODULE ProtoParserProofs --------------------------
(***************************************************************************)
(* The parser's type invariant, its progress, that what it reads is what   *)
(* was sent, and that as many bytes are written as were counted, for       *)
(* integers of any width beyond a byte's, varints of any length, and       *)
(* messages and bytes of any kind and number.                              *)
(***************************************************************************)
EXTENDS ProtoParser, FiniteSetTheorems, SequenceTheorems, WellFoundedInduction, TLAPS

-----------------------------------------------------------------------------
(* Naturals: least elements, induction by sets, and powers of two.         *)
Below == OpToRel(<, Nat)

LEMMA LeastExists ==
    ASSUME NEW T, T \subseteq Nat, T # {}
    PROVE  \E x \in T : \A y \in T : x <= y
<1>1. IsWellFoundedOn(OpToRel(<, Nat), Nat)
  BY NatLessThanWellFounded
<1>2. IsWellFoundedOn(Below, Nat)
  BY <1>1 DEF Below
<1>3. \E x \in T : \A y \in T : ~ (<<y, x>> \in Below)
  BY <1>2, WFMin
<1>4. \A x, y \in Nat : y < x => <<y, x>> \in Below
  BY DEF Below, OpToRel
<1>5. PICK x \in T : \A y \in T : ~ (<<y, x>> \in Below)
  BY <1>3
<1>6. \A y \in T : x \in Nat /\ y \in Nat /\ ~(y < x)
  BY <1>4, <1>5
<1>7. \A y \in T : x <= y
  BY <1>6
<1>8. QED
  BY <1>7

LEMMA MinIsLeast ==
    ASSUME NEW T, T \subseteq Nat, T # {}
    PROVE  Min(T) \in T /\ \A y \in T : Min(T) <= y
BY LeastExists DEF Min

(* A set of naturals that has 0, and with every number the next, has all.  *)
LEMMA CountsThrough ==
    ASSUME NEW S, 0 \in S, \A n \in Nat : n \in S => n + 1 \in S
    PROVE  Nat \subseteq S
<1> SUFFICES ASSUME ~(Nat \subseteq S) PROVE FALSE
  OBVIOUS
<1>1. PICK x \in Nat \ S : \A y \in Nat \ S : x <= y
  <2>1. Nat \ S \subseteq Nat /\ Nat \ S # {}
    OBVIOUS
  <2>2. QED
    BY <2>1, LeastExists
<1>2. x # 0 /\ x - 1 \in Nat /\ (x - 1) + 1 = x
  BY <1>1
<1>3. x - 1 \in S
  BY <1>1, <1>2
<1>4. QED
  BY <1>1, <1>2, <1>3

LEMMA PowerOfTwo == \A n \in Nat : 2^n \in Nat /\ 2^n >= 1
<1> SUFFICES ASSUME NEW n \in Nat PROVE 2^n \in Nat /\ 2^n >= 1
  OBVIOUS
<1>1. IsFiniteSet(1..n) /\ Cardinality(1..n) = n
  BY FS_Interval
<1>2. IsFiniteSet(SUBSET (1..n)) /\ Cardinality(SUBSET (1..n)) = 2^n
  BY <1>1, FS_SUBSET
<1>3. 2^n \in Nat
  BY <1>2, FS_CardinalityType
<1>4. 2^n # 0
  BY <1>2, FS_EmptySet
<1>5. QED
  BY <1>3, <1>4

(* Half of the subsets of 1..n+1 have n + 1 in them.                       *)
LEMMA Doubling == \A n \in Nat : 2^(n + 1) = 2^n + 2^n
<1> SUFFICES ASSUME NEW n \in Nat PROVE 2^(n + 1) = 2^n + 2^n
  OBVIOUS
<1> DEFINE Without == SUBSET (1..n)
           With    == {A \union {n + 1} : A \in Without}
<1>1. IsFiniteSet(1..n) /\ Cardinality(1..n) = n
  BY FS_Interval
<1>2. IsFiniteSet(1..(n + 1)) /\ Cardinality(1..(n + 1)) = n + 1
  BY FS_Interval
<1>3. IsFiniteSet(Without) /\ Cardinality(Without) = 2^n
  BY <1>1, FS_SUBSET
<1>4. Cardinality(SUBSET (1..(n + 1))) = 2^(n + 1)
  BY <1>2, FS_SUBSET
<1>5. IsFiniteSet(With) /\ Cardinality(With) = 2^n
  <2> DEFINE add == [A \in Without |-> A \union {n + 1}]
  <2>0. \A A \in Without : n + 1 \notin A
    OBVIOUS
  <2>1. add \in Injection(Without, With)
    <3>1. add \in [Without -> With]
      OBVIOUS
    <3>2. \A A, B \in Without : add[A] = add[B] => A = B
      <4> TAKE A, B \in Without
      <4>1. add[A] = A \union {n + 1} /\ add[B] = B \union {n + 1}
        OBVIOUS
      <4>2. A = add[A] \ {n + 1} /\ B = add[B] \ {n + 1}
        BY <2>0, <4>1
      <4>3. QED
        BY <4>2
    <3>3. QED
      BY <3>1, <3>2 DEF Injection, IsInjective
  <2>2. add \in Surjection(Without, With)
    BY DEF Surjection
  <2>3. QED
    BY <1>3, <2>1, <2>2, FS_Surjection
<1>6. SUBSET (1..(n + 1)) = Without \union With
  <2>1. 1..(n + 1) = (1..n) \union {n + 1}
    OBVIOUS
  <2>2. ASSUME NEW A \in SUBSET (1..(n + 1)) PROVE A \in Without \union With
    <3>1. CASE n + 1 \in A
      <4>1. A \ {n + 1} \in Without /\ A = (A \ {n + 1}) \union {n + 1}
        BY <2>1, <3>1
      <4>2. QED
        BY <4>1
    <3>2. CASE n + 1 \notin A
      BY <2>1, <3>2
    <3>3. QED
      BY <3>1, <3>2
  <2>3. \A A \in Without : A \subseteq 1..(n + 1) /\ A \union {n + 1} \subseteq 1..(n + 1)
    BY <2>1
  <2>4. \A A \in Without \union With : A \subseteq 1..(n + 1)
    BY <2>3
  <2>5. QED
    BY <2>2, <2>4
<1>7. Without \intersect With = {}
  OBVIOUS
<1>8. Cardinality(Without \intersect With) = 0
  BY <1>7, FS_EmptySet
<1>9. Cardinality(Without \union With)
        = Cardinality(Without) + Cardinality(With) - Cardinality(Without \intersect With)
  BY <1>3, <1>5, FS_Union
<1>10. PICK half : half = 2^n
  OBVIOUS
<1>11. half \in Nat
  BY <1>10, PowerOfTwo
<1>12. Cardinality(Without) = half /\ Cardinality(With) = half
  BY <1>3, <1>5, <1>10
<1>13. Cardinality(SUBSET (1..(n + 1))) = half + half
  <2> HIDE DEF With, Without
  <2>1. Cardinality(Without \union With) = half + half - 0
    BY <1>8, <1>9, <1>12
  <2>2. Cardinality(Without \union With) = half + half
    BY <1>11, <2>1
  <2>3. QED
    BY <1>6, <2>2
<1>14. 2^(n + 1) = half + half
  BY <1>4, <1>13
<1>15. QED
  BY <1>10, <1>14

(* The widths of integers are even numbers.                                *)
LEMMA Widths ==
    /\ Narrow \in Nat /\ Wide \in Nat \ {0}
    /\ \E half \in Nat \ {0} : Narrow = half + half /\ Narrow \div 2 = half
<1>1. IntBits - 1 \in Nat /\ IntBits = (IntBits - 1) + 1 /\ WideBits \in Nat
  BY WidthAssumption
<1>2. PICK half : half = 2^(IntBits - 1)
  OBVIOUS
<1>3. half \in Nat /\ half >= 1 /\ 2^WideBits \in Nat /\ 2^WideBits >= 1
  BY <1>1, <1>2, PowerOfTwo
<1>4. 2^IntBits = half + half
  <2>1. 2^((IntBits - 1) + 1) = half + half
    BY <1>1, <1>2, Doubling
  <2>2. QED
    BY <1>1, <2>1
<1>5. Narrow = half + half /\ Wide \in Nat /\ Wide # 0
  BY <1>3, <1>4 DEF Narrow, Wide
<1>6. (half + half) \div 2 = half
  BY <1>3
<1>7. QED
  BY <1>3, <1>5, <1>6

-----------------------------------------------------------------------------
(* A varint's value: one more digit below, More times the rest above.      *)
LEMMA DigitType == \A b \in 0..255 : (b % More) \in Nat
BY DEF More

LEMMA DigitsExist ==
    ASSUME NEW s \in Seq(0..255), NEW p \in Nat \ {0}, NEW last \in Nat, last <= Len(s)
    PROVE  \E f \in [p..(last + 1) -> Nat] :
             f = [k \in p..(last + 1) |->
                    IF k > last THEN 0 ELSE (s[k] % More) + More * f[k + 1]]
<1> DEFINE Digit(f, k) == IF k > last THEN 0 ELSE (s[k] % More) + More * f[k + 1]
           Reaches(d, f) == \A k \in p..(last + 1) :
                              k + d > last => f[k] = Digit(f, k)
           Depths == {d \in Nat : \E f \in [p..(last + 1) -> Nat] : Reaches(d, f)}
<1>1. 0 \in Depths
  <2>1. [k \in p..(last + 1) |-> 0] \in [p..(last + 1) -> Nat]
    OBVIOUS
  <2>2. Reaches(0, [k \in p..(last + 1) |-> 0])
    OBVIOUS
  <2>3. QED
    BY <2>1, <2>2
<1>2. ASSUME NEW d \in Nat, d \in Depths PROVE d + 1 \in Depths
  <2>1. PICK f \in [p..(last + 1) -> Nat] : Reaches(d, f)
    BY <1>2
  <2> DEFINE g == [k \in p..(last + 1) |-> Digit(f, k)]
  <2>2. \A k \in p..(last + 1) : Digit(f, k) \in Nat
    <3> TAKE k \in p..(last + 1)
    <3>1. CASE k > last
      BY <3>1
    <3>2. CASE ~(k > last)
      <4>1. k \in 1..Len(s) /\ k + 1 \in p..(last + 1)
        BY <3>2
      <4>2. s[k] \in 0..255
        BY <4>1, ElementOfSeq
      <4>3. (s[k] % More) \in Nat /\ f[k + 1] \in Nat
        BY <4>1, <4>2, DigitType
      <4>4. More * f[k + 1] \in Nat
        BY <4>3 DEF More
      <4>5. QED
        BY <3>2, <4>3, <4>4
    <3>3. QED
      BY <3>1, <3>2
  <2>3. g \in [p..(last + 1) -> Nat]
    BY <2>2
  <2>4. \A k \in p..(last + 1) : k + d > last => g[k] = f[k]
    BY <2>1
  <2>5. Reaches(d + 1, g)
    <3> SUFFICES ASSUME NEW k \in p..(last + 1), k + (d + 1) > last
                 PROVE  g[k] = Digit(g, k)
      OBVIOUS
    <3>1. CASE k > last
      BY <3>1
    <3>2. CASE ~(k > last)
      <4>1. k + 1 \in p..(last + 1) /\ (k + 1) + d > last
        BY <3>2
      <4>2. g[k + 1] = f[k + 1]
        BY <2>4, <4>1
      <4>3. g[k] = Digit(f, k)
        OBVIOUS
      <4>4. QED
        BY <4>2, <4>3
    <3>3. QED
      BY <3>1, <3>2
  <2>6. d + 1 \in Nat
    OBVIOUS
  <2>7. QED
    BY ONLY <2>3, <2>5, <2>6
<1>3. last \in Depths
  <2> HIDE DEF Depths
  <2>1. Nat \subseteq Depths
    BY <1>1, <1>2, CountsThrough
  <2>2. QED
    BY <2>1
<1>4. PICK f \in [p..(last + 1) -> Nat] : Reaches(last, f)
  BY <1>3
<1>5. \A k \in p..(last + 1) : f[k] = Digit(f, k)
  BY <1>4
<1>6. f = [k \in p..(last + 1) |-> Digit(f, k)]
  BY <1>5
<1>7. QED
  BY <1>6

LEMMA DigitsType ==
    ASSUME NEW p \in Nat \ {0}, NEW last \in Nat, bytes \in Seq(0..255),
           last <= Len(bytes), p <= last + 1
    PROVE  Digits(p, last) \in 0..(Wide - 1)
<1> DEFINE Sums(f) == f = [k \in p..(last + 1) |->
                             IF k > last THEN 0 ELSE (bytes[k] % More) + More * f[k + 1]]
           value == CHOOSE f : Sums(f)
<1>1. Digits(p, last) = value[p] % Wide
  BY DEF Digits
<1>2. \E f \in [p..(last + 1) -> Nat] : Sums(f)
  BY DigitsExist
<1>3. Sums(value)
  BY <1>2
<1> HIDE DEF value
<1> DEFINE Typed == {d \in Nat : \A k \in p..(last + 1) : k + d > last => value[k] \in Nat}
<1>4. 0 \in Typed
  <2>1. \A k \in p..(last + 1) : k > last => value[k] = 0
    BY <1>3
  <2>2. QED
    BY <2>1
<1>5. ASSUME NEW d \in Nat, d \in Typed PROVE d + 1 \in Typed
  <2> SUFFICES ASSUME NEW k \in p..(last + 1), k + (d + 1) > last PROVE value[k] \in Nat
    OBVIOUS
  <2>1. CASE k > last
    BY <1>3, <2>1
  <2>2. CASE ~(k > last)
    <3>1. k \in 1..Len(bytes) /\ k + 1 \in p..(last + 1) /\ (k + 1) + d > last
      BY <2>2
    <3>2. bytes[k] \in 0..255
      BY <3>1, ElementOfSeq
    <3>3. (bytes[k] % More) \in Nat /\ value[k + 1] \in Nat
      BY <1>5, <3>1, <3>2, DigitType
    <3>4. value[k] = (bytes[k] % More) + More * value[k + 1]
      BY <1>3, <2>2
    <3>5. QED
      BY <3>3, <3>4 DEF More
  <2>3. QED
    BY <2>1, <2>2
<1>6. last + 1 \in Typed
  <2> HIDE DEF Typed
  <2>1. Nat \subseteq Typed
    BY <1>4, <1>5, CountsThrough
  <2>2. QED
    BY <2>1
<1>7. value[p] \in Nat
  BY <1>6
<1>8. QED
  BY <1>1, <1>7, Widths

LEMMA MinPair == \A x, y \in Int : Min({x, y}) = IF x <= y THEN x ELSE y
BY DEF Min

LEMMA Int32Type == \A v \in Nat : Int32(v) \in Int32s
<1> SUFFICES ASSUME NEW v \in Nat PROVE Int32(v) \in Int32s
  OBVIOUS
<1>1. PICK half \in Nat \ {0} : Narrow = half + half /\ Narrow \div 2 = half
  BY Widths
<1>2. PICK low \in 0..(half + half - 1) : low = v % Narrow
  BY <1>1
<1>3. Int32(v) = IF low >= half THEN low - (half + half) ELSE low
  BY <1>1, <1>2 DEF Int32
<1>4. Int32s = -half..(half - 1)
  BY <1>1 DEF Int32s
<1>5. QED
  BY <1>3, <1>4

(* Where reads stop is no further than the bytes.                          *)
BytesTyped == bytes \in Seq(0..255) /\ packed \in [field : Nat, last : Nat]

LEMMA LimitType ==
    ASSUME BytesTyped PROVE Limit \in Nat /\ Limit <= Len(bytes)
<1>1. PICK n \in Nat : n = Len(bytes)
  BY DEF BytesTyped
<1>2. PICK q \in Nat : q = packed.last
  BY DEF BytesTyped
<1>3. Limit = n \/ Limit = Min({q, n})
  BY <1>1, <1>2 DEF Limit
<1>4. QED
  BY <1>1, <1>3, MinPair

(* A varint that is read lies between its first byte and the limit.        *)
LEMMA VarintRead ==
    ASSUME BytesTyped, NEW p \in Nat \ {0}
    PROVE  LET v == ReadVarint(p)
           IN  /\ v.ok \in BOOLEAN /\ v.value \in Nat /\ v.value < Wide
               /\ ~v.ok => v.value = 0 /\ v.next = p
               /\ v.ok => v.next \in Nat /\ v.next > p /\ v.next <= Len(bytes) + 1
<1> DEFINE v == ReadVarint(p)
<1>1. PICK limit \in Nat : limit = Limit /\ limit <= Len(bytes)
  BY LimitType
<1>2. PICK upto \in Int : upto = Min({p + MaxVarintBytes - 1, limit}) /\ upto <= limit
  BY MinPair, WidthAssumption
<1>3. LastBytes(p) = {k \in p..upto : bytes[k] < More}
  BY <1>1, <1>2 DEF LastBytes
<1>4. CASE LastBytes(p) = {}
  BY <1>4, Widths DEF ReadVarint
<1>5. CASE LastBytes(p) # {}
  <2>1. LastBytes(p) \subseteq Nat
    BY <1>3
  <2>2. PICK last \in LastBytes(p) : last = Min(LastBytes(p))
    BY <1>5, <2>1, MinIsLeast
  <2>3. last \in p..upto /\ last \in Nat /\ last <= Len(bytes)
    BY <1>1, <1>2, <1>3, <2>2
  <2>4. Digits(p, last) \in 0..(Wide - 1)
    BY <2>3, DigitsType DEF BytesTyped
  <2>5. v = [ok |-> TRUE, value |-> Digits(p, last), next |-> last + 1]
    BY <1>5, <2>2 DEF ReadVarint
  <2>6. QED
    BY <2>3, <2>4, <2>5, Widths
<1>6. QED
  BY <1>4, <1>5

(* A tag is 0 or was read, and so are the parts it has.                    *)
LEMMA TagRead ==
    ASSUME BytesTyped, pos \in 1..(Len(bytes) + 1)
    PROVE  /\ Tag \in Nat /\ Number \in Nat /\ WireType \in 0..7
           /\ TagEnd \in Nat \ {0} /\ TagEnd <= Len(bytes) + 1
           /\ Tag # 0 => TagEnd > pos
<1>1. pos \in Nat \ {0} /\ Len(bytes) \in Nat
  BY DEF BytesTyped
<1> DEFINE v == ReadVarint(pos)
<1>2. /\ v.ok \in BOOLEAN /\ v.value \in Nat
      /\ ~v.ok => v.value = 0 /\ v.next = pos
      /\ v.ok => v.next \in Nat /\ v.next > pos /\ v.next <= Len(bytes) + 1
  BY <1>1, VarintRead
<1>3. Tag = v.value % Narrow /\ TagEnd = v.next
  BY DEF Tag, TagEnd
<1> HIDE DEF v
<1>4. PICK narrow \in Nat \ {0} : narrow = Narrow
  BY Widths
<1>5. Tag \in Nat /\ (v.value = 0 => Tag = 0)
  BY <1>2, <1>3, <1>4
<1>6. Number \in Nat /\ WireType \in 0..7
  BY <1>5 DEF Number, WireType
<1>7. QED
  BY <1>1, <1>2, <1>3, <1>5, <1>6

-----------------------------------------------------------------------------
(* The type invariant.                                                     *)
Fields ==
    {field \in [type : {"int32", "string", "bool"}, rule : {"optional", "required", "repeated"}] :
       field.rule = "repeated" => field.type = "int32"}

LEMMA SchemaFields == \A class \in Schemas : class \in Seq(Fields)
<1>1. /\ Optional("int32") \in Fields /\ Optional("string") \in Fields
      /\ Optional("bool") \in Fields /\ Required("int32") \in Fields
      /\ Required("string") \in Fields /\ Repeated("int32") \in Fields
  BY DEF Optional, Required, Repeated, Fields
<1> HIDE DEF Fields
<1>2. /\ User_Login \in Seq(Fields) /\ Enter_Channel \in Seq(Fields)
      /\ Change_Channel \in Seq(Fields) /\ Channel_Chatting \in Seq(Fields)
  BY <1>1 DEF User_Login, Enter_Channel, Change_Channel, Channel_Chatting
<1>3. /\ Create_Room \in Seq(Fields) /\ Room_Chatting \in Seq(Fields)
      /\ Enter_Room \in Seq(Fields) /\ Leave_Room \in Seq(Fields)
  BY <1>1 DEF Create_Room, Room_Chatting, Enter_Room, Leave_Room
<1>4. /\ Notify_Exist_Room \in Seq(Fields) /\ Notify_Enter_Room \in Seq(Fields)
      /\ Notify_Leave_Room \in Seq(Fields) /\ Room_List \in Seq(Fields)
  BY <1>1 DEF Notify_Exist_Room, Notify_Enter_Room, Notify_Leave_Room, Room_List
<1>5. QED
  BY <1>2, <1>3, <1>4 DEF Schemas

(* What a field may hold, kind by kind.                                    *)
LEMMA ValuesByKind ==
    ASSUME NEW field \in Fields
    PROVE  /\ field.rule = "repeated" => ValuesOf(field) = Seq(Int32s)
           /\ field.type = "string"   => ValuesOf(field) = Seq(0..255)
           /\ field.type = "bool"     => ValuesOf(field) = BOOLEAN
           /\ field.rule # "repeated" /\ field.type = "int32" => ValuesOf(field) = Int32s
BY DEF Fields, ValuesOf

(* Only a list is ever packed.                                             *)
PackedIsList ==
    packed # NotPacked =>
      packed.field \in DOMAIN schema /\ schema[packed.field].rule = "repeated"

IInv == TypeOK /\ PackedIsList

LEMMA TypesOf ==
    ASSUME TypeOK
    PROVE  /\ BytesTyped /\ pos \in 1..(Len(bytes) + 1) /\ Len(bytes) \in Nat
           /\ schema \in Seq(Fields) /\ DOMAIN schema = 1..Len(schema)
BY SchemaFields DEF TypeOK, BytesTyped

(* What a read changes besides the message and the fields around it.       *)
LEMMA GoOnType ==
    ASSUME TypeOK, input' = input, NEW ok \in BOOLEAN, NEW next, GoOn(ok, next),
           ok => next \in 1..(Len(bytes) + 1)
    PROVE  /\ schema' \in Schemas /\ bytes' \in Seq(0..255)
           /\ pos' \in 1..(Len(bytes') + 1)
           /\ result' \in {"busy", "true", "false"}
<1>1. schema' = schema /\ bytes' = bytes
  BY DEF schema, bytes
<1>2. Len(bytes) \in Nat
  BY TypesOf
<1>3. QED
  BY <1>1, <1>2 DEF TypeOK, GoOn

LEMMA SetValueType ==
    ASSUME TypeOK, input' = input, NEW n \in DOMAIN schema,
           NEW value \in ValuesOf(schema[n]), SetValue(n, value)
    PROVE  /\ DOMAIN message' = DOMAIN schema'
           /\ \A k \in DOMAIN schema' : message'[k] \in [has : BOOLEAN, value : ValuesOf(schema'[k])]
<1>1. schema' = schema
  BY DEF schema
<1>2. /\ DOMAIN message = DOMAIN schema
      /\ \A k \in DOMAIN schema : message[k] \in [has : BOOLEAN, value : ValuesOf(schema[k])]
  BY DEF TypeOK
<1>3. message' = [message EXCEPT ![n] = [has |-> TRUE, value |-> value]]
  BY DEF SetValue
<1>4. DOMAIN message' = DOMAIN schema
  BY <1>2, <1>3
<1>5. \A k \in DOMAIN schema : message'[k] = IF k = n THEN [has |-> TRUE, value |-> value] ELSE message[k]
  BY <1>2, <1>3
<1>6. [has |-> TRUE, value |-> value] \in [has : BOOLEAN, value : ValuesOf(schema[n])]
  OBVIOUS
<1>7. QED
  BY <1>1, <1>2, <1>4, <1>5, <1>6

LEMMA AddType ==
    ASSUME TypeOK, input' = input, NEW n \in DOMAIN schema, schema[n].rule = "repeated",
           NEW v, v.ok => v.value \in Nat, v.ok \in BOOLEAN, Add(n, v)
    PROVE  /\ DOMAIN message' = DOMAIN schema'
           /\ \A k \in DOMAIN schema' : message'[k] \in [has : BOOLEAN, value : ValuesOf(schema'[k])]
<1>1. schema' = schema
  BY DEF schema
<1>2. /\ DOMAIN message = DOMAIN schema
      /\ \A k \in DOMAIN schema : message[k] \in [has : BOOLEAN, value : ValuesOf(schema[k])]
  BY DEF TypeOK
<1>3. CASE ~v.ok
  BY <1>1, <1>2, <1>3 DEF Add
<1>4. CASE v.ok
  <2>1. PICK i \in Int32s : i = Int32(v.value)
    BY <1>4, Int32Type
  <2>2. ValuesOf(schema[n]) = Seq(Int32s)
    BY TypesOf, ValuesByKind
  <2>3. PICK has \in BOOLEAN, list \in Seq(Int32s) :
               message[n] = [has |-> has, value |-> list]
    BY <1>2, <2>2
  <2> DEFINE longer == [has |-> has, value |-> Append(list, i)]
  <2>4. message' = [message EXCEPT ![n].value = Append(@, i)]
    BY <1>4, <2>1 DEF Add
  <2>5. /\ DOMAIN message' = DOMAIN schema
        /\ \A k \in DOMAIN schema : message'[k] = IF k = n THEN longer ELSE message[k]
    <3>1. [message[n] EXCEPT !.value = Append(message[n].value, i)] = longer
      BY <2>3
    <3>2. message' = [message EXCEPT ![n] = [message[n] EXCEPT !.value = Append(message[n].value, i)]]
      BY <2>4
    <3>3. message' = [message EXCEPT ![n] = longer]
      BY <3>1, <3>2
    <3>4. QED
      BY <1>2, <3>3
  <2>6. longer \in [has : BOOLEAN, value : ValuesOf(schema[n])]
    BY <2>2, <2>3
  <2> HIDE DEF longer
  <2>7. QED
    BY <1>1, <1>2, <2>5, <2>6
<1>5. QED
  BY <1>3, <1>4

(* The varint behind a tag.                                                *)
LEMMA ArgumentRead ==
    ASSUME TypeOK
    PROVE  LET v == ReadVarint(TagEnd)
           IN  /\ v.ok \in BOOLEAN /\ v.value \in Nat
               /\ v.ok => v.next \in 1..(Len(bytes) + 1) /\ v.next > TagEnd
<1>1. BytesTyped /\ TagEnd \in Nat \ {0} /\ Len(bytes) \in Nat
  BY TypesOf, TagRead
<1> DEFINE v == ReadVarint(TagEnd)
<1>2. /\ v.ok \in BOOLEAN /\ v.value \in Nat
      /\ v.ok => v.next \in Nat /\ v.next > TagEnd /\ v.next <= Len(bytes) + 1
  BY <1>1, VarintRead
<1> HIDE DEF v
<1>3. v.ok => v.next \in 1..(Len(bytes) + 1)
  BY <1>1, <1>2
<1>4. v.ok \in BOOLEAN /\ v.value \in Nat /\ (v.ok => v.next \in 1..(Len(bytes) + 1) /\ v.next > TagEnd)
  BY <1>2, <1>3
<1>5. QED
  BY <1>4 DEF v

MessageOK ==
    /\ DOMAIN message = DOMAIN schema
    /\ \A n \in DOMAIN schema : message[n] \in [has : BOOLEAN, value : ValuesOf(schema[n])]

PositionOK ==
    /\ schema \in Schemas /\ bytes \in Seq(0..255) /\ pos \in 1..(Len(bytes) + 1)
    /\ result \in {"busy", "true", "false"}

GroupsOK == groups \in Seq(Nat) /\ Len(groups) <= RecursionLimit

PackedOK == packed \in [field : 0..Len(schema), last : Nat] /\ PackedIsList

LEMMA Parts == IInv => MessageOK /\ PositionOK /\ GroupsOK /\ PackedOK
BY DEF IInv, TypeOK, MessageOK, PositionOK, GroupsOK, PackedOK

(* A part of the invariant is kept where its variables are, and every step *)
(* keeps the input.                                                        *)
LEMMA Together ==
    ASSUME IInv, input' = input, PositionOK',
           message' = message \/ MessageOK',
           groups' = groups \/ GroupsOK',
           packed' = packed \/ PackedOK'
    PROVE  IInv'
<1>1. MessageOK /\ GroupsOK /\ PackedOK
  BY Parts
<1>2. schema' = schema
  BY DEF schema
<1>3. MessageOK'
  BY <1>1, <1>2 DEF MessageOK
<1>4. GroupsOK'
  BY <1>1 DEF GroupsOK
<1>5. PackedOK'
  BY <1>1, <1>2 DEF PackedOK, PackedIsList, NotPacked
<1>6. QED
  BY <1>3, <1>4, <1>5 DEF IInv, TypeOK, MessageOK, PositionOK, GroupsOK, PackedOK

LEMMA PrimitiveKeepsType ==
    ASSUME IInv, NEW n \in DOMAIN schema, ReadPrimitive(n) PROVE IInv'
<1> DEFINE v == ReadVarint(TagEnd)
<1>1. /\ v.ok \in BOOLEAN /\ v.value \in Nat
      /\ v.ok => v.next \in 1..(Len(bytes) + 1)
  BY ArgumentRead, TypesOf DEF IInv
<1>2. /\ input' = input /\ groups' = groups /\ packed' = packed
      /\ Single(n) /\ Expects(n, VARINT) /\ GoOn(v.ok, v.next)
      /\ SetValue(n, CASE ~v.ok -> message[n].value
                       [] v.ok /\ schema[n].type = "int32" -> Int32(v.value)
                       [] v.ok /\ schema[n].type = "bool"  -> v.value # 0)
  BY DEF ReadPrimitive, Known
<1> HIDE DEF v
<1>3. schema[n] \in Fields /\ schema[n].rule # "repeated"
  BY <1>2, TypesOf DEF IInv, Single
<1>4. schema[n].type \in {"int32", "bool"}
  BY <1>2, <1>3 DEF Expects, Fields, VARINT, LENGTH_DELIMITED
<1>5. message[n].value \in ValuesOf(schema[n])
  BY DEF IInv, TypeOK
<1>6. PICK value \in ValuesOf(schema[n]) : SetValue(n, value)
  <2>1. CASE ~v.ok
    BY <1>2, <1>5, <2>1
  <2>2. CASE v.ok /\ schema[n].type = "int32"
    BY <1>1, <1>2, <1>3, <2>2, Int32Type, ValuesByKind
  <2>3. CASE v.ok /\ schema[n].type = "bool"
    BY <1>1, <1>2, <1>3, <2>3, ValuesByKind
  <2>4. QED
    BY <1>1, <1>4, <2>1, <2>2, <2>3
<1>7. MessageOK'
  BY <1>2, <1>6, SetValueType DEF IInv, MessageOK
<1>8. PositionOK'
  BY <1>1, <1>2, GoOnType DEF IInv, PositionOK
<1>9. QED
  BY <1>2, <1>7, <1>8, Together

LEMMA StringKeepsType ==
    ASSUME IInv, NEW n \in DOMAIN schema, ReadString(n) PROVE IInv'
<1> DEFINE v    == ReadVarint(TagEnd)
           size == Int32(v.value)
           left == Len(bytes) - v.next + 1
<1>1. /\ v.ok \in BOOLEAN /\ v.value \in Nat
      /\ v.ok => v.next \in 1..(Len(bytes) + 1)
  BY ArgumentRead, TypesOf DEF IInv
<1>2. size \in Int
  BY <1>1, Int32Type, Widths DEF Int32s
<1>3. /\ input' = input /\ groups' = groups /\ packed' = packed
      /\ Single(n) /\ Expects(n, LENGTH_DELIMITED)
      /\ IF v.ok /\ size >= 0
           THEN /\ SetValue(n, SubSeq(bytes, v.next, v.next + Min({size, left}) - 1))
                /\ GoOn(size <= left, v.next + size)
           ELSE SetValue(n, message[n].value) /\ GoOn(FALSE, pos)
  BY DEF ReadString, Known
<1>4. schema[n] \in Fields /\ schema[n].rule # "repeated"
  BY <1>3, TypesOf DEF IInv, Single
<1>5. schema[n].type = "string"
  BY <1>3, <1>4 DEF Expects, Fields, VARINT, LENGTH_DELIMITED
<1>6. CASE v.ok /\ size >= 0
  <2>1. PICK next \in 1..(Len(bytes) + 1) : next = v.next
    BY <1>1, <1>6
  <2>2. PICK s \in Nat : s = size
    BY <1>2, <1>6
  <2>3. bytes \in Seq(0..255) /\ Len(bytes) \in Nat
    BY TypesOf DEF IInv, BytesTyped
  <2> HIDE DEF v, size
  <2>4. left = Len(bytes) - next + 1 /\ left \in Nat
    BY <2>1, <2>3
  <2>5. PICK m \in Nat : m = Min({size, left}) /\ m <= left
    BY <2>2, <2>4, MinPair
  <2>6. SubSeq(bytes, next, next + m - 1) \in Seq(0..255)
    <3>1. \A i \in next..(next + m - 1) : i \in 1..Len(bytes)
      BY <2>1, <2>3, <2>4, <2>5
    <3>2. \A i \in next..(next + m - 1) : bytes[i] \in 0..255
      BY <2>3, <3>1, ElementOfSeq
    <3>3. next \in Int /\ next + m - 1 \in Int
      BY <2>1, <2>3, <2>5
    <3>4. QED
      BY <3>2, <3>3, SubSeqProperties
  <2>7. SubSeq(bytes, next, next + m - 1) \in ValuesOf(schema[n])
    BY <1>4, <1>5, <2>6, ValuesByKind
  <2>8. SetValue(n, SubSeq(bytes, next, next + m - 1)) /\ GoOn(s <= left, next + s)
    BY <1>3, <1>6, <2>1, <2>2, <2>5
  <2>9. MessageOK'
    BY <1>3, <2>7, <2>8, SetValueType DEF IInv, MessageOK
  <2>10. (s <= left) \in BOOLEAN /\ (s <= left => next + s \in 1..(Len(bytes) + 1))
    BY <2>1, <2>3, <2>4
  <2>11. PositionOK'
    BY <1>3, <2>8, <2>10, GoOnType DEF IInv, PositionOK
  <2>12. QED
    BY <1>3, <2>9, <2>11, Together
<1>7. CASE ~(v.ok /\ size >= 0)
  <2>1. message[n].value \in ValuesOf(schema[n])
    BY DEF IInv, TypeOK
  <2>2. SetValue(n, message[n].value) /\ GoOn(FALSE, pos)
    BY <1>3, <1>7
  <2>3. MessageOK'
    BY <1>3, <2>1, <2>2, SetValueType DEF IInv, MessageOK
  <2>4. PositionOK'
    BY <1>3, <2>2, GoOnType DEF IInv, PositionOK
  <2>5. QED
    BY <1>3, <2>3, <2>4, Together
<1>8. QED
  BY <1>6, <1>7

LEMMA RepeatedKeepsType ==
    ASSUME IInv, NEW n \in DOMAIN schema, ReadRepeated(n) PROVE IInv'
<1> DEFINE v == ReadVarint(TagEnd)
<1>1. /\ v.ok \in BOOLEAN /\ v.value \in Nat
      /\ v.ok => v.next \in 1..(Len(bytes) + 1)
  BY ArgumentRead DEF IInv
<1>2. /\ input' = input /\ groups' = groups /\ packed' = packed
      /\ ~Single(n) /\ Add(n, v) /\ GoOn(v.ok, v.next)
  BY DEF ReadRepeated, Add
<1> HIDE DEF v
<1>3. MessageOK'
  BY <1>1, <1>2, AddType DEF IInv, MessageOK, Single
<1>4. PositionOK'
  BY <1>1, <1>2, GoOnType DEF IInv, PositionOK
<1>5. QED
  BY <1>2, <1>3, <1>4, Together

LEMMA BeginPackedKeepsType ==
    ASSUME IInv, NEW n \in DOMAIN schema, BeginPacked(n) PROVE IInv'
<1> DEFINE v    == ReadVarint(TagEnd)
           fits == v.ok /\ v.value <= IntMax
           last == v.next + v.value - 1
<1>1. /\ v.ok \in BOOLEAN /\ v.value \in Nat
      /\ v.ok => v.next \in 1..(Len(bytes) + 1)
  BY ArgumentRead DEF IInv
<1>2. /\ input' = input /\ groups' = groups /\ message' = message
      /\ ~Single(n) /\ GoOn(fits, v.next)
      /\ packed' = IF fits /\ last < IntMax THEN [field |-> n, last |-> last] ELSE NotPacked
  BY DEF BeginPacked
<1> HIDE DEF v
<1>3. PositionOK'
  BY <1>1, <1>2, GoOnType DEF IInv, PositionOK
<1>4. PackedOK'
  <2>1. schema' = schema /\ DOMAIN schema = 1..Len(schema) /\ Len(schema) \in Nat
    BY <1>2, TypesOf DEF schema, IInv
  <2>2. CASE fits /\ last < IntMax
    <3>1. last \in Nat
      BY <1>1, <2>2
    <3>2. packed'.field = n /\ packed' \in [field : 0..Len(schema), last : Nat]
      BY <1>2, <2>1, <2>2, <3>1
    <3>3. QED
      BY <1>2, <2>1, <3>2 DEF PackedOK, PackedIsList, Single
  <2>3. CASE ~(fits /\ last < IntMax)
    BY <1>2, <2>1, <2>3 DEF PackedOK, PackedIsList, NotPacked
  <2>4. QED
    BY <2>2, <2>3
<1>5. QED
  BY <1>2, <1>3, <1>4, Together

LEMMA PackedKeepsType ==
    ASSUME IInv, ReadPacked PROVE IInv'
<1> DEFINE v == ReadVarint(pos)
<1>1. BytesTyped /\ pos \in Nat \ {0} /\ Len(bytes) \in Nat
  BY TypesOf DEF IInv
<1>2. /\ v.ok \in BOOLEAN /\ v.value \in Nat
      /\ v.ok => v.next \in Nat /\ v.next > pos /\ v.next <= Len(bytes) + 1
  BY <1>1, VarintRead
<1>3. /\ input' = input /\ groups' = groups /\ packed' = packed
      /\ packed # NotPacked /\ Add(packed.field, v) /\ GoOn(v.ok, v.next)
  BY DEF ReadPacked, Add
<1> HIDE DEF v
<1>4. packed.field \in DOMAIN schema /\ schema[packed.field].rule = "repeated"
  BY <1>3 DEF IInv, PackedIsList
<1>5. v.ok => v.next \in 1..(Len(bytes) + 1)
  BY <1>1, <1>2
<1>6. MessageOK'
  BY <1>2, <1>3, <1>4, AddType DEF IInv, MessageOK
<1>7. PositionOK'
  BY <1>2, <1>3, <1>5, GoOnType DEF IInv, PositionOK
<1>8. QED
  BY <1>3, <1>6, <1>7, Together

(* Steps that only move on.                                                *)
LEMMA SkipKeepsType ==
    ASSUME IInv, UNCHANGED <<input, message, packed>>,
           NEW ok \in BOOLEAN, NEW next, GoOn(ok, next),
           ok => next \in 1..(Len(bytes) + 1),
           groups' = groups \/ GroupsOK'
    PROVE  IInv'
<1>1. PositionOK'
  BY GoOnType DEF IInv, PositionOK
<1>2. QED
  BY <1>1, Together

LEMMA OtherStepsKeepType ==
    ASSUME IInv,
           EndPacked \/ EndOfFields \/ SkipVarint \/ SkipFixed \/ SkipDelimited
             \/ StartGroup \/ EndGroup \/ NoWireType \/ UNCHANGED vars
    PROVE  IInv'
<1> DEFINE v == ReadVarint(TagEnd)
<1>1. /\ v.ok \in BOOLEAN /\ v.value \in Nat
      /\ v.ok => v.next \in 1..(Len(bytes) + 1)
  BY ArgumentRead DEF IInv
<1>2. TagEnd \in 1..(Len(bytes) + 1) /\ Number \in Nat /\ Len(bytes) \in Nat
  BY TypesOf, TagRead DEF IInv
<1>3. GroupsOK /\ PackedOK /\ PositionOK
  BY Parts
<1> HIDE DEF v
<1>4. CASE EndPacked
  <2>1. /\ input' = input /\ groups' = groups /\ message' = message
        /\ packed' = NotPacked /\ pos' = pos /\ result' = result /\ schema' = schema /\ bytes' = bytes
    BY <1>4 DEF EndPacked, schema, bytes
  <2>2. PositionOK'
    BY <1>3, <2>1 DEF PositionOK
  <2>3. PackedOK'
    BY <1>3, <2>1 DEF PackedOK, PackedIsList, NotPacked
  <2>4. QED
    BY <2>1, <2>2, <2>3, Together
<1>5. CASE EndOfFields
  <2>1. /\ input' = input /\ groups' = groups /\ message' = message /\ packed' = packed
        /\ pos' = pos /\ result' \in {"true", "false"} /\ schema' = schema /\ bytes' = bytes
    BY <1>5 DEF EndOfFields, schema, bytes
  <2>2. PositionOK'
    BY <1>3, <2>1 DEF PositionOK
  <2>3. QED
    BY <2>1, <2>2, Together
<1>6. CASE SkipVarint
  <2>1. UNCHANGED <<input, message, groups, packed>> /\ GoOn(v.ok, v.next)
    BY <1>6 DEF SkipVarint, v
  <2>2. QED
    BY <1>1, <2>1, SkipKeepsType
<1>7. CASE SkipFixed
  <2>1. PICK width \in {4, 8} :
          /\ UNCHANGED <<input, message, groups, packed>>
          /\ GoOn(TagEnd + width - 1 <= Len(bytes), TagEnd + width)
    BY <1>7 DEF SkipFixed
  <2>2. /\ (TagEnd + width - 1 <= Len(bytes)) \in BOOLEAN
        /\ TagEnd + width - 1 <= Len(bytes) => TagEnd + width \in 1..(Len(bytes) + 1)
    BY <1>2
  <2>3. QED
    BY <2>1, <2>2, SkipKeepsType
<1>8. CASE SkipDelimited
  <2> DEFINE size == Int32(v.value)
             ok   == v.ok /\ size >= 0 /\ v.next + size - 1 <= Len(bytes)
  <2>1. UNCHANGED <<input, message, groups, packed>> /\ GoOn(ok, v.next + size)
    BY <1>8 DEF SkipDelimited, v
  <2>2. size \in Int
    BY <1>1, Int32Type, Widths DEF Int32s
  <2> HIDE DEF size
  <2>3. ok \in BOOLEAN /\ (ok => v.next + size \in 1..(Len(bytes) + 1))
    BY <1>1, <1>2, <2>2
  <2> HIDE DEF ok
  <2>4. QED
    BY <2>1, <2>3, SkipKeepsType
<1>9. CASE StartGroup
  <2> DEFINE deeper == Len(groups) < RecursionLimit
  <2>1. /\ UNCHANGED <<input, message, packed>> /\ GoOn(deeper, TagEnd)
        /\ deeper \in BOOLEAN
        /\ groups' = IF deeper THEN Append(groups, Number) ELSE groups
    BY <1>9 DEF StartGroup
  <2>2. groups' = groups \/ GroupsOK'
    BY <1>2, <1>3, <2>1, ParserAssumption DEF GroupsOK
  <2> HIDE DEF deeper
  <2>3. QED
    BY <1>2, <2>1, <2>2, SkipKeepsType
<1>10. CASE EndGroup
  <2>1. PICK matches \in BOOLEAN :
          /\ UNCHANGED <<input, message, packed>> /\ GoOn(matches, TagEnd)
          /\ matches => groups # <<>>
          /\ groups' = IF matches THEN Front(groups) ELSE groups
    BY <1>10 DEF EndGroup
  <2>2. groups' = groups \/ GroupsOK'
    <3>1. CASE matches
      <4>1. PICK n \in Nat \ {0} : n = Len(groups)
        BY <1>3, <2>1, <3>1 DEF GroupsOK
      <4>2. groups' = SubSeq(groups, 1, n - 1) /\ groups \in Seq(Nat)
        BY <1>3, <2>1, <3>1, <4>1 DEF Front, GroupsOK
      <4>3. \A i \in 1..(n - 1) : groups[i] \in Nat
        BY <4>1, <4>2, ElementOfSeq
      <4>4. groups' \in Seq(Nat) /\ Len(groups') = n - 1
        BY <4>2, <4>3, SubSeqProperties
      <4>5. QED
        BY <1>3, <4>1, <4>4, ParserAssumption DEF GroupsOK
    <3>2. CASE ~matches
      BY <2>1, <3>2
    <3>3. QED
      BY <3>1, <3>2
  <2>3. QED
    BY <1>2, <2>1, <2>2, SkipKeepsType
<1>11. CASE NoWireType
  <2>1. UNCHANGED <<input, message, groups, packed>> /\ GoOn(FALSE, pos)
    BY <1>11 DEF NoWireType
  <2>2. QED
    BY <2>1, SkipKeepsType
<1>12. CASE UNCHANGED vars
  <2>1. /\ UNCHANGED <<input, pos, message, groups, packed, result>>
        /\ schema' = schema /\ bytes' = bytes
    BY <1>12 DEF vars, schema, bytes
  <2>2. PositionOK'
    BY <1>3, <2>1 DEF PositionOK
  <2>3. QED
    BY <2>1, <2>2, Together
<1>13. QED
  BY <1>4, <1>5, <1>6, <1>7, <1>8, <1>9, <1>10, <1>11, <1>12

LEMMA StepKeepsType == IInv /\ [Next]_vars => IInv'
<1> SUFFICES ASSUME IInv, [Next]_vars PROVE IInv'
  OBVIOUS
<1>1. CASE \E n \in DOMAIN schema :
             ReadPrimitive(n) \/ ReadString(n) \/ ReadRepeated(n) \/ BeginPacked(n)
  BY <1>1, PrimitiveKeepsType, StringKeepsType, RepeatedKeepsType, BeginPackedKeepsType
<1>2. CASE ReadPacked
  BY <1>2, PackedKeepsType
<1>3. CASE EndPacked \/ EndOfFields \/ SkipVarint \/ SkipFixed \/ SkipDelimited
             \/ StartGroup \/ EndGroup \/ NoWireType \/ UNCHANGED vars
  BY <1>3, OtherStepsKeepType
<1>4. QED
  BY <1>1, <1>2, <1>3 DEF Next, MergeStep, Returned

-----------------------------------------------------------------------------
(* The inputs.  What FlattenSeq makes of sequences is a sequence.          *)
LEMMA FlattenExists ==
    ASSUME NEW seqs, Len(seqs) \in Nat
    PROVE  \E f : f = [i \in 1..Len(seqs) |-> IF i = 1 THEN seqs[i] ELSE f[i - 1] \o seqs[i]]
<1> DEFINE Upto(f, i)    == IF i = 1 THEN seqs[i] ELSE f[i - 1] \o seqs[i]
           Reaches(d, f) == \A i \in 1..Len(seqs) : i <= d => f[i] = Upto(f, i)
           Depths        == {d \in Nat : \E f : DOMAIN f = 1..Len(seqs) /\ Reaches(d, f)}
<1>1. 0 \in Depths
  <2>1. DOMAIN [i \in 1..Len(seqs) |-> seqs[i]] = 1..Len(seqs)
    OBVIOUS
  <2>2. Reaches(0, [i \in 1..Len(seqs) |-> seqs[i]])
    OBVIOUS
  <2>3. QED
    BY <2>1, <2>2
<1>2. ASSUME NEW d \in Nat, d \in Depths PROVE d + 1 \in Depths
  <2>1. PICK f : DOMAIN f = 1..Len(seqs) /\ Reaches(d, f)
    BY <1>2
  <2> DEFINE g == [i \in 1..Len(seqs) |-> Upto(f, i)]
  <2>2. \A i \in 1..Len(seqs) : g[i] = Upto(f, i)
    OBVIOUS
  <2>3. DOMAIN g = 1..Len(seqs)
    OBVIOUS
  <2> HIDE DEF g
  <2>4. \A i \in 1..Len(seqs) : i <= d => g[i] = f[i]
    BY <2>1, <2>2
  <2>5. Reaches(d + 1, g)
    <3> SUFFICES ASSUME NEW i \in 1..Len(seqs), i <= d + 1 PROVE g[i] = Upto(g, i)
      OBVIOUS
    <3>1. i # 1 => i - 1 \in 1..Len(seqs) /\ i - 1 <= d
      OBVIOUS
    <3>2. i # 1 => g[i - 1] = f[i - 1]
      BY <2>4, <3>1
    <3>3. QED
      BY <2>2, <3>2
  <2>6. d + 1 \in Nat
    OBVIOUS
  <2>7. QED
    BY ONLY <2>3, <2>5, <2>6
<1>3. Len(seqs) \in Depths
  <2> HIDE DEF Depths
  <2>1. Nat \subseteq Depths
    BY <1>1, <1>2, CountsThrough
  <2>2. QED
    BY <2>1
<1>4. PICK f : DOMAIN f = 1..Len(seqs) /\ Reaches(Len(seqs), f)
  BY <1>3
<1> DEFINE g == [i \in 1..Len(seqs) |-> f[i]]
<1>5. \A i \in 1..Len(seqs) : g[i] = Upto(g, i)
  <2> TAKE i \in 1..Len(seqs)
  <2>0. i <= Len(seqs) /\ g[i] = f[i]
    OBVIOUS
  <2>1. g[i] = Upto(f, i)
    BY <1>4, <2>0
  <2>2. i # 1 => i - 1 \in 1..Len(seqs)
    OBVIOUS
  <2>3. i # 1 => g[i - 1] = f[i - 1]
    BY <2>2
  <2>4. QED
    BY <2>1, <2>3
<1>6. g = [i \in 1..Len(seqs) |-> Upto(g, i)]
  BY <1>5
<1>7. QED
  BY <1>6

LEMMA FlattenType ==
    ASSUME NEW S, NEW seqs \in Seq(Seq(S)) PROVE FlattenSeq(seqs) \in Seq(S)
<1> DEFINE Flat(f) == f = [i \in 1..Len(seqs) |->
                             IF i = 1 THEN seqs[i] ELSE f[i - 1] \o seqs[i]]
           flatten == CHOOSE f : Flat(f)
<1>1. PICK n \in Nat : n = Len(seqs)
  OBVIOUS
<1>2. CASE n = 0
  <2>1. FlattenSeq(seqs) = seqs
    BY <1>1, <1>2 DEF FlattenSeq
  <2>2. seqs = <<>>
    BY <1>1, <1>2, EmptySeq
  <2>3. QED
    BY <2>1, <2>2, EmptySeq
<1>3. CASE n > 0
  <2>1. FlattenSeq(seqs) = flatten[n]
    BY <1>1, <1>3 DEF FlattenSeq
  <2>2. Flat(flatten)
    BY <1>1, FlattenExists
  <2> HIDE DEF flatten
  <2> DEFINE Typed == {d \in Nat : \A i \in 1..n : i <= d => flatten[i] \in Seq(S)}
  <2>3. 0 \in Typed
    OBVIOUS
  <2>4. ASSUME NEW d \in Nat, d \in Typed PROVE d + 1 \in Typed
    <3> SUFFICES ASSUME NEW i \in 1..n, i <= d + 1 PROVE flatten[i] \in Seq(S)
      OBVIOUS
    <3>1. seqs[i] \in Seq(S)
      BY <1>1, ElementOfSeq
    <3>2. CASE i = 1
      BY <1>1, <2>2, <3>1, <3>2
    <3>3. CASE i # 1
      <4>1. flatten[i] = flatten[i - 1] \o seqs[i]
        BY <1>1, <2>2, <3>3
      <4>2. i - 1 \in 1..n /\ i - 1 <= d
        BY <3>3
      <4>3. flatten[i - 1] \in Seq(S)
        BY <2>4, <4>2
      <4>4. QED
        BY <3>1, <4>1, <4>3, ConcatProperties
    <3>4. QED
      BY <3>2, <3>3
  <2>5. n \in Typed
    <3> HIDE DEF Typed
    <3>1. Nat \subseteq Typed
      BY <2>3, <2>4, CountsThrough
    <3>2. QED
      BY <3>1
  <2>6. QED
    BY <1>3, <2>1, <2>5
<1>4. QED
  BY <1>2, <1>3

(* A message has a place of the right kind for every field of its class.   *)
LEMMA MessagesExist ==
    ASSUME NEW class, Len(class) \in Nat
    PROVE  \E f : f = [n \in 0..Len(class) |->
                         IF n = 0 THEN {<<>>} ELSE WithField(f[n - 1], class[n])]
<1> DEFINE Upto(f, n)    == IF n = 0 THEN {<<>>} ELSE WithField(f[n - 1], class[n])
           Reaches(d, f) == \A n \in 0..Len(class) : n < d => f[n] = Upto(f, n)
           Depths        == {d \in Nat : \E f : DOMAIN f = 0..Len(class) /\ Reaches(d, f)}
<1>1. 0 \in Depths
  <2>1. DOMAIN [n \in 0..Len(class) |-> 0] = 0..Len(class)
    OBVIOUS
  <2>2. Reaches(0, [n \in 0..Len(class) |-> 0])
    OBVIOUS
  <2>3. QED
    BY <2>1, <2>2
<1>2. ASSUME NEW d \in Nat, d \in Depths PROVE d + 1 \in Depths
  <2>1. PICK f : DOMAIN f = 0..Len(class) /\ Reaches(d, f)
    BY <1>2
  <2> DEFINE g == [n \in 0..Len(class) |-> Upto(f, n)]
  <2>2. \A n \in 0..Len(class) : g[n] = Upto(f, n)
    OBVIOUS
  <2>3. DOMAIN g = 0..Len(class)
    OBVIOUS
  <2> HIDE DEF g
  <2>4. \A n \in 0..Len(class) : n < d => g[n] = f[n]
    BY <2>1, <2>2
  <2>5. Reaches(d + 1, g)
    <3> SUFFICES ASSUME NEW n \in 0..Len(class), n < d + 1 PROVE g[n] = Upto(g, n)
      OBVIOUS
    <3>1. n # 0 => n - 1 \in 0..Len(class) /\ n - 1 < d
      OBVIOUS
    <3>2. n # 0 => g[n - 1] = f[n - 1]
      BY <2>4, <3>1
    <3>3. QED
      BY <2>2, <3>2
  <2>6. d + 1 \in Nat
    OBVIOUS
  <2>7. QED
    BY ONLY <2>3, <2>5, <2>6
<1>3. Len(class) + 1 \in Depths
  <2> HIDE DEF Depths
  <2>1. Nat \subseteq Depths
    BY <1>1, <1>2, CountsThrough
  <2>2. QED
    BY <2>1
<1>4. PICK f : DOMAIN f = 0..Len(class) /\ Reaches(Len(class) + 1, f)
  BY <1>3
<1> DEFINE g == [n \in 0..Len(class) |-> f[n]]
<1>5. \A n \in 0..Len(class) : g[n] = Upto(g, n)
  <2> TAKE n \in 0..Len(class)
  <2>1. n < Len(class) + 1 /\ g[n] = f[n]
    OBVIOUS
  <2>2. g[n] = Upto(f, n)
    BY <1>4, <2>1
  <2>3. n # 0 => n - 1 \in 0..Len(class)
    OBVIOUS
  <2>4. n # 0 => g[n - 1] = f[n - 1]
    BY <2>3
  <2>5. QED
    BY <2>2, <2>4
<1>6. g = [n \in 0..Len(class) |-> Upto(g, n)]
  BY <1>5
<1>7. QED
  BY <1>6

LEMMA MessagesType ==
    ASSUME NEW class \in Seq(Fields), NEW m \in MessagesOf(class)
    PROVE  /\ DOMAIN m = DOMAIN class /\ \A n \in DOMAIN class : m[n] \in PlacesOf(class[n])
           /\ m = [n \in DOMAIN class |-> m[n]]
<1> DEFINE All(f) == f = [n \in 0..Len(class) |->
                            IF n = 0 THEN {<<>>} ELSE WithField(f[n - 1], class[n])]
           upTo == CHOOSE f : All(f)
           Place == UNION {PlacesOf(class[n]) : n \in 1..Len(class)}
           Fits(k, n) == k \in Seq(Place) /\ Len(k) = n /\ \A i \in 1..n : k[i] \in PlacesOf(class[i])
<1>1. PICK last \in Nat : last = Len(class)
  OBVIOUS
<1>2. m \in upTo[last]
  BY <1>1 DEF MessagesOf
<1>3. All(upTo)
  BY <1>1, MessagesExist
<1> HIDE DEF upTo
<1> DEFINE Typed == {d \in Nat : d <= last => \A k \in upTo[d] : Fits(k, d)}
<1>4. 0 \in Typed
  <2>1. upTo[0] = {<<>>}
    BY <1>1, <1>3
  <2>2. Fits(<<>>, 0)
    BY EmptySeq
  <2>3. QED
    BY <2>1, <2>2
<1>5. ASSUME NEW d \in Nat, d \in Typed PROVE d + 1 \in Typed
  <2>0. d <= last => \A k \in upTo[d] : Fits(k, d)
    <3> HIDE DEF Fits
    <3>1. QED
      BY <1>5
  <2> SUFFICES ASSUME d + 1 <= last, NEW k \in upTo[d + 1] PROVE Fits(k, d + 1)
    <3> HIDE DEF Fits
    <3>1. d + 1 \in Nat
      OBVIOUS
    <3>2. QED
      BY <3>1
  <2>1. d + 1 \in 0..Len(class) /\ d + 1 # 0 /\ (d + 1) - 1 = d
    BY <1>1
  <2>2. upTo[d + 1] = WithField(upTo[d], class[d + 1])
    BY <1>3, <2>1
  <2>3. PICK shorter \in upTo[d], p \in PlacesOf(class[d + 1]) : k = Append(shorter, p)
    BY <2>2 DEF WithField
  <2>4. Fits(shorter, d)
    <3> HIDE DEF Fits
    <3>1. d <= last
      BY <1>1
    <3>2. QED
      BY <2>0, <2>3, <3>1
  <2>5. p \in Place
    BY <2>1, <2>3
  <2> HIDE DEF Place
  <2>6. /\ k \in Seq(Place) /\ Len(k) = d + 1
        /\ \A i \in 1..d : k[i] = shorter[i]
        /\ k[d + 1] = p
    BY <2>3, <2>4, <2>5, AppendProperties
  <2>7. QED
    BY <2>3, <2>4, <2>6
<1>6. last \in Typed
  <2> HIDE DEF Typed
  <2>1. Nat \subseteq Typed
    BY <1>4, <1>5, CountsThrough
  <2>2. QED
    BY <2>1
<1>7. Fits(m, last)
  <2> HIDE DEF Fits
  <2>1. QED
    BY <1>1, <1>2, <1>6
<1>8. m = [n \in 1..last |-> m[n]]
  <2>1. m \in Seq(Place) /\ Len(m) = last
    BY <1>7
  <2> HIDE DEF Place
  <2>2. QED
    BY <2>1
<1>9. QED
  BY <1>1, <1>7, <1>8

LEMMA PowersGrow == \A m, n \in Nat : m <= n => 2^m <= 2^n
<1> SUFFICES ASSUME NEW m \in Nat, NEW n \in Nat, m <= n PROVE 2^m <= 2^n
  OBVIOUS
<1>1. /\ IsFiniteSet(1..m) /\ Cardinality(1..m) = m
      /\ IsFiniteSet(1..n) /\ Cardinality(1..n) = n
  BY FS_Interval
<1>2. /\ IsFiniteSet(SUBSET (1..m)) /\ Cardinality(SUBSET (1..m)) = 2^m
      /\ IsFiniteSet(SUBSET (1..n)) /\ Cardinality(SUBSET (1..n)) = 2^n
  BY <1>1, FS_SUBSET
<1>3. SUBSET (1..m) \in SUBSET (SUBSET (1..n))
  OBVIOUS
<1>4. Cardinality(SUBSET (1..m)) <= Cardinality(SUBSET (1..n))
  BY <1>2, <1>3, FS_Subset
<1>5. QED
  BY <1>2, <1>4

LEMMA FunctionIsSeq ==
    ASSUME NEW S, NEW n \in Nat, NEW f \in [1..n -> S]
    PROVE  f \in Seq(S) /\ Len(f) = n
<1>1. f \in Seq(S) /\ DOMAIN f = 1..n
  OBVIOUS
<1>2. QED
  BY <1>1

(* A number of WideBits has a varint of at most MaxVarintBytes bytes.      *)
LEMMA VarintType ==
    ASSUME NEW v \in Nat, v < Wide
    PROVE  Varint(v) \in Seq(0..255) /\ Len(Varint(v)) \in 1..MaxVarintBytes
<1> DEFINE Enough == {n \in 1..MaxVarintBytes : v < 2^(7 * n)}
<1>1. MaxVarintBytes \in Nat /\ WideBits \in Nat /\ WideBits <= 7 * MaxVarintBytes
      /\ 7 * MaxVarintBytes \in Nat
  BY WidthAssumption
<1>2. PICK wide \in Nat, most \in Nat :
        wide = 2^WideBits /\ most = 2^(7 * MaxVarintBytes) /\ wide <= most
  BY <1>1, PowerOfTwo, PowersGrow
<1>3. v < 2^(7 * MaxVarintBytes)
  BY <1>2 DEF Wide
<1>4. MaxVarintBytes # 0
  BY WidthAssumption, <1>1, <1>2
<1>5. MaxVarintBytes \in Enough
  BY <1>1, <1>3, <1>4
<1>6. VarintLength(v) \in Enough
  <2>1. Enough \subseteq Nat /\ Enough # {}
    BY <1>5
  <2>2. QED
    BY <2>1, MinIsLeast DEF VarintLength
<1>7. PICK length \in 1..MaxVarintBytes : length = VarintLength(v)
  BY <1>6
<1>8. Varint(v) = [k \in 1..length |->
                     ((v \div 2^(7 * (k - 1))) % More) + (IF k < length THEN More ELSE 0)]
  BY <1>7 DEF Varint
<1>9. \A k \in 1..length :
        ((v \div 2^(7 * (k - 1))) % More) + (IF k < length THEN More ELSE 0) \in 0..255
  <2> TAKE k \in 1..length
  <2>1. 7 * (k - 1) \in Nat
    OBVIOUS
  <2>2. PICK p \in Nat \ {0} : p = 2^(7 * (k - 1))
    BY <2>1, PowerOfTwo
  <2>3. PICK q \in Nat : q = v \div p
    OBVIOUS
  <2>4. PICK low \in 0..127 : low = q % 128
    OBVIOUS
  <2>5. QED
    BY <2>2, <2>3, <2>4 DEF More
<1>10. Varint(v) \in [1..length -> 0..255]
  BY <1>8, <1>9
<1>11. length \in Nat
  BY <1>1
<1>12. Varint(v) \in Seq(0..255) /\ Len(Varint(v)) = length
  BY <1>10, <1>11, FunctionIsSeq
<1>13. QED
  BY <1>12

LEMMA SignExtendedType == \A i \in Int32s : SignExtended(i) \in Nat /\ SignExtended(i) < Wide
<1> SUFFICES ASSUME NEW i \in Int32s PROVE SignExtended(i) \in Nat /\ SignExtended(i) < Wide
  OBVIOUS
<1>1. PICK half \in Nat \ {0} : Narrow = half + half /\ Narrow \div 2 = half
  BY Widths
<1>2. i \in -half..(half - 1)
  BY <1>1 DEF Int32s
<1>3. Wide \in Nat /\ Narrow <= Wide
  BY WidthAssumption, PowersGrow, Widths DEF Narrow, Wide
<1>4. QED
  BY <1>1, <1>2, <1>3 DEF SignExtended

LEMMA WriteInt32Type ==
    ASSUME NEW n \in 1..4, NEW i \in Int32s PROVE WriteInt32(n, i) \in Seq(0..255)
<1>1. Varint(SignExtended(i)) \in Seq(0..255)
  BY SignExtendedType, VarintType
<1>2. MakeTag(n, VARINT) \in 0..255
  BY DEF MakeTag, VARINT
<1>3. <<MakeTag(n, VARINT)>> \in Seq(0..255)
  BY <1>2
<1>4. QED
  BY <1>1, <1>3, ConcatProperties DEF WriteInt32

LEMMA PlaceKinds ==
    ASSUME NEW field \in Fields, NEW p \in PlacesOf(field)
    PROVE  /\ field.rule = "repeated" => p.value \in Lists
           /\ field.rule # "repeated" /\ field.type = "string" =>
                p.value \in Texts \union {<<>>}
           /\ field.rule # "repeated" /\ field.type = "bool" => p.value \in BOOLEAN
           /\ field.rule # "repeated" /\ field.type = "int32" => p.value \in Ints \union {0}
           /\ field.rule # "repeated" => p.has \in BOOLEAN
BY DEF Fields, PlacesOf, DefaultOf

LEMMA WriteFieldType ==
    ASSUME NEW class \in Seq(Fields), NEW n \in 1..4, n \in DOMAIN class,
           NEW p \in PlacesOf(class[n])
    PROVE  WriteField(class, n, p) \in Seq(0..255)
<1>1. class[n] \in Fields
  BY ElementOfSeq
<1>2. CASE class[n].rule = "repeated"
  <2>1. PICK list \in Seq(Int32s) : list = p.value
    BY <1>1, <1>2, PlaceKinds, ParserAssumption
  <2> DEFINE parts == [i \in DOMAIN list |-> WriteInt32(n, list[i])]
  <2>2. \A i \in 1..Len(list) : WriteInt32(n, list[i]) \in Seq(0..255)
    <3> TAKE i \in 1..Len(list)
    <3>1. list[i] \in Int32s
      BY <2>1, ElementOfSeq
    <3>2. QED
      BY <3>1, WriteInt32Type
  <2>3. parts \in Seq(Seq(0..255))
    <3>1. DOMAIN list = 1..Len(list) /\ Len(list) \in Nat
      BY <2>1
    <3> HIDE DEF parts
    <3>2. parts \in [1..Len(list) -> Seq(0..255)]
      BY <2>2, <3>1 DEF parts
    <3>3. QED
      BY <3>1, <3>2, FunctionIsSeq
  <2>4. WriteField(class, n, p) = FlattenSeq(parts)
    BY <1>2, <2>1 DEF WriteField
  <2> HIDE DEF parts
  <2>5. QED
    BY <2>3, <2>4, FlattenType
<1>3. CASE class[n].rule # "repeated" /\ ~p.has
  BY <1>3, EmptySeq DEF WriteField
<1>4. CASE class[n].rule # "repeated" /\ p.has /\ class[n].type = "int32"
  <2>1. p.value \in Int32s
    <3>1. 0 \in Int32s
      BY Widths DEF Int32s
    <3>2. QED
      BY <1>1, <1>4, <3>1, PlaceKinds, ParserAssumption
  <2>2. WriteField(class, n, p) = WriteInt32(n, p.value)
    BY <1>4 DEF WriteField
  <2>3. QED
    BY <2>1, <2>2, WriteInt32Type
<1>5. CASE class[n].rule # "repeated" /\ p.has /\ class[n].type = "bool"
  <2>1. WriteField(class, n, p) = <<MakeTag(n, VARINT), IF p.value THEN 1 ELSE 0>>
    BY <1>5 DEF WriteField
  <2>2. MakeTag(n, VARINT) \in 0..255 /\ (IF p.value THEN 1 ELSE 0) \in 0..255
    BY DEF MakeTag, VARINT
  <2>3. QED
    BY <2>1, <2>2
<1>6. CASE class[n].rule # "repeated" /\ p.has /\ class[n].type = "string"
  <2>1. p.value \in Texts \union {<<>>}
    BY <1>1, <1>6, PlaceKinds
  <2>2. PICK text \in Seq(0..255) : text = p.value /\ Len(text) < Wide
    <3>1. PICK half \in Nat \ {0} : Narrow = half + half /\ Narrow \div 2 = half
      BY Widths
    <3>2. Narrow <= Wide /\ Wide \in Nat
      BY WidthAssumption, PowersGrow, Widths DEF Narrow, Wide
    <3>3. p.value \in Seq(0..255) /\ Len(p.value) < half
      <4>1. CASE p.value \in Texts
        BY <3>1, <4>1, ParserAssumption
      <4>2. CASE p.value = <<>>
        BY <3>1, <4>2, EmptySeq
      <4>3. QED
        BY <2>1, <4>1, <4>2
    <3>4. Len(p.value) \in Nat
      BY <3>3
    <3>5. QED
      BY <3>1, <3>2, <3>3, <3>4
  <2>3. Len(text) \in Nat /\ Varint(Len(text)) \in Seq(0..255)
    BY <2>2, VarintType
  <2>4. MakeTag(n, LENGTH_DELIMITED) \in 0..255
    BY DEF MakeTag, LENGTH_DELIMITED
  <2>5. <<MakeTag(n, LENGTH_DELIMITED)>> \in Seq(0..255)
    BY <2>4
  <2>6. WriteField(class, n, p)
          = <<MakeTag(n, LENGTH_DELIMITED)>> \o Varint(Len(text)) \o text
    BY <1>6, <2>2 DEF WriteField
  <2>7. <<MakeTag(n, LENGTH_DELIMITED)>> \o Varint(Len(text)) \in Seq(0..255)
    BY <2>3, <2>5, ConcatProperties
  <2>8. QED
    BY <2>2, <2>6, <2>7, ConcatProperties
<1>7. class[n].rule # "repeated" => p.has \in BOOLEAN
  BY <1>1, PlaceKinds
<1>8. class[n].type \in {"int32", "string", "bool"}
  BY <1>1 DEF Fields
<1>9. QED
  BY <1>2, <1>3, <1>4, <1>5, <1>6, <1>7, <1>8

(* Every class has at most four fields.                                    *)
LEMMA FewFields == \A class \in Schemas : Len(class) \in 1..4
BY DEF Schemas, User_Login, Enter_Channel, Change_Channel, Channel_Chatting, Create_Room,
       Room_Chatting, Enter_Room, Leave_Room, Notify_Exist_Room, Notify_Enter_Room,
       Notify_Leave_Room, Room_List

LEMMA WrittenType ==
    ASSUME NEW class \in Schemas, NEW m \in MessagesOf(class)
    PROVE  Written(class, m) \in Seq(Seq(0..255)) /\ Len(Written(class, m)) = Len(class)
<1>1. class \in Seq(Fields) /\ Len(class) \in 1..4 /\ DOMAIN class = 1..Len(class)
  BY SchemaFields, FewFields
<1>2. \A n \in 1..Len(class) : n \in 1..4 /\ m[n] \in PlacesOf(class[n])
  BY <1>1, MessagesType
<1>3. \A n \in 1..Len(class) : WriteField(class, n, m[n]) \in Seq(0..255)
  BY <1>1, <1>2, WriteFieldType
<1>4. Written(class, m) = [n \in 1..Len(class) |-> WriteField(class, n, m[n])]
  BY <1>1 DEF Written
<1>5. Written(class, m) \in [1..Len(class) -> Seq(0..255)]
  BY <1>3, <1>4
<1>6. QED
  BY <1>1, <1>5, FunctionIsSeq

LEMMA WholeInput ==
    ASSUME NEW class \in Schemas, NEW m \in MessagesOf(class), WholeMessage(class, m)
    PROVE  schema = class /\ bytes \in Seq(0..255)
<1>1. PICK unknown \in Unknowns \union {<<>>}, i \in 1..(Len(class) + 1) :
        LET bs == FlattenSeq(InsertAt(Written(class, m), i, unknown))
        IN  input = Input("whole", class, m, bs, Len(bs))
  BY DEF WholeMessage
<1>2. /\ schema = class
      /\ bytes = FlattenSeq(InsertAt(Written(class, m), i, unknown))
  BY <1>1 DEF schema, bytes, Input
<1>3. PICK parts \in Seq(Seq(0..255)) : parts = Written(class, m) /\ Len(parts) = Len(class)
  BY WrittenType
<1>4. Len(class) \in Nat
  BY FewFields
<1>5. unknown \in Seq(0..255)
  <2>1. Unknowns \subseteq Seq(0..255)
    BY ParserAssumption
  <2>2. <<>> \in Seq(0..255)
    BY EmptySeq
  <2>3. QED
    BY <1>1, <2>1, <2>2, Zenon
<1>6. InsertAt(parts, i, unknown) \in Seq(Seq(0..255))
  <2> DEFINE S == Seq(0..255)
  <2>1. parts \in Seq(S) /\ unknown \in S
    BY <1>3, <1>5
  <2> HIDE DEF S
  <2>2. \A k \in 1..Len(class) : parts[k] \in S
    BY <1>3, <2>1, ElementOfSeq
  <2>3. SubSeq(parts, 1, i - 1) \in Seq(S)
    BY <1>3, <1>4, <2>1, <2>2, SubSeqProperties
  <2>4. SubSeq(parts, i, Len(parts)) \in Seq(S)
    BY <1>3, <1>4, <2>1, <2>2, SubSeqProperties
  <2>5. <<unknown>> \in Seq(S)
    BY <2>1
  <2>6. SubSeq(parts, 1, i - 1) \o <<unknown>> \in Seq(S)
    BY <2>3, <2>5, ConcatProperties
  <2>7. InsertAt(parts, i, unknown) \in Seq(S)
    BY <2>4, <2>6, ConcatProperties DEF InsertAt
  <2>8. QED
    BY <2>7 DEF S
<1>7. QED
  BY <1>2, <1>3, <1>6, FlattenType

LEMMA CutInput ==
    ASSUME NEW class \in Schemas, NEW m \in MessagesOf(class), CutMessage(class, m)
    PROVE  schema = class /\ bytes \in Seq(0..255)
<1>1. PICK bs : bs = SerializeToArray(class, m)
  OBVIOUS
<1>2. bs \in Seq(0..255)
  BY <1>1, WrittenType, FlattenType DEF SerializeToArray
<1>3. PICK k \in 0..(Len(bs) - 1), old \in Leftovers :
        input = Input("cut", class, m, SubSeq(bs, 1, k) \o old, k)
  BY <1>1 DEF CutMessage
<1>4. schema = class /\ bytes = SubSeq(bs, 1, k) \o old
  BY <1>3 DEF schema, bytes, Input
<1>5. old \in Seq(0..255)
  BY ParserAssumption
<1>6. PICK n \in Nat : n = Len(bs)
  BY <1>2
<1>7. \A i \in 1..n : bs[i] \in 0..255
  BY <1>2, <1>6, ElementOfSeq
<1>8. SubSeq(bs, 1, k) \in Seq(0..255)
  <2>1. k \in Int /\ k < n
    BY <1>6
  <2>2. \A i \in 1..k : bs[i] \in 0..255
    BY <1>7, <2>1
  <2>3. QED
    BY <2>1, <2>2, SubSeqProperties
<1>9. QED
  BY <1>4, <1>5, <1>8, ConcatProperties

LEMMA AnyInput ==
    ASSUME NEW class \in Schemas, AnyBytes(class)
    PROVE  schema = class /\ bytes \in Seq(0..255)
<1>1. PICK n \in 0..MaxBytes : \E bs \in [1..n -> Bytes] :
        input = Input("any", class, Cleared(class), bs, 0)
  BY DEF AnyBytes
<1>2. PICK bs \in [1..n -> Bytes] : input = Input("any", class, Cleared(class), bs, 0)
  BY <1>1
<1>3. schema = class /\ bytes = bs
  BY <1>2 DEF schema, bytes, Input
<1>4. bs \in [1..n -> 0..255] /\ n \in Nat
  <2>1. Bytes \subseteq 0..255 /\ MaxBytes \in Nat
    BY ParserAssumption
  <2>2. \A k \in 1..n : bs[k] \in 0..255
    BY <2>1
  <2>3. QED
    BY <2>1, <2>2
<1>5. QED
  BY <1>3, <1>4, FunctionIsSeq

LEMMA InitType == Init => IInv
<1> SUFFICES ASSUME Init PROVE IInv
  OBVIOUS
<1>1. schema \in Schemas /\ bytes \in Seq(0..255)
  <2>1. PICK class \in Schemas :
          \/ \E m \in MessagesOf(class) : WholeMessage(class, m)
          \/ \E m \in MessagesOf(class) : CutMessage(class, m)
          \/ AnyBytes(class)
    BY DEF Init
  <2>2. QED
    BY <2>1, WholeInput, CutInput, AnyInput
<1>2. pos = 1 /\ message = Cleared(schema) /\ groups = <<>> /\ packed = NotPacked /\ result = "busy"
  BY DEF Init
<1>3. schema \in Seq(Fields) /\ Len(schema) \in Nat /\ Len(bytes) \in Nat
  BY <1>1, SchemaFields
<1>4. MessageOK
  <2>1. ASSUME NEW n \in DOMAIN schema PROVE DefaultOf(schema[n]) \in ValuesOf(schema[n])
    <3>1. schema[n] \in Fields
      BY <1>3
    <3>2. CASE schema[n].rule = "repeated"
      <4>1. <<>> \in Seq(Int32s)
        BY EmptySeq
      <4>2. QED
        BY <3>1, <3>2, <4>1, ValuesByKind DEF DefaultOf
    <3>3. CASE schema[n].rule # "repeated" /\ schema[n].type = "string"
      <4>1. <<>> \in Seq(0..255)
        BY EmptySeq
      <4>2. QED
        BY <3>1, <3>3, <4>1, ValuesByKind DEF DefaultOf
    <3>4. CASE schema[n].rule # "repeated" /\ schema[n].type = "bool"
      BY <3>1, <3>4, ValuesByKind DEF DefaultOf
    <3>5. CASE schema[n].rule # "repeated" /\ schema[n].type = "int32"
      <4>1. 0 \in Int32s
        BY Widths DEF Int32s
      <4>2. QED
        BY <3>1, <3>5, <4>1, ValuesByKind DEF DefaultOf
    <3>6. schema[n].type \in {"int32", "string", "bool"}
      BY <3>1 DEF Fields
    <3>7. QED
      BY <3>2, <3>3, <3>4, <3>5, <3>6
  <2>2. /\ DOMAIN message = DOMAIN schema
        /\ \A n \in DOMAIN schema : message[n] = [has |-> FALSE, value |-> DefaultOf(schema[n])]
    BY <1>2 DEF Cleared
  <2>3. \A n \in DOMAIN schema : message[n] \in [has : BOOLEAN, value : ValuesOf(schema[n])]
    <3> TAKE n \in DOMAIN schema
    <3>1. PICK value \in ValuesOf(schema[n]) : value = DefaultOf(schema[n])
      BY <2>1
    <3>2. message[n] = [has |-> FALSE, value |-> value]
      BY <2>2, <3>1
    <3>3. QED
      BY <3>2
  <2>4. QED
    BY <2>2, <2>3 DEF MessageOK
<1>5. PositionOK
  BY <1>1, <1>2, <1>3 DEF PositionOK
<1>6. GroupsOK
  BY <1>2, EmptySeq, ParserAssumption DEF GroupsOK
<1>7. PackedOK
  BY <1>2, <1>3 DEF PackedOK, PackedIsList, NotPacked
<1>8. QED
  BY <1>4, <1>5, <1>6, <1>7 DEF IInv, TypeOK, MessageOK, PositionOK, GroupsOK, PackedOK

LEMMA Inductive == Spec => []IInv
BY InitType, StepKeepsType, PTL DEF Spec

(* Whatever the bytes are - messages of any classes with any values,       *)
(* fields of newer classes among them, cut anywhere, or no messages at     *)
(* all -, the parser stays inside of them, and what it makes of them has   *)
(* the types of the class's fields (MergePartialFromCodedStream).          *)
THEOREM ProtoTypeCorrect == Spec => []TypeOK
<1>1. IInv => TypeOK
  BY DEF IInv
<1> QED
  BY <1>1, Inductive, PTL

-----------------------------------------------------------------------------
(* Progress.                                                               *)
MovesOn ==
    \/ result' # "busy" \/ pos' > pos
    \/ pos' = pos /\ packed # NotPacked /\ packed' = NotPacked

LEMMA GoesOn ==
    ASSUME NEW ok \in BOOLEAN, NEW next, GoOn(ok, next), ok => next > pos
    PROVE  MovesOn
BY DEF GoOn, MovesOn

(* What is behind a tag is further than the tag.                           *)
LEMMA BehindTheTag ==
    ASSUME IInv, Known \/ Tag # 0
    PROVE  /\ TagEnd \in Nat /\ pos \in Nat /\ TagEnd > pos
           /\ LET v == ReadVarint(TagEnd)
              IN  /\ v.ok \in BOOLEAN /\ v.value \in Nat
                  /\ v.ok => v.next \in Nat /\ v.next > pos
<1>1. /\ Tag \in Nat /\ TagEnd \in Nat /\ pos \in Nat /\ Len(bytes) \in Nat
      /\ Tag # 0 => TagEnd > pos
  BY TypesOf, TagRead DEF IInv
<1>2. Tag # 0
  <2>1. Known => Number \in 1..Len(schema)
    BY TypesOf DEF Known, IInv
  <2>2. QED
    BY <1>1, <2>1 DEF Number
<1> DEFINE v == ReadVarint(TagEnd)
<1>3. /\ v.ok \in BOOLEAN /\ v.value \in Nat
      /\ v.ok => v.next \in 1..(Len(bytes) + 1) /\ v.next > TagEnd
  BY ArgumentRead DEF IInv
<1> HIDE DEF v
<1>4. v.ok => v.next \in Nat /\ v.next > pos
  BY <1>1, <1>2, <1>3
<1>5. v.ok \in BOOLEAN /\ v.value \in Nat /\ (v.ok => v.next \in Nat /\ v.next > pos)
  BY <1>3, <1>4
<1>6. QED
  BY <1>1, <1>2, <1>5 DEF v

LEMMA StepMovesOn == IInv /\ MergeStep => MovesOn
<1> SUFFICES ASSUME IInv, MergeStep PROVE MovesOn
  OBVIOUS
<1> DEFINE v    == ReadVarint(TagEnd)
           size == Int32(v.value)
<1>1. v.value \in Nat => size \in Int
  BY Int32Type, Widths DEF Int32s
<1>2. ASSUME NEW n \in DOMAIN schema, ReadPrimitive(n) PROVE MovesOn
  <2>1. Known /\ GoOn(v.ok, v.next)
    BY <1>2 DEF ReadPrimitive
  <2>2. QED
    BY <2>1, BehindTheTag, GoesOn
<1>3. ASSUME NEW n \in DOMAIN schema, ReadString(n) PROVE MovesOn
  <2>1. /\ Known
        /\ \/ v.ok /\ size >= 0 /\ \E left : GoOn(size <= left, v.next + size)
           \/ GoOn(FALSE, pos)
    BY <1>3 DEF ReadString
  <2>2. v.ok \in BOOLEAN /\ v.value \in Nat /\ pos \in Nat
        /\ (v.ok => v.next \in Nat /\ v.next > pos)
    BY <2>1, BehindTheTag
  <2>3. size \in Int
    BY <1>1, <2>2
  <2> HIDE DEF v, size
  <2>4. CASE GoOn(FALSE, pos)
    BY <2>4, GoesOn
  <2>5. ASSUME v.ok, size >= 0, NEW left, GoOn(size <= left, v.next + size) PROVE MovesOn
    <3>1. v.next + size > pos
      BY <2>2, <2>3, <2>5
    <3>2. (size <= left) \in BOOLEAN
      OBVIOUS
    <3>3. QED
      BY <2>5, <3>1, <3>2, GoesOn
  <2>6. QED
    BY <2>1, <2>4, <2>5
<1>4. ASSUME NEW n \in DOMAIN schema, ReadRepeated(n) PROVE MovesOn
  <2>1. Known /\ GoOn(v.ok, v.next)
    BY <1>4 DEF ReadRepeated, Add
  <2>2. QED
    BY <2>1, BehindTheTag, GoesOn
<1>5. ASSUME NEW n \in DOMAIN schema, BeginPacked(n) PROVE MovesOn
  <2>1. Known /\ GoOn(v.ok /\ v.value <= IntMax, v.next)
    BY <1>5 DEF BeginPacked
  <2>2. v.ok => v.next > pos
    BY <2>1, BehindTheTag
  <2>3. QED
    BY <2>1, <2>2, GoesOn
<1>6. CASE ReadPacked
  <2> DEFINE w == ReadVarint(pos)
  <2>1. BytesTyped /\ pos \in Nat \ {0}
    BY TypesOf DEF IInv
  <2>2. w.ok \in BOOLEAN /\ (w.ok => w.next > pos)
    BY <2>1, VarintRead
  <2>3. GoOn(w.ok, w.next)
    BY <1>6 DEF ReadPacked, Add
  <2>4. QED
    BY <2>2, <2>3, GoesOn
<1>7. CASE EndPacked
  BY <1>7 DEF EndPacked, MovesOn
<1>8. CASE EndOfFields
  BY <1>8 DEF EndOfFields, MovesOn
<1>9. CASE SkipVarint
  <2>1. Tag # 0 /\ GoOn(v.ok, v.next)
    BY <1>9 DEF SkipVarint, Unusual
  <2>2. QED
    BY <2>1, BehindTheTag, GoesOn
<1>10. CASE SkipFixed
  <2>1. PICK width \in {4, 8} :
          Tag # 0 /\ GoOn(TagEnd + width - 1 <= Len(bytes), TagEnd + width)
    BY <1>10 DEF SkipFixed, Unusual
  <2>2. /\ (TagEnd + width - 1 <= Len(bytes)) \in BOOLEAN
        /\ TagEnd + width > pos
    BY <2>1, BehindTheTag
  <2>3. QED
    BY <2>1, <2>2, GoesOn
<1>11. CASE SkipDelimited
  <2> DEFINE ok == v.ok /\ size >= 0 /\ v.next + size - 1 <= Len(bytes)
  <2>1. Tag # 0 /\ GoOn(ok, v.next + size)
    BY <1>11 DEF SkipDelimited, Unusual
  <2>2. v.ok \in BOOLEAN /\ v.value \in Nat /\ pos \in Nat
        /\ (v.ok => v.next \in Nat /\ v.next > pos)
    BY <2>1, BehindTheTag
  <2>3. size \in Int
    BY <1>1, <2>2
  <2> HIDE DEF v, size
  <2>4. ok => v.next + size > pos
    BY <2>2, <2>3
  <2>5. QED
    BY <2>1, <2>4, GoesOn
<1>12. CASE StartGroup
  <2> DEFINE deeper == Len(groups) < RecursionLimit
  <2>1. Tag # 0 /\ GoOn(deeper, TagEnd) /\ deeper \in BOOLEAN
    BY <1>12 DEF StartGroup, Unusual
  <2> HIDE DEF deeper
  <2>2. QED
    BY <2>1, BehindTheTag, GoesOn
<1>13. CASE EndGroup
  <2>1. PICK matches \in BOOLEAN : Tag # 0 /\ GoOn(matches, TagEnd)
    BY <1>13 DEF EndGroup, Unusual
  <2>2. QED
    BY <2>1, BehindTheTag, GoesOn
<1>14. CASE NoWireType
  BY <1>14, GoesOn DEF NoWireType
<1>15. QED
  BY <1>2, <1>3, <1>4, <1>5, <1>6, <1>7, <1>8, <1>9, <1>10, <1>11, <1>12, <1>13, <1>14
     DEF MergeStep

(* Every step of a parse reads on, ends it, or leaves a packed field: no   *)
(* bytes keep the receive thread in MergePartialFromCodedStream for ever.  *)
THEOREM ParsesMoveOn == Spec => ParseMovesOn
<1>1. IInv /\ [Next]_vars => [MovesOn]_vars
  BY StepMovesOn DEF Next, Returned
<1>2. Spec => [][MovesOn]_vars
  BY <1>1, Inductive, PTL DEF Spec
<1> QED
  BY <1>2 DEF ParseMovesOn, MovesOn

-----------------------------------------------------------------------------
(* Division.                                                               *)
LEMMA DivUnique ==
    \A n \in Nat \ {0}, q \in Nat, r \in Nat :
      r < n => (q * n + r) \div n = q /\ (q * n + r) % n = r
OBVIOUS

LEMMA DivParts ==
    \A v \in Nat, n \in Nat \ {0} :
      v = (v \div n) * n + (v % n) /\ v \div n \in Nat /\ v % n \in Nat /\ v % n < n
OBVIOUS

LEMMA DivTwice ==
    ASSUME NEW v \in Nat, NEW a \in Nat \ {0} PROVE (v \div a) \div 128 = v \div (128 * a)
<1>1. PICK q \in Nat, r \in Nat : q = v \div a /\ r = v % a /\ v = q * a + r /\ r < a
  BY DivParts
<1>2. PICK q2 \in Nat, r2 \in 0..127 : q2 = q \div 128 /\ q = q2 * 128 + r2
  <2>1. q = (q \div 128) * 128 + (q % 128) /\ q \div 128 \in Nat /\ q % 128 \in 0..127
    OBVIOUS
  <2>2. QED
    BY <2>1
<1>3. PICK b \in Nat \ {0} : b = 128 * a
  OBVIOUS
<1>4. PICK t \in Nat : t = r2 * a
  OBVIOUS
<1>5. t <= 127 * a
  BY <1>2, <1>4
<1>6. v = q2 * b + (t + r) /\ t + r < b /\ t + r \in Nat
  <2>1. v = (q2 * 128 + r2) * a + r
    BY <1>1, <1>2
  <2>2. (q2 * 128 + r2) * a = q2 * (128 * a) + r2 * a
    OBVIOUS
  <2>3. QED
    BY <1>1, <1>3, <1>4, <1>5, <2>1, <2>2
<1>7. v \div b = q2
  BY <1>6, DivUnique
<1>8. QED
  BY <1>1, <1>2, <1>3, <1>7

LEMMA SevenBits == \A n \in Nat : 2^(n + 7) = 128 * 2^n
<1> SUFFICES ASSUME NEW n \in Nat PROVE 2^(n + 7) = 128 * 2^n
  OBVIOUS
<1>1. PICK a \in Nat, b \in Nat, c \in Nat, d \in Nat, e \in Nat, f \in Nat, g \in Nat :
        /\ a = 2^n /\ b = 2^(n + 1) /\ c = 2^(n + 2) /\ d = 2^(n + 3)
        /\ e = 2^(n + 4) /\ f = 2^(n + 5) /\ g = 2^(n + 6)
  BY PowerOfTwo
<1>2. b = a + a
  BY <1>1, Doubling
<1>3. c = b + b
  <2>1. 2^((n + 1) + 1) = b + b
    BY <1>1, Doubling
  <2>2. QED
    BY <1>1, <2>1
<1>4. d = c + c
  <2>1. 2^((n + 2) + 1) = c + c
    BY <1>1, Doubling
  <2>2. QED
    BY <1>1, <2>1
<1>5. e = d + d
  <2>1. 2^((n + 3) + 1) = d + d
    BY <1>1, Doubling
  <2>2. QED
    BY <1>1, <2>1
<1>6. f = e + e
  <2>1. 2^((n + 4) + 1) = e + e
    BY <1>1, Doubling
  <2>2. QED
    BY <1>1, <2>1
<1>7. g = f + f
  <2>1. 2^((n + 5) + 1) = f + f
    BY <1>1, Doubling
  <2>2. QED
    BY <1>1, <2>1
<1>8. 2^(n + 7) = g + g
  <2>1. 2^((n + 6) + 1) = g + g
    BY <1>1, Doubling
  <2>2. QED
    BY <2>1
<1>9. 2^(n + 7) = 128 * a
  BY <1>2, <1>3, <1>4, <1>5, <1>6, <1>7, <1>8
<1>10. QED
  BY <1>1, <1>9

LEMMA PowersMultiply == \A m, n \in Nat : 2^(m + n) = 2^m * 2^n
<1> SUFFICES ASSUME NEW m \in Nat PROVE \A n \in Nat : 2^(m + n) = 2^m * 2^n
  OBVIOUS
<1> DEFINE Fine == {n \in Nat : 2^(m + n) = 2^m * 2^n}
<1>1. PICK a \in Nat : a = 2^m
  BY PowerOfTwo
<1>2. 0 \in Fine
  <2>1. 2^0 = 1 /\ m + 0 = m
    OBVIOUS
  <2>2. 2^(m + 0) = a /\ a = a * 1
    BY <1>1, <2>1
  <2>3. QED
    BY <1>1, <2>1, <2>2
<1>3. ASSUME NEW n \in Nat, n \in Fine PROVE n + 1 \in Fine
  <2>1. PICK b \in Nat : b = 2^n
    BY PowerOfTwo
  <2>2. 2^(m + n) = a * b
    BY <1>1, <1>3, <2>1
  <2>3. 2^((m + n) + 1) = a * b + a * b
    BY <2>2, Doubling
  <2>4. 2^(n + 1) = b + b
    BY <2>1, Doubling
  <2>5. a * (b + b) = a * b + a * b
    OBVIOUS
  <2>6. 2^(m + (n + 1)) = a * b + a * b
    BY <2>3
  <2>7. QED
    BY <1>1, <2>4, <2>5, <2>6
<1>4. Nat \subseteq Fine
  <2> HIDE DEF Fine
  <2>1. QED
    BY <1>2, <1>3, CountsThrough
<1>5. QED
  BY <1>4

(* A number narrower than an int32 keeps its value, and so does one that   *)
(* was widened with its sign.                                              *)
LEMMA Int32OfSmall == \A n \in Nat : n < Narrow \div 2 => Int32(n) = n
<1> SUFFICES ASSUME NEW n \in Nat, n < Narrow \div 2 PROVE Int32(n) = n
  OBVIOUS
<1>1. PICK half \in Nat \ {0} : Narrow = half + half /\ Narrow \div 2 = half
  BY Widths
<1>2. n % (half + half) = n
  <2>1. n = 0 * (half + half) + n /\ n < half + half
    BY <1>1
  <2>2. QED
    BY <2>1, DivUnique
<1>3. QED
  BY <1>1, <1>2 DEF Int32

LEMMA Int32OfExtended == \A i \in Int32s : Int32(SignExtended(i)) = i
<1> SUFFICES ASSUME NEW i \in Int32s PROVE Int32(SignExtended(i)) = i
  OBVIOUS
<1>1. PICK half \in Nat \ {0} : Narrow = half + half /\ Narrow \div 2 = half
  BY Widths
<1>2. i \in -half..(half - 1)
  BY <1>1 DEF Int32s
<1>3. CASE i >= 0
  BY <1>1, <1>2, <1>3, Int32OfSmall DEF SignExtended
<1>4. CASE i < 0
  <2>1. PICK d \in Nat : d = WideBits - IntBits /\ WideBits = IntBits + d
    BY WidthAssumption
  <2>2. PICK m \in Nat : m = 2^d /\ m >= 1
    BY PowerOfTwo
  <2>3. Wide = Narrow * m
    BY <2>1, <2>2, PowersMultiply, WidthAssumption DEF Wide, Narrow
  <2>4. PICK n \in Nat \ {0} : n = half + half /\ Narrow = n
    BY <1>1
  <2>5. SignExtended(i) = n * m + i
    BY <1>4, <2>3, <2>4 DEF SignExtended
  <2>6. n * m = (m - 1) * n + n
    OBVIOUS
  <2>7. SignExtended(i) = (m - 1) * n + (n + i) /\ m - 1 \in Nat /\ n + i \in Nat /\ n + i < n
    BY <1>2, <1>4, <2>2, <2>4, <2>5, <2>6
  <2>8. PICK q \in Nat, r \in Nat : q = m - 1 /\ r = n + i /\ r < n
    BY <2>7
  <2>9. SignExtended(i) % n = r
    <3>1. SignExtended(i) = q * n + r
      BY <2>7, <2>8
    <3>2. (q * n + r) % n = r
      BY <2>4, <2>8, DivUnique
    <3>3. QED
      BY <3>1, <3>2
  <2>10. r >= half
    BY <1>2, <2>4, <2>8
  <2>11. Int32(SignExtended(i)) = r - n
    BY <1>1, <2>4, <2>9, <2>10 DEF Int32
  <2>12. QED
    BY <1>2, <2>4, <2>8, <2>11
<1>5. QED
  BY <1>2, <1>3, <1>4

-----------------------------------------------------------------------------
(* Varints.  All bytes but the last say that more follow, and the digits   *)
(* are the number's.                                                       *)
LEMMA VarintBytes ==
    ASSUME NEW v \in Nat, v < Wide, NEW n, n = Len(Varint(v))
    PROVE  /\ n \in 1..MaxVarintBytes /\ MaxVarintBytes \in Nat
           /\ v < 2^(7 * n)
           /\ Varint(v)[n] < More
           /\ \A k \in 1..n : /\ Varint(v)[k] \in 0..255
                              /\ k < n => Varint(v)[k] >= More
                              /\ Varint(v)[k] % More = (v \div 2^(7 * (k - 1))) % More
<1> DEFINE Enough == {k \in 1..MaxVarintBytes : v < 2^(7 * k)}
<1>1. n \in 1..MaxVarintBytes /\ MaxVarintBytes \in Nat /\ Varint(v) \in Seq(0..255)
  BY VarintType, WidthAssumption
<1>2. PICK length : length = VarintLength(v)
  OBVIOUS
<1>3. Varint(v) = [k \in 1..length |->
                     ((v \div 2^(7 * (k - 1))) % More) + (IF k < length THEN More ELSE 0)]
  BY <1>2 DEF Varint
<1>4. length = n /\ length \in Enough
  <2>1. PICK w \in Nat, most \in Nat :
          w = 2^WideBits /\ most = 2^(7 * MaxVarintBytes) /\ w <= most
    BY <1>1, WidthAssumption, PowerOfTwo, PowersGrow
  <2>2. MaxVarintBytes \in Enough
    BY <1>1, <2>1 DEF Wide
  <2>3. Enough \subseteq Nat
    BY <1>1
  <2> HIDE DEF Enough
  <2>4. VarintLength(v) \in Enough
    <3>1. VarintLength(v) = Min(Enough)
      BY DEF VarintLength, Enough
    <3>2. QED
      BY <2>2, <2>3, <3>1, MinIsLeast
  <2>5. length \in Nat
    BY <1>2, <2>3, <2>4
  <2>6. length = n
    <3>1. DOMAIN Varint(v) = 1..length
      BY <1>3
    <3>2. QED
      BY <1>1, <2>5, <3>1
  <2>7. QED
    BY <1>2, <2>4, <2>6
<1>5. v < 2^(7 * n)
  BY <1>4
<1>6. ASSUME NEW k \in 1..n
      PROVE  /\ Varint(v)[k] \in 0..255
             /\ k < n => Varint(v)[k] >= More
             /\ k = n => Varint(v)[k] < More
             /\ Varint(v)[k] % More = (v \div 2^(7 * (k - 1))) % More
  <2>1. 7 * (k - 1) \in Nat
    BY <1>1
  <2>2. PICK p \in Nat \ {0} : p = 2^(7 * (k - 1))
    BY <2>1, PowerOfTwo
  <2>3. PICK q \in Nat : q = v \div p
    BY DivParts
  <2>4. PICK low \in 0..127 : low = q % 128
    OBVIOUS
  <2>5. Varint(v)[k] = low + (IF k < n THEN 128 ELSE 0)
    BY <1>3, <1>4, <2>2, <2>3, <2>4 DEF More
  <2>6. Varint(v)[k] % 128 = low
    <3>1. low % 128 = low /\ (low + 128) % 128 = low
      OBVIOUS
    <3>2. QED
      BY <2>5, <3>1
  <2>7. Varint(v)[k] % More = (v \div 2^(7 * (k - 1))) % More
    BY <2>2, <2>3, <2>4, <2>6 DEF More
  <2>8. k < n \/ k = n
    BY <1>1
  <2>9. QED
    BY <2>4, <2>5, <2>7, <2>8 DEF More
<1>7. QED
  BY <1>1, <1>5, <1>6

(* The digits of bytes that are a number's varint give the number.         *)
LEMMA DigitsOfVarint ==
    ASSUME NEW v \in Nat, v < Wide, NEW n \in Nat \ {0}, n = Len(Varint(v)),
           NEW p \in Nat \ {0}, bytes \in Seq(0..255), p + n - 1 <= Len(bytes),
           \A k \in 1..n : bytes[p + k - 1] = Varint(v)[k]
    PROVE  Digits(p, p + n - 1) = v
<1>1. /\ v < 2^(7 * n)
      /\ \A k \in 1..n : Varint(v)[k] % More = (v \div 2^(7 * (k - 1))) % More
  BY VarintBytes, ZenonT(60)
<1>a. \A x, y \in Nat \ {0} : /\ x + y - 1 \in Nat /\ (y + 1) - 1 = y
                                /\ x + (y + 1) - 1 = (x + y - 1) + 1
  BY ONLY TRUE
<1>2. PICK last \in Nat : last = p + n - 1 /\ last + 1 = p + (n + 1) - 1
  BY <1>a
<1>b. last <= Len(bytes)
  BY <1>2
<1> DEFINE Sums(f) == f = [k \in p..(last + 1) |->
                             IF k > last THEN 0 ELSE (bytes[k] % More) + More * f[k + 1]]
           value == CHOOSE f : Sums(f)
<1>3. Digits(p, last) = value[p] % Wide
  BY DEF Digits
<1>4. \E f \in [p..(last + 1) -> Nat] : Sums(f)
  BY <1>b, DigitsExist
<1>5. Sums(value)
  BY <1>4
<1> HIDE DEF value
<1> DEFINE Fits(k) == value[p + k - 1] = v \div 2^(7 * (k - 1))
           Right   == {d \in Nat : \A k \in 1..(n + 1) : k + d > n => Fits(k)}
<1>6. 0 \in Right
  <2> SUFFICES ASSUME NEW k \in 1..(n + 1), k + 0 > n
               PROVE  value[p + k - 1] = v \div 2^(7 * (k - 1))
    OBVIOUS
  <2>1. k = n + 1 /\ 7 * (k - 1) = 7 * n /\ p + k - 1 = last + 1
    <3>1. k = n + 1
      OBVIOUS
    <3>2. QED
      BY <1>a, <1>2, <3>1
  <2>2. value[last + 1] = 0
    BY <1>1, <1>2, <1>5
  <2>3. PICK a \in Nat \ {0} : a = 2^(7 * n)
    BY <1>1, PowerOfTwo
  <2>4. v \div a = 0
    <3>1. v = 0 * a + v /\ v < a
      BY <1>1, <2>3
    <3>2. QED
      BY <3>1, DivUnique
  <2>5. QED
    BY <2>1, <2>2, <2>3, <2>4
<1>7. ASSUME NEW d \in Nat, d \in Right PROVE d + 1 \in Right
  <2> SUFFICES ASSUME NEW k \in 1..(n + 1), k + (d + 1) > n PROVE Fits(k)
    <3> HIDE DEF Fits
    <3>1. d + 1 \in Nat
      OBVIOUS
    <3>2. QED
      BY <3>1
  <2>1. CASE k = n + 1
    <3> HIDE DEF Fits
    <3>1. QED
      BY <1>6, <2>1
  <2>2. CASE k # n + 1
    <3>1. k \in 1..n /\ k + 1 \in 1..(n + 1) /\ (k + 1) + d > n
      BY <1>1, <2>2
    <3>2. Fits(k + 1)
      <4> HIDE DEF Fits
      <4>1. QED
        BY <1>7, <3>1
    <3>3. PICK at \in Nat : at = p + k - 1 /\ at + 1 = p + (k + 1) - 1 /\ at \in p..last
      BY <1>1, <1>2, <3>1
    <3>4. PICK e \in Nat : e = 7 * (k - 1) /\ e + 7 = 7 * ((k + 1) - 1)
      BY <1>1, <3>1
    <3>5. PICK a \in Nat \ {0} : a = 2^e
      BY PowerOfTwo
    <3>6. 2^(e + 7) = 128 * a
      BY <3>5, SevenBits
    <3>7. PICK q \in Nat : q = v \div a
      BY DivParts
    <3>8. value[at + 1] = q \div 128
      <4>1. value[at + 1] = v \div (128 * a)
        BY <3>2, <3>3, <3>4, <3>6
      <4>2. (v \div a) \div 128 = v \div (128 * a)
        BY <3>5, DivTwice, ZenonT(60)
      <4>3. QED
        BY <3>7, <4>1, <4>2
    <3>9. bytes[at] % More = q % 128
      <4>1. bytes[at] = Varint(v)[k]
        BY <3>1, <3>3
      <4>2. QED
        BY <1>1, <3>1, <3>4, <3>5, <3>7, <4>1 DEF More
    <3>10. value[at] = (q % 128) + 128 * (q \div 128)
      <4>1. at \in p..(last + 1) /\ ~(at > last)
        BY <1>2, <3>3
      <4>2. value[at] = (bytes[at] % More) + More * value[at + 1]
        BY <1>5, <4>1
      <4>3. QED
        BY <3>8, <3>9, <4>2 DEF More
    <3>11. value[at] = q
      BY <3>10
    <3>12. QED
      BY <3>3, <3>4, <3>5, <3>7, <3>11
  <2>3. QED
    BY <2>1, <2>2
<1>8. n \in Right
  <2> HIDE DEF Right
  <2>1. Nat \subseteq Right
    BY <1>6, <1>7, CountsThrough
  <2>2. QED
    BY <1>1, <2>1
<1>9. value[p] = v
  <2>1. 1 \in 1..(n + 1) /\ 1 + n > n /\ p + 1 - 1 = p /\ 7 * (1 - 1) = 0
    BY <1>1
  <2>2. value[p + 1 - 1] = v \div 2^(7 * (1 - 1))
    BY <1>8, <2>1
  <2>3. 2^0 = 1
    OBVIOUS
  <2>4. v \div 1 = v
    OBVIOUS
  <2>5. QED
    BY <2>1, <2>2, <2>3, <2>4
<1>10. v % Wide = v
  <2>1. PICK w \in Nat \ {0} : w = Wide
    BY Widths
  <2>2. v = 0 * w + v /\ v < w
    BY <2>1
  <2>3. QED
    BY <2>1, <2>2, DivUnique
<1>11. QED
  BY <1>2, <1>3, <1>9, <1>10

-----------------------------------------------------------------------------
LEMMA BytesCount == \A s \in Seq(0..255) : Len(s) \in Nat
OBVIOUS

(* What was sent, and how much of it was received.                         *)
received == input.received
sent     == input.sent

(* What was received from start on is the text, as far as it goes.         *)
Agrees(start, text) ==
    \A j \in 1..Len(text) : start + j <= received => bytes[start + j] = text[j]

ReceivedOK == BytesTyped /\ packed = NotPacked /\ received \in 0..Len(bytes)

(* A varint that was received is read as the number it was written from;   *)
(* one that was cut is not read, or read beyond of what was received.      *)
LEMMA VarintReceived ==
    ASSUME ReceivedOK, NEW p \in Nat \ {0}, p <= received + 1,
           NEW v \in Nat, v < Wide, NEW n \in Nat \ {0}, n = Len(Varint(v)),
           Agrees(p - 1, Varint(v))
    PROVE  /\ p + n - 1 <= received =>
                ReadVarint(p) = [ok |-> TRUE, value |-> v, next |-> p + n]
           /\ p + n - 1 > received /\ ReadVarint(p).ok => ReadVarint(p).next > received + 1
<1>1. /\ n \in 1..MaxVarintBytes /\ MaxVarintBytes \in Nat
      /\ Varint(v)[n] < More
      /\ \A k \in 1..n : k < n => Varint(v)[k] >= More
      /\ \A k \in 1..n : Varint(v)[k] \in 0..255
  BY VarintBytes
<1>2. PICK length \in Nat : length = Len(bytes) /\ received \in 0..length
  BY DEF ReceivedOK, BytesTyped
<1>3. Limit = length
  BY <1>2 DEF ReceivedOK, Limit
<1>4. PICK upto \in Int :
        /\ upto = Min({p + MaxVarintBytes - 1, length})
        /\ upto = IF p + MaxVarintBytes - 1 <= length THEN p + MaxVarintBytes - 1 ELSE length
  <2>1. PICK most \in Int : most = p + MaxVarintBytes - 1
    BY <1>1
  <2>2. PICK least \in Int : least = IF most <= length THEN most ELSE length
    OBVIOUS
  <2>3. Min({most, length}) = least
    BY <2>2, MinPair
  <2>4. QED
    BY <2>1, <2>2, <2>3
<1>5. LastBytes(p) = {k \in p..upto : bytes[k] < More}
  BY <1>3, <1>4 DEF LastBytes
<1>6. \A k \in 1..n : p + k - 1 <= received => bytes[p + k - 1] = Varint(v)[k]
  <2> SUFFICES ASSUME NEW k \in 1..n, p + k - 1 <= received
               PROVE  bytes[p + k - 1] = Varint(v)[k]
    OBVIOUS
  <2>1. (p - 1) + k = p + k - 1
    OBVIOUS
  <2>2. (p - 1) + k <= received
    BY <2>1
  <2>3. bytes[(p - 1) + k] = Varint(v)[k]
    BY <2>2 DEF Agrees
  <2>4. QED
    BY <2>1, <2>3
<1>7. \A at \in p..received : at < p + n - 1 => ~(bytes[at] < More)
  <2> SUFFICES ASSUME NEW at \in p..received, at < p + n - 1 PROVE ~(bytes[at] < More)
    OBVIOUS
  <2>0. received \in Nat
    BY <1>2
  <2>1. PICK k \in 1..n : at = p + k - 1 /\ k < n
    <3>1. at - p + 1 \in 1..n /\ at = p + (at - p + 1) - 1 /\ at - p + 1 < n
      BY <2>0
    <3>2. QED
      BY <3>1
  <2>2. bytes[at] = Varint(v)[k] /\ Varint(v)[k] >= More /\ Varint(v)[k] \in 0..255
    BY <1>1, <1>6, <2>0, <2>1
  <2>3. PICK b \in 0..255 : b = bytes[at] /\ b >= 128
    BY <2>2 DEF More
  <2>4. QED
    BY <2>3 DEF More
<1>8. LastBytes(p) \subseteq Nat
  BY <1>5
<1>9. ASSUME p + n - 1 <= received
      PROVE  ReadVarint(p) = [ok |-> TRUE, value |-> v, next |-> p + n]
  <2>0. \A x, y \in Nat \ {0} : x + y - 1 \in Nat
    BY ONLY TRUE
  <2>1. PICK last \in Nat : last = p + n - 1
    BY <2>0
  <2>2. last \in LastBytes(p)
    <3>1. last \in p..upto
      BY <1>1, <1>2, <1>4, <1>9, <2>1
    <3>2. bytes[last] = Varint(v)[n]
      BY <1>1, <1>6, <1>9, <2>1
    <3>3. QED
      BY <1>1, <1>5, <3>1, <3>2
  <2>3. \A k \in LastBytes(p) : last <= k
    <3> SUFFICES ASSUME NEW k \in LastBytes(p), k < last PROVE FALSE
      BY <1>8, <2>1
    <3>1. k \in p..received /\ k < p + n - 1 /\ bytes[k] < More
      BY <1>2, <1>5, <1>8, <1>9, <2>1
    <3>2. QED
      BY <1>7, <3>1
  <2>4. Min(LastBytes(p)) = last
    <3>1. PICK least : least = Min(LastBytes(p))
      OBVIOUS
    <3>2. least \in LastBytes(p) /\ \A y \in LastBytes(p) : least <= y
      <4>1. LastBytes(p) # {}
        BY <2>2
      <4>2. QED
        BY <1>8, <3>1, <4>1, MinIsLeast
    <3>3. least <= last /\ last <= least /\ least \in Nat
      BY <1>8, <2>2, <2>3, <3>2
    <3>4. QED
      BY <2>1, <3>1, <3>3
  <2>5. Digits(p, last) = v
    <3>1. p + n - 1 <= Len(bytes) /\ \A k \in 1..n : bytes[p + k - 1] = Varint(v)[k]
      BY <1>2, <1>6, <1>9
    <3>2. bytes \in Seq(0..255)
      BY DEF ReceivedOK, BytesTyped
    <3>3. Digits(p, p + n - 1) = v
      BY <3>1, <3>2, DigitsOfVarint
    <3>4. QED
      BY <2>1, <3>3
  <2>6. ReadVarint(p) = [ok |-> TRUE, value |-> v, next |-> last + 1]
    BY <2>2, <2>4, <2>5 DEF ReadVarint
  <2>7. last + 1 = p + n
    BY <2>1
  <2>8. QED
    BY <2>6, <2>7
<1>10. ASSUME p + n - 1 > received, ReadVarint(p).ok
       PROVE  ReadVarint(p).next > received + 1
  <2>1. LastBytes(p) # {}
    BY <1>10 DEF ReadVarint
  <2>2. PICK last \in LastBytes(p) : last = Min(LastBytes(p))
    BY <1>8, <2>1, MinIsLeast
  <2>3. ReadVarint(p).next = last + 1
    BY <2>1, <2>2 DEF ReadVarint
  <2>4. last > received
    <3> SUFFICES ASSUME last <= received PROVE FALSE
      BY <1>2, <1>8, <2>2
    <3>1. last \in p..received /\ last < p + n - 1 /\ bytes[last] < More
      BY <1>2, <1>5, <1>8, <1>10, <2>2
    <3>2. QED
      BY <1>7, <3>1
  <2>5. QED
    BY <1>2, <1>8, <2>2, <2>3, <2>4
<1>11. QED
  BY <1>9, <1>10

(* A number below 128 is written as it is.                                 *)
LEMMA SmallVarint == \A v \in 0..127 : Varint(v) = <<v>> /\ v < Wide /\ v < Narrow
<1> SUFFICES ASSUME NEW v \in 0..127 PROVE Varint(v) = <<v>> /\ v < Wide /\ v < Narrow
  OBVIOUS
<1>1. 2^7 = 128
  OBVIOUS
<1>2. 128 <= Narrow /\ Narrow \in Nat /\ 128 <= Wide /\ Wide \in Nat
  <2>1. Narrow <= Wide /\ Wide \in Nat /\ Narrow \in Nat
    BY WidthAssumption, PowersGrow, Widths DEF Narrow, Wide
  <2>2. 2^7 <= Narrow
    BY WidthAssumption, PowersGrow DEF Narrow
  <2>3. QED
    BY <1>1, <2>1, <2>2
<1>3. MaxVarintBytes \in Nat \ {0}
  BY WidthAssumption
<1> DEFINE Enough == {n \in 1..MaxVarintBytes : v < 2^(7 * n)}
<1>4. 1 \in Enough
  BY <1>1, <1>3
<1>5. Enough \subseteq Nat /\ \A n \in Enough : 1 <= n
  BY <1>3
<1>6. VarintLength(v) = 1
  <2>1. VarintLength(v) = Min(Enough)
    BY DEF VarintLength
  <2> HIDE DEF Enough
  <2>2. PICK m : m = Min(Enough)
    OBVIOUS
  <2>3. m \in Enough /\ m <= 1 /\ m \in Nat /\ 1 <= m
    BY <1>4, <1>5, <2>2, MinIsLeast
  <2>4. m = 1
    BY <2>3
  <2>5. QED
    BY <2>1, <2>2, <2>4
<1>7. Varint(v) = [k \in 1..1 |-> ((v \div 2^(7 * (k - 1))) % More) + (IF k < 1 THEN More ELSE 0)]
  BY <1>6 DEF Varint
<1>8. 2^(7 * (1 - 1)) = 1 /\ v \div 1 = v /\ v % 128 = v
  <2>1. 7 * (1 - 1) = 0 /\ 2^0 = 1
    OBVIOUS
  <2>2. QED
    BY <2>1
<1>9. DOMAIN Varint(v) = 1..1 /\ Varint(v)[1] = v
  BY <1>7, <1>8 DEF More
<1>10. Varint(v) = <<v>>
  <2>1. Varint(v) = [k \in 1..1 |-> v]
    BY <1>7, <1>8 DEF More
  <2>2. QED
    BY <2>1
<1>11. QED
  BY <1>2, <1>10

(* A tag the classes use is a single byte, and says number and wire type.  *)
LEMMA TagThere ==
    ASSUME ReceivedOK, pos \in Nat \ {0}, pos <= received, NEW n \in 1..4,
           NEW wireType \in {VARINT, LENGTH_DELIMITED}, bytes[pos] = MakeTag(n, wireType)
    PROVE  /\ Tag \in 1..127 /\ Number = n /\ WireType = wireType /\ TagEnd = pos + 1
<1>1. PICK tag \in 1..127 : tag = MakeTag(n, wireType) /\ tag \div 8 = n /\ tag % 8 = wireType
  BY DEF MakeTag, VARINT, LENGTH_DELIMITED
<1>2. Varint(tag) = <<tag>> /\ tag < Wide /\ tag < Narrow /\ Narrow \in Nat
  BY SmallVarint, Widths
<1>3. Agrees(pos - 1, Varint(tag))
  <2>1. \A j \in 1..Len(<<tag>>) : j = 1 /\ (pos - 1) + j = pos
    OBVIOUS
  <2>2. <<tag>>[1] = tag
    OBVIOUS
  <2>3. QED
    BY <1>1, <1>2, <2>1, <2>2 DEF Agrees
<1>4. received \in Nat
  BY DEF ReceivedOK, BytesTyped
<1>5. ReadVarint(pos) = [ok |-> TRUE, value |-> tag, next |-> pos + 1]
  <2>1. Len(Varint(tag)) = 1 /\ pos + 1 - 1 <= received /\ pos <= received + 1
    BY <1>2, <1>4
  <2>2. PICK one \in Nat \ {0} : one = 1 /\ one = Len(Varint(tag))
    BY <2>1
  <2>3. tag \in Nat /\ pos + one - 1 <= received
    BY <2>1, <2>2
  <2>4. ReadVarint(pos) = [ok |-> TRUE, value |-> tag, next |-> pos + one]
    BY <1>2, <1>3, <2>1, <2>2, <2>3, VarintReceived
  <2>5. QED
    BY <2>2, <2>4
<1>6. tag % Narrow = tag
  <2>1. PICK w \in Nat \ {0} : w = Narrow /\ tag < w
    BY <1>2
  <2>2. tag = 0 * w + tag
    BY <2>1
  <2>3. QED
    BY <2>1, <2>2, DivUnique
<1>7. QED
  BY <1>1, <1>5, <1>6 DEF Tag, TagEnd, Number, WireType

-----------------------------------------------------------------------------
(* Layout: where the texts are that FlattenSeq joins.                      *)
(* Where each of some texts begins when they are written one by one.       *)
Starts(seqs, at) ==
    /\ at \in [1..(Len(seqs) + 1) -> Nat] /\ at[1] = 0
    /\ \A i \in 1..Len(seqs) : at[i + 1] = at[i] + Len(seqs[i])

LaidOut(s, seqs, at) ==
    /\ Starts(seqs, at) /\ at[Len(seqs) + 1] = Len(s)
    /\ \A i \in 1..Len(seqs) : \A j \in 1..Len(seqs[i]) : s[at[i] + j] = seqs[i][j]

(* Each text begins where the one before it ends.                          *)
LEMMA FlattenLayout ==
    ASSUME NEW S, NEW seqs \in Seq(Seq(S))
    PROVE  \E at : LaidOut(FlattenSeq(seqs), seqs, at)
<1> DEFINE Flat(f) == f = [i \in 1..Len(seqs) |->
                             IF i = 1 THEN seqs[i] ELSE f[i - 1] \o seqs[i]]
           flatten == CHOOSE f : Flat(f)
<1>1. PICK n \in Nat : n = Len(seqs)
  OBVIOUS
<1>2. CASE n = 0
  <2>1. FlattenSeq(seqs) = seqs
    BY <1>1, <1>2 DEF FlattenSeq
  <2> DEFINE at == [i \in 1..1 |-> 0]
  <2>2. at \in [1..(n + 1) -> Nat] /\ at[1] = 0 /\ at[n + 1] = 0
    BY <1>2
  <2>3. 1..n = {} /\ Len(seqs) = 0
    BY <1>1, <1>2
  <2> HIDE DEF at
  <2>4. LaidOut(seqs, seqs, at)
    BY <1>1, <1>2, <2>2, <2>3 DEF LaidOut, Starts
  <2>5. QED
    BY <2>1, <2>4
<1>3. CASE n > 0
  <2>1. FlattenSeq(seqs) = flatten[n]
    BY <1>1, <1>3 DEF FlattenSeq
  <2>2. Flat(flatten)
    BY <1>1, FlattenExists
  <2> HIDE DEF flatten
  <2>3. \A i \in 1..n : seqs[i] \in Seq(S) /\ Len(seqs[i]) \in Nat
    BY <1>1, ElementOfSeq
  <2>4. flatten[1] = seqs[1] /\ \A i \in 1..n : i # 1 => flatten[i] = flatten[i - 1] \o seqs[i]
    <3>1. \A i \in 1..n : flatten[i] = IF i = 1 THEN seqs[i] ELSE flatten[i - 1] \o seqs[i]
      BY <1>1, <2>2
    <3>2. 1 \in 1..n
      BY <1>3
    <3>3. QED
      BY <3>1, <3>2
  <2> DEFINE Holds(m, i) == /\ Len(flatten[m]) <= Len(flatten[i])
                            /\ \A k \in 1..Len(flatten[m]) : flatten[i][k] = flatten[m][k]
             Good(i) == flatten[i] \in Seq(S) /\ \A m \in 1..i : Holds(m, i)
             Grows == {d \in Nat : \A i \in 1..n : i <= d => Good(i)}
  <2>5. 0 \in Grows
    <3> HIDE DEF Good
    <3>1. QED
      OBVIOUS
  <2>6. ASSUME NEW d \in Nat, d \in Grows PROVE d + 1 \in Grows
    <3>1. ASSUME NEW i \in 1..n, i <= d + 1 PROVE Good(i)
      <4>1. CASE i = 1
        <5>1. flatten[1] \in Seq(S)
          BY <1>3, <2>3, <2>4
        <5>2. Len(flatten[1]) \in Nat
          BY <5>1
        <5>3. \A m \in 1..1 : m = 1
          OBVIOUS
        <5>4. QED
          BY <4>1, <5>1, <5>2, <5>3
      <4>2. CASE i # 1
        <5>1. i - 1 \in 1..n /\ i - 1 <= d
          BY <4>2, <3>1
        <5>2. Good(i - 1)
          <6> HIDE DEF Good
          <6>1. QED
            BY <2>6, <5>1
        <5>3. PICK f \in Seq(S), g \in Seq(S) :
                f = flatten[i - 1] /\ g = seqs[i] /\ flatten[i] = f \o g
          BY <2>3, <2>4, <4>2, <5>2
        <5>4. /\ f \o g \in Seq(S) /\ Len(f \o g) = Len(f) + Len(g)
              /\ \A k \in 1..Len(f) : (f \o g)[k] = f[k]
          BY ConcatProperties
        <5>5. Len(f) \in Nat /\ Len(g) \in Nat
          OBVIOUS
        <5>6. ASSUME NEW m \in 1..i PROVE Holds(m, i)
          <6>1. CASE m = i
            <7>1. PICK h \in Seq(S) : h = flatten[i]
              BY <5>3, <5>4
            <7>2. Len(h) <= Len(h)
              OBVIOUS
            <7>3. QED
              BY <6>1, <7>1, <7>2
          <6>2. CASE m # i
            <7>1. m \in 1..(i - 1)
              BY <6>2
            <7>2. PICK h : h = flatten[m]
              OBVIOUS
            <7>3. Len(h) <= Len(f) /\ \A k \in 1..Len(h) : f[k] = h[k]
              BY <5>2, <5>3, <7>1, <7>2
            <7>4. h \in Seq(S) /\ Len(h) \in Nat
              <8> HIDE DEF Holds
              <8>1. m <= d /\ m \in 1..n
                BY <5>1, <7>1
              <8>2. Good(m)
                <9> HIDE DEF Good
                <9>1. QED
                  BY <2>6, <8>1
              <8>3. QED
                BY <7>2, <8>2
            <7>5. Len(h) <= Len(f \o g) /\ \A k \in 1..Len(h) : (f \o g)[k] = h[k]
              BY <5>4, <5>5, <7>3, <7>4
            <7>6. QED
              BY <5>3, <7>2, <7>5
          <6>3. QED
            BY <6>1, <6>2
        <5>7. flatten[i] \in Seq(S)
          BY <5>3, <5>4
        <5> HIDE DEF Holds
        <5>8. QED
          BY <5>6, <5>7
      <4>3. QED
        BY <4>1, <4>2
    <3>2. QED
      <4> HIDE DEF Good
      <4>1. d + 1 \in Nat
        OBVIOUS
      <4>2. QED
        BY <3>1, <4>1
  <2>7. \A i \in 1..n : Good(i)
    <3> HIDE DEF Good
    <3>1. n \in Grows
      <4> HIDE DEF Grows
      <4>1. Nat \subseteq Grows
        BY <2>5, <2>6, CountsThrough
      <4>2. QED
        BY <4>1
    <3>2. \A i \in 1..n : i <= n
      OBVIOUS
    <3>3. QED
      BY <3>1, <3>2
  <2> DEFINE at == [i \in 1..(n + 1) |-> IF i = 1 THEN 0 ELSE Len(flatten[i - 1])]
  <2>8. \A i \in 1..n : flatten[i] \in Seq(S) /\ Len(flatten[i]) \in Nat
    BY <2>7
  <2>9. at \in [1..(n + 1) -> Nat] /\ at[1] = 0 /\ at[n + 1] = Len(flatten[n])
    <3>1. \A i \in 1..(n + 1) : i # 1 => i - 1 \in 1..n
      OBVIOUS
    <3>2. \A i \in 1..(n + 1) : (IF i = 1 THEN 0 ELSE Len(flatten[i - 1])) \in Nat
      BY <2>8, <3>1
    <3>3. n + 1 \in 1..(n + 1) /\ n + 1 # 1 /\ (n + 1) - 1 = n /\ 1 \in 1..(n + 1)
      BY <1>3
    <3>4. QED
      BY <3>2, <3>3
  <2>10. \A i \in 1..n : at[i + 1] = Len(flatten[i])
    <3>1. \A i \in 1..n : i + 1 \in 1..(n + 1) /\ i + 1 # 1 /\ (i + 1) - 1 = i
      OBVIOUS
    <3>2. QED
      BY <3>1
  <2>11. \A i \in 1..n : i # 1 => at[i] = Len(flatten[i - 1])
    OBVIOUS
  <2> HIDE DEF at
  <2>12. ASSUME NEW i \in 1..n
         PROVE  /\ at[i + 1] = at[i] + Len(seqs[i])
                /\ \A j \in 1..Len(seqs[i]) : flatten[n][at[i] + j] = seqs[i][j]
    <3>1. /\ Len(flatten[i]) = at[i] + Len(seqs[i]) /\ at[i] \in Nat
          /\ \A j \in 1..Len(seqs[i]) : flatten[i][at[i] + j] = seqs[i][j]
      <4>1. CASE i = 1
        <5>1. Len(seqs[1]) \in Nat
          BY <2>3, <4>1
        <5>2. \A j \in 1..Len(seqs[1]) : 0 + j = j
          BY <5>1
        <5>3. QED
          BY <2>4, <2>9, <4>1, <5>1, <5>2
      <4>2. CASE i # 1
        <5>1. i - 1 \in 1..n
          BY <4>2
        <5>2. PICK f \in Seq(S), g \in Seq(S) :
                f = flatten[i - 1] /\ g = seqs[i] /\ flatten[i] = f \o g
          BY <2>3, <2>4, <2>8, <4>2, <5>1
        <5>3. Len(f \o g) = Len(f) + Len(g) /\ \A j \in 1..Len(g) : (f \o g)[Len(f) + j] = g[j]
          <6>1. Len(f \o g) = Len(f) + Len(g) /\ Len(f) \in Nat /\ Len(g) \in Nat
            BY ConcatProperties
          <6>2. QED
            BY <6>1
        <5>4. at[i] = Len(f) /\ Len(f) \in Nat
          BY <2>11, <4>2, <5>2
        <5>5. QED
          BY <5>2, <5>3, <5>4
      <4>3. QED
        BY <4>1, <4>2
    <3>2. Holds(i, n)
      <4> HIDE DEF Holds
      <4>1. n \in 1..n /\ i \in 1..n
        BY <1>3
      <4>2. QED
        BY <2>7, <4>1
    <3>3. ASSUME NEW j \in 1..Len(seqs[i]) PROVE flatten[n][at[i] + j] = seqs[i][j]
      <4>1. Len(seqs[i]) \in Nat
        BY <2>3
      <4>2. at[i] + j \in 1..Len(flatten[i])
        BY <3>1, <4>1
      <4>3. flatten[n][at[i] + j] = flatten[i][at[i] + j]
        BY <3>2, <4>2
      <4>4. QED
        BY <3>1, <4>3
    <3>4. QED
      BY <2>10, <3>1, <3>3
  <2>13. LaidOut(flatten[n], seqs, at)
    BY <1>1, <2>9, <2>12 DEF LaidOut, Starts
  <2>14. QED
    BY <2>1, <2>13
<1>4. QED
  BY <1>2, <1>3

(* Later texts start no earlier.                                           *)
LEMMA StartsGrow ==
    ASSUME NEW n \in Nat, NEW at \in [1..(n + 1) -> Nat],
           \A i \in 1..n : at[i] <= at[i + 1]
    PROVE  \A i \in 1..(n + 1) : at[i] <= at[n + 1]
<1> DEFINE Fine == {d \in Nat : \A i \in 1..(n + 1) : i + d = n + 1 => at[i] <= at[n + 1]}
<1>1. 0 \in Fine
  <2>1. \A i \in 1..(n + 1) : i + 0 = n + 1 => i = n + 1
    OBVIOUS
  <2>2. at[n + 1] \in Nat
    OBVIOUS
  <2>3. QED
    BY <2>1, <2>2
<1>2. ASSUME NEW d \in Nat, d \in Fine PROVE d + 1 \in Fine
  <2> SUFFICES ASSUME NEW i \in 1..(n + 1), i + (d + 1) = n + 1 PROVE at[i] <= at[n + 1]
    OBVIOUS
  <2>1. i \in 1..n /\ i + 1 \in 1..(n + 1) /\ (i + 1) + d = n + 1
    OBVIOUS
  <2>2. at[i + 1] <= at[n + 1] /\ at[i] <= at[i + 1]
    BY <1>2, <2>1
  <2>3. at[i] \in Nat /\ at[i + 1] \in Nat /\ at[n + 1] \in Nat
    BY <2>1
  <2>4. QED
    BY <2>2, <2>3
<1>3. Nat \subseteq Fine
  <2> HIDE DEF Fine
  <2>1. QED
    BY <1>1, <1>2, CountsThrough
<1>4. \A i \in 1..(n + 1) : (n + 1) - i \in Nat /\ i + ((n + 1) - i) = n + 1
  OBVIOUS
<1>5. QED
  BY <1>3, <1>4

-----------------------------------------------------------------------------
(* Layout: where the fields of a message are in its bytes.                 *)
Text(n) == WriteField(schema, n, sent[n])

(* Where each field of the message that was sent begins in the bytes.      *)
Placed(at) ==
    /\ at \in [1..(Len(schema) + 1) -> Nat] /\ at[1] = 0
    /\ \A n \in 1..Len(schema) : at[n + 1] = at[n] + Len(Text(n)) /\ Agrees(at[n], Text(n))
    /\ received \in 0..Len(bytes) /\ received <= at[Len(schema) + 1]
    /\ input.source = "whole" => received = Len(bytes) /\ received = at[Len(schema) + 1]

(* A message that is cut, or whole and without fields of newer classes.    *)
OwnFields == input.source = "cut" \/ (input.source = "whole" /\ Unknowns = {})

InputOK == OwnFields => sent \in MessagesOf(schema) /\ \E at : Placed(at)

(* Parts of a text, two texts one behind the other, and texts with one more.*)
LEMMA PartOf ==
    ASSUME NEW S, NEW s \in Seq(S), NEW i \in Nat, NEW m \in Nat, i + m <= Len(s)
    PROVE  /\ SubSeq(s, i + 1, i + m) \in Seq(S) /\ Len(SubSeq(s, i + 1, i + m)) = m
           /\ \A k \in 1..m : SubSeq(s, i + 1, i + m)[k] = s[i + k]
<1>1. /\ i + 1 \in Nat \ {0} /\ i + m \in Nat /\ i + 1 <= (i + m) + 1
      /\ (i + m) - (i + 1) + 1 = m
  OBVIOUS
<1>2. \A k \in (i + 1)..(i + m) : s[k] \in S
  <2>1. Len(s) \in Nat /\ \A k \in 1..Len(s) : s[k] \in S
    BY ElementOfSeq
  <2>2. \A k \in (i + 1)..(i + m) : k \in 1..Len(s)
    BY <2>1
  <2>3. QED
    BY <2>1, <2>2
<1>3. SubSeq(s, i + 1, i + m) \in Seq(S) /\ Len(SubSeq(s, i + 1, i + m)) = m
  <2>1. PICK x \in Nat, y \in Nat : x = i + 1 /\ y = i + m /\ x <= y + 1 /\ y - x + 1 = m
    BY <1>1
  <2>2. SubSeq(s, x, y) \in Seq(S) /\ Len(SubSeq(s, x, y)) = y - x + 1
    <3>1. \A k \in x..y : s[k] \in S
      BY <1>2, <2>1
    <3>2. Len(SubSeq(s, x, y)) = IF x <= y THEN y - x + 1 ELSE 0
      BY <2>1, <3>1, SubSeqProperties
    <3>3. SubSeq(s, x, y) \in Seq(S)
      BY <2>1, <3>1, SubSeqProperties
    <3>4. QED
      BY <2>1, <3>2, <3>3
  <2>3. QED
    BY <2>1, <2>2
<1>4. ASSUME NEW k \in 1..m PROVE SubSeq(s, i + 1, i + m)[k] = s[i + k]
  <2>1. SubSeq(s, i + 1, i + m) = [j \in 1..((i + m) - (i + 1) + 1) |-> s[(i + 1) + j - 1]]
    OBVIOUS
  <2>2. SubSeq(s, i + 1, i + m)[k] = s[(i + 1) + k - 1]
    BY <1>1, <2>1
  <2>3. (i + 1) + k - 1 = i + k
    OBVIOUS
  <2>4. QED
    BY <2>2, <2>3
<1>5. QED
  BY <1>3, <1>4

LEMMA JoinOf ==
    ASSUME NEW S, NEW s \in Seq(S), NEW t \in Seq(S),
           NEW m \in Nat, m = Len(s), NEW n \in Nat, n = Len(t)
    PROVE  /\ s \o t \in Seq(S) /\ Len(s \o t) = m + n
           /\ \A k \in 1..m : (s \o t)[k] = s[k]
           /\ \A k \in 1..n : (s \o t)[m + k] = t[k]
OBVIOUS

Inserted(more, s, i, e, n) ==
    /\ Len(more) = n + 1 /\ more[i] = e
    /\ \A k \in 1..(n + 1) : k < i => more[k] = s[k]
    /\ \A k \in 1..(n + 1) : k > i => more[k] = s[k - 1]

LEMMA InsertedAt ==
    ASSUME NEW S, NEW s \in Seq(S), NEW e \in S, NEW n \in Nat, n = Len(s), NEW i \in 1..(n + 1)
    PROVE  InsertAt(s, i, e) \in Seq(S) /\ Inserted(InsertAt(s, i, e), s, i, e, n)
<1>1. PICK a \in Nat, b \in Nat : a = i - 1 /\ i = a + 1 /\ b = n - a
  <2>1. i - 1 \in Nat /\ n - (i - 1) \in Nat /\ i = (i - 1) + 1
    OBVIOUS
  <2>2. QED
    BY <2>1
<1>2. PICK before \in Seq(S) : /\ before = SubSeq(s, 1, i - 1) /\ Len(before) = a
                               /\ \A k \in 1..a : before[k] = s[k]
  <2>1. 0 + a <= Len(s) /\ 0 + 1 = 1 /\ 0 + a = i - 1 /\ \A k \in 1..a : 0 + k = k
    BY <1>1
  <2>2. /\ SubSeq(s, 0 + 1, 0 + a) \in Seq(S) /\ Len(SubSeq(s, 0 + 1, 0 + a)) = a
        /\ \A k \in 1..a : SubSeq(s, 0 + 1, 0 + a)[k] = s[0 + k]
    BY <2>1, PartOf
  <2>3. QED
    BY <2>1, <2>2
<1>3. PICK behind \in Seq(S) : /\ behind = SubSeq(s, i, n) /\ Len(behind) = b
                               /\ \A k \in 1..b : behind[k] = s[a + k]
  <2>1. a + b <= Len(s) /\ a + 1 = i /\ a + b = n
    BY <1>1
  <2>2. /\ SubSeq(s, a + 1, a + b) \in Seq(S) /\ Len(SubSeq(s, a + 1, a + b)) = b
        /\ \A k \in 1..b : SubSeq(s, a + 1, a + b)[k] = s[a + k]
    BY <2>1, PartOf
  <2>3. QED
    BY <2>1, <2>2
<1>4. InsertAt(s, i, e) = (before \o <<e>>) \o behind
  BY <1>2, <1>3 DEF InsertAt
<1>5. PICK front \in Seq(S) : /\ front = before \o <<e>> /\ Len(front) = i
                              /\ \A k \in 1..a : front[k] = s[k]
                              /\ front[i] = e
  <2>1. PICK one \in Seq(S) : one = <<e>> /\ Len(one) = 1 /\ one[1] = e
    <3>1. <<e>> \in Seq(S) /\ Len(<<e>>) = 1 /\ <<e>>[1] = e
      OBVIOUS
    <3>2. QED
      BY <3>1
  <2>2. /\ before \o one \in Seq(S) /\ Len(before \o one) = a + 1
        /\ \A k \in 1..a : (before \o one)[k] = before[k]
        /\ \A k \in 1..1 : (before \o one)[a + k] = one[k]
    BY <1>2, <2>1
  <2>3. (before \o one)[i] = e /\ Len(before \o one) = i
    BY <1>1, <2>1, <2>2
  <2>4. \A k \in 1..a : (before \o one)[k] = s[k]
    BY <1>2, <2>2
  <2>5. QED
    BY <2>1, <2>2, <2>3, <2>4
<1>6. /\ front \o behind \in Seq(S) /\ Len(front \o behind) = i + b
      /\ \A k \in 1..i : (front \o behind)[k] = front[k]
      /\ \A k \in 1..b : (front \o behind)[i + k] = behind[k]
  <2>1. PICK m \in Nat : m = i
    OBVIOUS
  <2>2. m = Len(front) /\ b = Len(behind)
    BY <1>3, <1>5, <2>1
  <2>3. /\ front \o behind \in Seq(S) /\ Len(front \o behind) = m + b
        /\ \A k \in 1..m : (front \o behind)[k] = front[k]
        /\ \A k \in 1..b : (front \o behind)[m + k] = behind[k]
    BY <2>2, JoinOf
  <2>4. QED
    BY <2>1, <2>3
<1>7. i + b = n + 1
  BY <1>1
<1>8. (front \o behind)[i] = e
  <2>1. i \in 1..i
    OBVIOUS
  <2>2. QED
    BY <1>5, <1>6, <2>1
<1>9. ASSUME NEW k \in 1..(n + 1), k < i PROVE (front \o behind)[k] = s[k]
  <2>1. k \in 1..i /\ k \in 1..a
    BY <1>1, <1>9
  <2>2. QED
    BY <1>5, <1>6, <2>1
<1>10. ASSUME NEW k \in 1..(n + 1), k > i PROVE (front \o behind)[k] = s[k - 1]
  <2>1. PICK l \in 1..b : k = i + l /\ a + l = k - 1
    <3>1. k - i \in 1..b /\ k = i + (k - i) /\ a + (k - i) = k - 1
      BY <1>1, <1>10
    <3>2. QED
      BY <3>1
  <2>2. QED
    BY <1>3, <1>6, <2>1
<1>11. QED
  BY <1>4, <1>5, <1>6, <1>7, <1>8, <1>9, <1>10 DEF Inserted

(* What Init makes of a message, cut or whole, has its fields in their places.*)
LEMMA CutIsPlaced ==
    ASSUME NEW class \in Schemas, NEW m \in MessagesOf(class), CutMessage(class, m)
    PROVE  sent \in MessagesOf(schema) /\ input.source = "cut" /\ \E at : Placed(at)
<1>1. PICK parts \in Seq(Seq(0..255)) : parts = Written(class, m) /\ Len(parts) = Len(class)
  BY WrittenType
<1>2. PICK bs \in Seq(0..255) : bs = FlattenSeq(parts)
  BY <1>1, FlattenType
<1>3. PICK k \in 0..(Len(bs) - 1), old \in Leftovers :
        input = Input("cut", class, m, SubSeq(bs, 1, k) \o old, k)
  BY <1>1, <1>2 DEF CutMessage, SerializeToArray
<1>4. /\ schema = class /\ sent = m /\ input.source = "cut" /\ received = k
      /\ bytes = SubSeq(bs, 1, k) \o old
  BY <1>3 DEF schema, sent, bytes, received, Input
<1>5. PICK old2 \in Seq(0..255) : old2 = old
  BY ParserAssumption
<1>6. PICK n \in Nat : n = Len(bs)
  OBVIOUS
<1>7. PICK front \in Seq(0..255) :
        front = SubSeq(bs, 1, k) /\ Len(front) = k /\ \A j \in 1..k : front[j] = bs[j]
  <2>1. PICK l \in Nat : l = k /\ l <= n /\ 0 + l <= n
    BY <1>6
  <2>2. 0 + 1 = 1 /\ 0 + l = l /\ \A j \in 1..l : 0 + j = j
    OBVIOUS
  <2>3. 0 + l <= Len(bs)
    BY <1>6, <2>1
  <2>4. /\ SubSeq(bs, 0 + 1, 0 + l) \in Seq(0..255) /\ Len(SubSeq(bs, 0 + 1, 0 + l)) = l
        /\ \A j \in 1..l : SubSeq(bs, 0 + 1, 0 + l)[j] = bs[0 + j]
    <3> DEFINE S == 0..255
    <3>1. bs \in Seq(S)
      OBVIOUS
    <3> HIDE DEF S
    <3>2. /\ SubSeq(bs, 0 + 1, 0 + l) \in Seq(S) /\ Len(SubSeq(bs, 0 + 1, 0 + l)) = l
          /\ \A j \in 1..l : SubSeq(bs, 0 + 1, 0 + l)[j] = bs[0 + j]
      BY <2>3, <3>1, PartOf
    <3>3. QED
      BY <3>2 DEF S
  <2>5. QED
    BY <2>1, <2>2, <2>4
<1>8. k <= Len(bytes) /\ \A j \in 1..k : bytes[j] = bs[j]
  BY <1>4, <1>5, <1>7
<1>9. PICK at : LaidOut(bs, parts, at)
  BY <1>2, FlattenLayout
<1>10. Len(class) \in Nat /\ DOMAIN class = 1..Len(class)
  BY SchemaFields, FewFields
<1>11. \A i \in 1..Len(class) : parts[i] = Text(i)
  BY <1>1, <1>4, <1>10 DEF Written, Text
<1>a. PICK c \in Nat : c = Len(class) /\ c = Len(parts)
  BY <1>1, <1>10
<1>b. /\ at \in [1..(c + 1) -> Nat] /\ at[1] = 0 /\ at[c + 1] = Len(bs)
      /\ \A i \in 1..c : at[i + 1] = at[i] + Len(parts[i])
      /\ \A i \in 1..c : \A j \in 1..Len(parts[i]) : bs[at[i] + j] = parts[i][j]
  BY <1>9, <1>a DEF LaidOut, Starts
<1>12. ASSUME NEW i \in 1..Len(class)
       PROVE  at[i + 1] = at[i] + Len(Text(i)) /\ Agrees(at[i], Text(i))
  <2>1. at[i + 1] = at[i] + Len(Text(i)) /\ at[i] \in Nat
    <3>1. i \in 1..c /\ i \in 1..(c + 1)
      BY <1>a
    <3>2. at[i] \in Nat
      BY <1>b, <3>1
    <3>3. at[i + 1] = at[i] + Len(parts[i])
      BY <1>b, <3>1
    <3>4. QED
      BY <1>11, <3>2, <3>3
  <2>2. ASSUME NEW j \in 1..Len(Text(i)), at[i] + j <= received
        PROVE  bytes[at[i] + j] = Text(i)[j]
    <3>1. bs[at[i] + j] = Text(i)[j]
      BY <1>11, <1>a, <1>b
    <3>2. at[i] + j \in 1..k
      <4>1. \A x \in Nat, y \in Nat \ {0} : x + y >= 1 /\ x + y \in Nat
        BY ONLY TRUE
      <4>2. PICK x \in Nat, y \in Nat \ {0}, z \in Nat : x = at[i] /\ y = j /\ z = k
        <5>1. at[i] \in Nat /\ j \in Nat \ {0} /\ k \in Nat
          BY <1>6, <2>1
        <5>2. QED
          BY <5>1
      <4>3. x + y <= z
        BY <1>4, <2>2, <4>2
      <4>4. x + y \in 1..z
        BY <4>1, <4>3
      <4>5. QED
        BY <4>2, <4>4
    <3>3. QED
      BY <1>8, <3>1, <3>2
  <2>3. QED
    BY <2>1, <2>2 DEF Agrees
<1>13. Placed(at)
  <2>1. at \in [1..(Len(schema) + 1) -> Nat] /\ at[1] = 0 /\ at[Len(schema) + 1] = n
    BY <1>4, <1>6, <1>a, <1>b
  <2>2. received \in 0..Len(bytes) /\ received <= n
    <3>1. Len(bytes) \in Nat
      BY <1>4, <1>5, <1>7
    <3>2. QED
      BY <1>4, <1>6, <1>8, <3>1
  <2>3. QED
    BY <1>4, <1>12, <2>1, <2>2 DEF Placed
<1>14. QED
  BY <1>4, <1>13

LEMMA WholeIsPlaced ==
    ASSUME NEW class \in Schemas, NEW m \in MessagesOf(class), WholeMessage(class, m),
           Unknowns = {}
    PROVE  sent \in MessagesOf(schema) /\ input.source = "whole" /\ \E at : Placed(at)
<1> DEFINE S == Seq(0..255)
<1>1. PICK parts \in Seq(S) : parts = Written(class, m) /\ Len(parts) = Len(class)
  BY WrittenType
<1>2. PICK i \in 1..(Len(class) + 1) :
        input = Input("whole", class, m, FlattenSeq(InsertAt(parts, i, <<>>)),
                      Len(FlattenSeq(InsertAt(parts, i, <<>>))))
  BY <1>1 DEF WholeMessage
<1>3. PICK n \in Nat : n = Len(class) /\ DOMAIN class = 1..n
  BY SchemaFields, FewFields
<1>4. <<>> \in S
  BY EmptySeq
<1>5. PICK more \in Seq(S) :
        /\ more = InsertAt(parts, i, <<>>) /\ Len(more) = n + 1
        /\ more[i] = <<>>
        /\ \A k \in 1..(n + 1) : k < i => more[k] = parts[k]
        /\ \A k \in 1..(n + 1) : k > i => more[k] = parts[k - 1]
  <2> HIDE DEF S
  <2>1. n = Len(parts) /\ i \in 1..(n + 1)
    BY <1>1, <1>2, <1>3
  <2> DEFINE e == <<>>
  <2>2. e \in S
    BY <1>4
  <2> HIDE DEF e
  <2>3. InsertAt(parts, i, e) \in Seq(S) /\ Inserted(InsertAt(parts, i, e), parts, i, e, n)
    BY <2>1, <2>2, InsertedAt
  <2>4. QED
    BY <2>3 DEF e, Inserted
<1>6. PICK bs \in Seq(0..255) : bs = FlattenSeq(more)
  BY <1>5, FlattenType
<1>7. PICK to : LaidOut(bs, more, to)
  BY <1>5, <1>6, FlattenLayout
<1>8. /\ schema = class /\ sent = m /\ input.source = "whole" /\ received = Len(bs)
      /\ bytes = bs
  BY <1>2, <1>5, <1>6 DEF schema, sent, bytes, received, Input
<1>9. /\ to \in [1..(n + 2) -> Nat] /\ to[1] = 0 /\ to[n + 2] = Len(bs)
      /\ \A k \in 1..(n + 1) : to[k + 1] = to[k] + Len(more[k])
      /\ \A k \in 1..(n + 1) : \A j \in 1..Len(more[k]) : bs[to[k] + j] = more[k][j]
  <2>1. (n + 1) + 1 = n + 2
    OBVIOUS
  <2>2. QED
    BY <1>5, <1>7, <2>1 DEF LaidOut, Starts
<1>10. to[i + 1] = to[i]
  <2>1. more[i] = <<>> /\ Len(<<>>) = 0 /\ i \in 1..(n + 1)
    BY <1>3, <1>5
  <2>2. to[i] \in Nat
    BY <1>9, <2>1
  <2>3. QED
    BY <1>9, <2>1, <2>2
<1> DEFINE at == [k \in 1..(n + 1) |-> IF k < i THEN to[k] ELSE to[k + 1]]
<1>11. \A k \in 1..(n + 1) : at[k] = IF k <= i THEN to[k] ELSE to[k + 1]
  <2>1. \A k \in 1..(n + 1) : at[k] = IF k < i THEN to[k] ELSE to[k + 1]
    OBVIOUS
  <2> HIDE DEF at
  <2>2. QED
    BY <1>3, <1>10, <2>1
<1>12. \A k \in 1..(n + 1) : at[k] = IF k < i THEN to[k] ELSE to[k + 1]
  OBVIOUS
<1>13. at \in [1..(n + 1) -> Nat]
  <2>1. \A k \in 1..(n + 1) : k \in 1..(n + 2) /\ k + 1 \in 1..(n + 2)
    OBVIOUS
  <2>2. \A k \in 1..(n + 1) : (IF k < i THEN to[k] ELSE to[k + 1]) \in Nat
    BY <1>9, <2>1
  <2>3. QED
    BY <2>2
<1> HIDE DEF at
<1>14. at[1] = 0 /\ at[n + 1] = Len(bs)
  <2>1. at[1] = to[1]
    BY <1>2, <1>3, <1>11
  <2>2. at[n + 1] = to[(n + 1) + 1] /\ (n + 1) + 1 = n + 2
    <3>1. n + 1 \in 1..(n + 1) /\ ~(n + 1 < i)
      BY <1>2, <1>3
    <3>2. QED
      BY <1>12, <3>1
  <2>3. QED
    BY <1>9, <2>1, <2>2
<1>15. \A k \in 1..n : parts[k] = Text(k)
  BY <1>1, <1>3, <1>8 DEF Written, Text
<1>16. ASSUME NEW k \in 1..n
       PROVE  /\ at[k + 1] = at[k] + Len(parts[k])
              /\ \A j \in 1..Len(parts[k]) : bs[at[k] + j] = parts[k][j]
  <2>1. CASE k < i
    <3>1. more[k] = parts[k] /\ at[k] = to[k] /\ k \in 1..(n + 1)
      <4>1. k \in 1..(n + 1)
        BY <1>3
      <4>2. QED
        BY <1>5, <1>12, <2>1, <4>1
    <3>2. at[k + 1] = to[k + 1]
      <4>1. k + 1 \in 1..(n + 1) /\ k + 1 <= i
        BY <1>3, <2>1
      <4>2. QED
        BY <1>11, <4>1
    <3>3. QED
      BY <1>9, <3>1, <3>2
  <2>2. CASE k >= i
    <3>1. PICK l \in 1..(n + 1) : l = k + 1 /\ l - 1 = k /\ l > i
      BY <1>3, <2>2
    <3>2. more[l] = parts[k]
      BY <1>3, <1>5, <3>1
    <3>3. at[k] = to[l] /\ at[l] = to[l + 1]
      <4>1. k \in 1..(n + 1) /\ ~(k < i) /\ ~(l < i)
        BY <1>3, <2>2, <3>1
      <4>2. QED
        BY <1>12, <3>1, <4>1
    <3>4. QED
      BY <1>9, <3>1, <3>2, <3>3
  <2>3. QED
    BY <1>3, <2>1, <2>2
<1>17. Placed(at)
  <2>1. Len(bs) \in Nat
    BY <1>6
  <2>2. \A k \in 1..n : Agrees(at[k], Text(k)) /\ at[k + 1] = at[k] + Len(Text(k))
    BY <1>8, <1>15, <1>16 DEF Agrees
  <2>3. QED
    BY <1>3, <1>8, <1>13, <1>14, <2>1, <2>2 DEF Placed
<1>18. QED
  BY <1>8, <1>17

LEMMA InitPlaced == Init => InputOK
<1> SUFFICES ASSUME Init, OwnFields PROVE sent \in MessagesOf(schema) /\ \E at : Placed(at)
  BY DEF InputOK
<1>1. PICK class \in Schemas :
        \/ \E m \in MessagesOf(class) : WholeMessage(class, m)
        \/ \E m \in MessagesOf(class) : CutMessage(class, m)
        \/ AnyBytes(class)
  BY DEF Init
<1>2. CASE \E m \in MessagesOf(class) : WholeMessage(class, m)
  <2>1. PICK m \in MessagesOf(class) : WholeMessage(class, m)
    BY <1>2
  <2>2. input.source = "whole"
    BY <2>1 DEF WholeMessage, Input
  <2>3. Unknowns = {}
    BY <2>2 DEF OwnFields
  <2>4. QED
    BY <2>1, <2>3, WholeIsPlaced
<1>3. CASE \E m \in MessagesOf(class) : CutMessage(class, m)
  BY <1>3, CutIsPlaced
<1>4. CASE AnyBytes(class)
  <2>1. input.source = "any"
    BY <1>4 DEF AnyBytes, Input
  <2>2. QED
    BY <2>1 DEF OwnFields
<1>5. QED
  BY <1>1, <1>2, <1>3, <1>4

-----------------------------------------------------------------------------
(* Fields: what a step makes of one that agrees with what was received.    *)
(* Of a text in two parts, both agree.                                     *)
LEMMA AgreesSplit ==
    ASSUME NEW s \in Seq(0..255), NEW t \in Seq(0..255), NEW start \in Nat,
           NEW m \in Nat, m = Len(s), Agrees(start, s \o t)
    PROVE  Agrees(start, s) /\ Agrees(start + m, t) /\ Len(s \o t) = m + Len(t)
<1>1. PICK n \in Nat : n = Len(t)
  OBVIOUS
<1>2. /\ Len(s \o t) = m + n
      /\ \A k \in 1..m : (s \o t)[k] = s[k]
      /\ \A k \in 1..n : (s \o t)[m + k] = t[k]
  BY <1>1
<1>3. ASSUME NEW k \in 1..m, start + k <= received PROVE bytes[start + k] = s[k]
  <2>1. k \in 1..Len(s \o t)
    BY <1>2
  <2>2. bytes[start + k] = (s \o t)[k]
    BY <1>3, <2>1 DEF Agrees
  <2>3. QED
    BY <1>2, <2>2
<1>4. ASSUME NEW k \in 1..n, (start + m) + k <= received PROVE bytes[(start + m) + k] = t[k]
  <2>1. m + k \in 1..Len(s \o t) /\ start + (m + k) = (start + m) + k
    BY <1>2
  <2>2. bytes[start + (m + k)] = (s \o t)[m + k]
    BY <1>4, <2>1 DEF Agrees
  <2>3. QED
    BY <1>2, <2>1, <2>2
<1>5. QED
  BY <1>1, <1>2, <1>3, <1>4 DEF Agrees

(* A field that is there: its tag, and behind it the rest of its bytes.    *)
LEMMA FieldThere ==
    ASSUME ReceivedOK, pos \in Nat \ {0}, pos <= received, NEW n \in 1..4,
           NEW wireType \in {VARINT, LENGTH_DELIMITED}, NEW rest \in Seq(0..255),
           Agrees(pos - 1, <<MakeTag(n, wireType)>> \o rest)
    PROVE  /\ Tag \in 1..127 /\ Number = n /\ WireType = wireType /\ TagEnd = pos + 1
           /\ Agrees(pos, rest)
<1>1. PICK tag \in 1..127 : tag = MakeTag(n, wireType)
  BY DEF MakeTag, VARINT, LENGTH_DELIMITED
<1>2. PICK first \in Seq(0..255) : first = <<tag>> /\ Len(first) = 1 /\ first[1] = tag
  <2>1. <<tag>> \in Seq(0..255) /\ Len(<<tag>>) = 1 /\ <<tag>>[1] = tag
    OBVIOUS
  <2>2. QED
    BY <2>1
<1>3. PICK start \in Nat : start = pos - 1 /\ start + 1 = pos
  OBVIOUS
<1>4. PICK one \in Nat : one = 1
  OBVIOUS
<1>5. Agrees(start, first) /\ Agrees(start + one, rest)
  <2>1. Agrees(start, first \o rest) /\ one = Len(first)
    BY <1>1, <1>2, <1>3, <1>4
  <2>2. QED
    BY <2>1, AgreesSplit
<1>6. bytes[pos] = MakeTag(n, wireType)
  <2>1. 1 \in 1..Len(first) /\ start + 1 <= received
    BY <1>2, <1>3
  <2>2. QED
    BY <1>1, <1>2, <1>3, <1>5, <2>1 DEF Agrees
<1>7. QED
  BY <1>3, <1>4, <1>5, <1>6, TagThere

(* What the parser does with a field it knows.                             *)
InsideOf(n) ==
    /\ TypeOK /\ Busy /\ groups = <<>> /\ received \in 0..Len(bytes) /\ pos <= received
    /\ n \in DOMAIN schema

LEMMA InsideMeans ==
    ASSUME NEW n, InsideOf(n)
    PROVE  /\ ReceivedOK /\ pos \in Nat \ {0} /\ pos <= received /\ n \in 1..4
           /\ schema[n] \in Fields /\ Len(bytes) \in Nat /\ received \in Nat
           /\ pos + 1 <= received + 1 /\ received <= Len(bytes)
<1>1. BytesTyped /\ pos \in 1..(Len(bytes) + 1) /\ Len(bytes) \in Nat /\ schema \in Seq(Fields)
  BY TypesOf DEF InsideOf
<1>2. Len(schema) \in 1..4
  BY FewFields DEF InsideOf, TypeOK
<1>3. n \in 1..Len(schema)
  BY <1>1 DEF InsideOf
<1>4. schema[n] \in Fields
  BY <1>1, <1>3, ElementOfSeq
<1>5. packed = NotPacked /\ received \in 0..Len(bytes) /\ pos <= received
  BY DEF InsideOf, Busy
<1>6. ReceivedOK
  BY <1>1, <1>5 DEF ReceivedOK
<1>7. n \in 1..4
  <2>1. PICK l \in 1..4 : l = Len(schema)
    BY <1>2
  <2>2. n \in 1..l
    BY <1>3, <2>1
  <2>3. QED
    BY <2>2
<1>8. received \in Nat /\ received <= Len(bytes) /\ pos \in Nat \ {0} /\ pos + 1 <= received + 1
  BY <1>1, <1>5
<1>9. QED
  BY <1>1, <1>4, <1>5, <1>6, <1>7, <1>8

(* At a known tag there is one step to take.                               *)
LEMMA KnownStep ==
    ASSUME NEW n, InsideOf(n), Next, Tag \in 1..127, Number = n, Expects(n, WireType)
    PROVE  ReadPrimitive(n) \/ ReadString(n) \/ ReadRepeated(n) \/ BeginPacked(n)
<1>1. Known
  BY DEF Known, InsideOf, More
<1>2. Busy /\ Tag # 0 /\ result = "busy" /\ packed = NotPacked
  BY DEF InsideOf, Busy
<1>3. ~Unusual
  BY <1>1 DEF Unusual
<1>4. ~Returned /\ ~EndOfFields /\ ~ReadPacked /\ ~EndPacked
  BY <1>2 DEF Returned, EndOfFields, ReadPacked, EndPacked
<1>5. ~SkipVarint /\ ~SkipFixed /\ ~SkipDelimited /\ ~StartGroup /\ ~EndGroup /\ ~NoWireType
  BY <1>3 DEF SkipVarint, SkipFixed, SkipDelimited, StartGroup, EndGroup, NoWireType
<1>6. PICK k \in DOMAIN schema :
        ReadPrimitive(k) \/ ReadString(k) \/ ReadRepeated(k) \/ BeginPacked(k)
  BY <1>4, <1>5 DEF Next, MergeStep
<1>7. k = n
  BY <1>6 DEF ReadPrimitive, ReadString, ReadRepeated, BeginPacked
<1>8. QED
  BY <1>6, <1>7

(* A varint behind a known tag: received, or cut.                          *)
LEMMA ArgumentThere ==
    ASSUME NEW n, InsideOf(n), NEW raw \in Nat, raw < Wide,
           NEW length \in Nat \ {0}, length = Len(Varint(raw)), Agrees(pos, Varint(raw))
    PROVE  /\ pos + length <= received =>
                ReadVarint(pos + 1) = [ok |-> TRUE, value |-> raw, next |-> pos + 1 + length]
           /\ pos + length > received /\ ReadVarint(pos + 1).ok =>
                ReadVarint(pos + 1).next > received + 1
<1>1. /\ ReceivedOK /\ pos \in Nat \ {0} /\ pos <= received /\ received \in Nat
  BY InsideMeans
<1>2. PICK p \in Nat \ {0} : p = pos + 1 /\ p - 1 = pos /\ p <= received + 1
                             /\ p + length - 1 = pos + length
  BY <1>1
<1>3. Agrees(p - 1, Varint(raw))
  BY <1>2
<1>4. /\ p + length - 1 <= received =>
           ReadVarint(p) = [ok |-> TRUE, value |-> raw, next |-> p + length]
      /\ p + length - 1 > received /\ ReadVarint(p).ok => ReadVarint(p).next > received + 1
  BY <1>1, <1>2, <1>3, VarintReceived
<1>5. QED
  BY <1>2, <1>4

(* A number or a flag: it is set, or it was cut.                           *)
LEMMA PrimitiveOutcome ==
    ASSUME NEW n, InsideOf(n), Next, Single(n), schema[n].type \in {"int32", "bool"},
           NEW raw \in Nat, raw < Wide, NEW length \in Nat \ {0}, length = Len(Varint(raw)),
           Agrees(pos - 1, <<MakeTag(n, VARINT)>> \o Varint(raw))
    PROVE  /\ UNCHANGED <<input, groups, packed>>
           /\ pos + length <= received =>
                /\ pos' = pos + 1 + length /\ UNCHANGED result
                /\ SetValue(n, IF schema[n].type = "int32" THEN Int32(raw) ELSE raw # 0)
           /\ pos + length > received =>
                \/ pos' > received + 1
                \/ SetValue(n, message[n].value) /\ result' # "busy"
<1>1. /\ ReceivedOK /\ pos \in Nat \ {0} /\ pos <= received /\ n \in 1..4
      /\ schema[n] \in Fields /\ received \in Nat
  BY InsideMeans
<1>2. Varint(raw) \in Seq(0..255)
  BY VarintType
<1>3. /\ Tag \in 1..127 /\ Number = n /\ WireType = VARINT /\ TagEnd = pos + 1
      /\ Agrees(pos, Varint(raw))
  BY <1>1, <1>2, FieldThere
<1>4. Expects(n, WireType)
  BY <1>3 DEF Expects, Single
<1>5. ReadPrimitive(n)
  <2>1. ReadPrimitive(n) \/ ReadString(n) \/ ReadRepeated(n) \/ BeginPacked(n)
    BY <1>3, <1>4, KnownStep
  <2>2. QED
    BY <1>3, <2>1 DEF ReadString, ReadRepeated, BeginPacked, VARINT, LENGTH_DELIMITED
<1>6. PICK v : v = ReadVarint(pos + 1)
  OBVIOUS
<1>7. /\ SetValue(n, CASE ~v.ok -> message[n].value
                       [] v.ok /\ schema[n].type = "int32" -> Int32(v.value)
                       [] v.ok /\ schema[n].type = "bool"  -> v.value # 0)
      /\ GoOn(v.ok, v.next) /\ UNCHANGED <<input, groups, packed>>
  BY <1>3, <1>5, <1>6 DEF ReadPrimitive
<1>8. /\ pos + length <= received => v = [ok |-> TRUE, value |-> raw, next |-> pos + 1 + length]
      /\ pos + length > received /\ v.ok => v.next > received + 1
  BY <1>3, <1>6, ArgumentThere
<1>9. ASSUME pos + length <= received
      PROVE  /\ pos' = pos + 1 + length /\ UNCHANGED result
             /\ SetValue(n, IF schema[n].type = "int32" THEN Int32(raw) ELSE raw # 0)
  <2>1. v.ok = TRUE /\ v.value = raw /\ v.next = pos + 1 + length
    BY <1>8, <1>9
  <2>2. pos' = pos + 1 + length /\ UNCHANGED result
    BY <1>7, <2>1 DEF GoOn
  <2>3. CASE schema[n].type = "int32"
    <3>1. SetValue(n, Int32(raw))
      BY <1>7, <2>1, <2>3
    <3>2. QED
      BY <2>2, <2>3, <3>1
  <2>4. CASE schema[n].type = "bool"
    <3>1. SetValue(n, raw # 0)
      BY <1>7, <2>1, <2>4
    <3>2. QED
      BY <2>2, <2>4, <3>1
  <2>5. QED
    BY <2>3, <2>4
<1>10. ASSUME pos + length > received
       PROVE  pos' > received + 1 \/ (SetValue(n, message[n].value) /\ result' # "busy")
  <2>1. v.ok \in BOOLEAN
    <3>1. pos + 1 \in Nat \ {0}
      BY <1>1
    <3>2. QED
      BY <1>1, <1>6, <3>1, VarintRead DEF ReceivedOK
  <2>2. CASE v.ok = TRUE
    BY <1>7, <1>8, <1>10, <2>2 DEF GoOn
  <2>3. CASE v.ok = FALSE
    BY <1>7, <2>3 DEF GoOn
  <2>4. QED
    BY <2>1, <2>2, <2>3
<1>11. QED
  BY <1>7, <1>9, <1>10

(* An item of a list: it is appended, or it was cut.                       *)
LEMMA RepeatedOutcome ==
    ASSUME NEW n, InsideOf(n), Next, schema[n].rule = "repeated",
           NEW raw \in Nat, raw < Wide, NEW length \in Nat \ {0}, length = Len(Varint(raw)),
           Agrees(pos - 1, <<MakeTag(n, VARINT)>> \o Varint(raw))
    PROVE  /\ UNCHANGED <<input, groups, packed>>
           /\ pos + length <= received =>
                /\ pos' = pos + 1 + length /\ UNCHANGED result
                /\ message' = [message EXCEPT ![n].value = Append(@, Int32(raw))]
           /\ pos + length > received =>
                \/ pos' > received + 1
                \/ message' = message /\ result' # "busy"
<1>1. /\ ReceivedOK /\ pos \in Nat \ {0} /\ pos <= received /\ n \in 1..4
      /\ schema[n] \in Fields /\ received \in Nat
  BY InsideMeans
<1>2. Varint(raw) \in Seq(0..255)
  BY VarintType
<1>3. /\ Tag \in 1..127 /\ Number = n /\ WireType = VARINT /\ TagEnd = pos + 1
      /\ Agrees(pos, Varint(raw))
  BY <1>1, <1>2, FieldThere
<1>4. Expects(n, WireType)
  <2>1. schema[n].type = "int32"
    BY <1>1 DEF Fields
  <2>2. WireType \in {VARINT, LENGTH_DELIMITED}
    BY <1>3
  <2>3. QED
    BY <2>1, <2>2 DEF Expects
<1>5. ReadRepeated(n)
  <2>1. ReadPrimitive(n) \/ ReadString(n) \/ ReadRepeated(n) \/ BeginPacked(n)
    BY <1>3, <1>4, KnownStep
  <2>2. QED
    BY <1>3, <2>1 DEF ReadString, ReadPrimitive, BeginPacked, Single, VARINT, LENGTH_DELIMITED
<1>6. PICK v : v = ReadVarint(pos + 1)
  OBVIOUS
<1>7. Add(n, v) /\ UNCHANGED <<input, groups, packed>>
  BY <1>3, <1>5, <1>6 DEF ReadRepeated
<1>8. /\ pos + length <= received => v = [ok |-> TRUE, value |-> raw, next |-> pos + 1 + length]
      /\ pos + length > received /\ v.ok => v.next > received + 1
  BY <1>3, <1>6, ArgumentThere
<1>9. ASSUME pos + length <= received
      PROVE  /\ pos' = pos + 1 + length /\ UNCHANGED result
             /\ message' = [message EXCEPT ![n].value = Append(@, Int32(raw))]
  <2>1. v.ok = TRUE /\ v.value = raw /\ v.next = pos + 1 + length
    BY <1>8, <1>9
  <2>2. QED
    BY <1>7, <2>1 DEF GoOn, Add
<1>10. ASSUME pos + length > received
       PROVE  pos' > received + 1 \/ (message' = message /\ result' # "busy")
  <2>1. v.ok \in BOOLEAN
    <3>1. pos + 1 \in Nat \ {0}
      BY <1>1
    <3>2. QED
      BY <1>1, <1>6, <3>1, VarintRead DEF ReceivedOK
  <2>2. CASE v.ok = TRUE
    BY <1>7, <1>8, <1>10, <2>2 DEF GoOn, Add
  <2>3. CASE v.ok = FALSE
    BY <1>7, <2>3 DEF GoOn, Add
  <2>4. QED
    BY <2>1, <2>2, <2>3
<1>11. QED
  BY <1>7, <1>9, <1>10

(* Equal bytes make equal texts.                                           *)
LEMMA SamePart ==
    ASSUME NEW S, NEW s \in Seq(S), NEW t \in Seq(S), NEW o \in Nat, NEW m \in Nat,
           o + m <= Len(s), m <= Len(t), \A k \in 1..m : s[o + k] = t[k]
    PROVE  SubSeq(s, o + 1, o + m) = SubSeq(t, 1, m)
<1>1. \A k \in 1..m : (o + 1) + k - 1 = o + k /\ 1 + k - 1 = k
  OBVIOUS
<1>2. (o + m) - (o + 1) + 1 = m /\ m - 1 + 1 = m
  OBVIOUS
<1>3. SubSeq(s, o + 1, o + m) = [k \in 1..m |-> s[o + k]]
  <2>1. SubSeq(s, o + 1, o + m) = [k \in 1..((o + m) - (o + 1) + 1) |-> s[(o + 1) + k - 1]]
    OBVIOUS
  <2>2. QED
    BY <1>1, <1>2, <2>1
<1>4. SubSeq(t, 1, m) = [k \in 1..m |-> t[k]]
  <2>1. SubSeq(t, 1, m) = [k \in 1..(m - 1 + 1) |-> t[1 + k - 1]]
    OBVIOUS
  <2>2. QED
    BY <1>1, <1>2, <2>1
<1>5. QED
  BY <1>3, <1>4

LEMMA WholePart ==
    ASSUME NEW S, NEW t \in Seq(S), NEW m \in Nat, m = Len(t) PROVE SubSeq(t, 1, m) = t
<1>1. SubSeq(t, 1, m) = [k \in 1..(m - 1 + 1) |-> t[1 + k - 1]]
  OBVIOUS
<1>2. m - 1 + 1 = m /\ \A k \in 1..m : 1 + k - 1 = k
  OBVIOUS
<1>3. t = [k \in 1..m |-> t[k]]
  OBVIOUS
<1>4. QED
  BY <1>1, <1>2, <1>3

(* A text: it is set, or of one that was cut the beginning.                *)
LEMMA StringOutcome ==
    ASSUME NEW n, InsideOf(n), Next, Single(n), schema[n].type = "string",
           NEW t \in Seq(0..255), NEW size \in Nat, size = Len(t), size < Narrow \div 2,
           size < Wide, NEW length \in Nat \ {0}, length = Len(Varint(size)),
           Agrees(pos - 1, <<MakeTag(n, LENGTH_DELIMITED)>> \o Varint(size) \o t)
    PROVE  /\ UNCHANGED <<input, groups, packed>>
           /\ pos + length + size <= received =>
                pos' = pos + 1 + length + size /\ UNCHANGED result /\ SetValue(n, t)
           /\ pos + length + size > received =>
                \/ pos' > received + 1
                \/ /\ result' # "busy"
                   /\ \E value : /\ SetValue(n, value)
                                 /\ value = message[n].value \/ IsPrefix(value, t)
<1>1. /\ ReceivedOK /\ pos \in Nat \ {0} /\ pos <= received /\ n \in 1..4
      /\ schema[n] \in Fields /\ received \in Nat
  BY InsideMeans
<1>2. Varint(size) \in Seq(0..255)
  BY VarintType
<1>3. PICK tag \in 0..255 : tag = MakeTag(n, LENGTH_DELIMITED)
  BY <1>1 DEF MakeTag, LENGTH_DELIMITED
<1>4. PICK front \in Seq(0..255) : front = <<tag>> \o Varint(size) /\ Len(front) = 1 + length
  <2>1. <<tag>> \in Seq(0..255) /\ Len(<<tag>>) = 1
    OBVIOUS
  <2>2. <<tag>> \o Varint(size) \in Seq(0..255)
    BY <1>2, <2>1, ConcatProperties
  <2>3. Len(<<tag>> \o Varint(size)) = 1 + length
    BY <1>2, <2>1, ConcatProperties
  <2>4. QED
    BY <2>2, <2>3
<1>5. PICK o \in Nat : o = pos + length
  BY <1>1
<1>6. Agrees(pos - 1, front) /\ Agrees(o, t)
  <2>1. PICK start \in Nat : start = pos - 1
    BY <1>1
  <2>2. PICK m \in Nat : m = 1 + length /\ start + m = o
    BY <1>1, <1>5, <2>1
  <2>3. Agrees(start, front \o t) /\ m = Len(front)
    BY <1>3, <1>4, <2>1, <2>2
  <2>4. Agrees(start, front) /\ Agrees(start + m, t)
    BY <2>3, AgreesSplit
  <2>5. QED
    BY <2>1, <2>2, <2>4
<1>7. /\ Tag \in 1..127 /\ Number = n /\ WireType = LENGTH_DELIMITED /\ TagEnd = pos + 1
      /\ Agrees(pos, Varint(size))
  <2>1. Agrees(pos - 1, <<MakeTag(n, LENGTH_DELIMITED)>> \o Varint(size))
    BY <1>3, <1>4, <1>6
  <2>2. LENGTH_DELIMITED \in {VARINT, LENGTH_DELIMITED}
    OBVIOUS
  <2>3. QED
    BY <1>1, <1>2, <2>1, <2>2, FieldThere
<1>8. Expects(n, WireType)
  BY <1>7 DEF Expects, Single
<1>9. ReadString(n)
  <2>1. ReadPrimitive(n) \/ ReadString(n) \/ ReadRepeated(n) \/ BeginPacked(n)
    BY <1>7, <1>8, KnownStep
  <2>2. QED
    BY <1>7, <2>1 DEF ReadPrimitive, ReadRepeated, BeginPacked, VARINT, LENGTH_DELIMITED
<1>10. PICK v, left : v = ReadVarint(pos + 1) /\ left = Len(bytes) - v.next + 1
  OBVIOUS
<1>11. /\ UNCHANGED <<input, groups, packed>>
       /\ IF v.ok /\ Int32(v.value) >= 0
            THEN /\ SetValue(n, SubSeq(bytes, v.next, v.next + Min({Int32(v.value), left}) - 1))
                 /\ GoOn(Int32(v.value) <= left, v.next + Int32(v.value))
            ELSE SetValue(n, message[n].value) /\ GoOn(FALSE, pos)
  BY <1>7, <1>9, <1>10 DEF ReadString
<1>12. /\ pos + length <= received =>
            v = [ok |-> TRUE, value |-> size, next |-> pos + 1 + length]
       /\ pos + length > received /\ v.ok => v.next > received + 1
  BY <1>7, <1>10, ArgumentThere
<1>13. PICK all \in Nat : all = Len(bytes) /\ received <= all
  BY InsideMeans
<1>14. /\ v.ok \in BOOLEAN /\ v.value \in Nat
       /\ v.ok => v.next \in Nat /\ v.next <= all + 1
  <2>1. pos + 1 \in Nat \ {0}
    BY <1>1
  <2>2. QED
    BY <1>1, <1>10, <1>13, <2>1, VarintRead DEF ReceivedOK
<1>15. CASE o > received
  <2>1. CASE v.ok /\ Int32(v.value) >= 0
    <3>1. v.next > received + 1 /\ v.next \in Nat /\ v.next <= all + 1
      BY <1>5, <1>12, <1>14, <1>15, <2>1
    <3>2. Int32(v.value) \in Nat
      <4>1. Int32(v.value) \in Int32s /\ Narrow \in Nat
        BY <1>14, Int32Type, Widths
      <4>2. QED
        BY <2>1, <4>1, Widths DEF Int32s
    <3>3. pos' = v.next + Int32(v.value) \/ pos' = all + 1
      BY <1>11, <1>13, <2>1 DEF GoOn
    <3>4. pos' > received + 1
      BY <1>1, <1>13, <3>1, <3>2, <3>3
    <3>5. pos + length + size > received
      BY <1>5, <1>1, <1>15
    <3>6. ~(pos + length + size <= received)
      BY <1>1, <3>5
    <3>7. QED
      BY <1>11, <3>4, <3>6
  <2>2. CASE ~(v.ok /\ Int32(v.value) >= 0)
    <3>1. SetValue(n, message[n].value) /\ result' # "busy"
      BY <1>11, <2>2 DEF GoOn
    <3>2. ~(pos + length + size <= received)
      BY <1>1, <1>5, <1>15
    <3>3. QED
      BY <1>11, <3>1, <3>2
  <2>3. QED
    BY <2>1, <2>2
<1>16. CASE o <= received
  <2>1. v.ok = TRUE /\ v.value = size /\ v.next = o + 1
    <3>1. v = [ok |-> TRUE, value |-> size, next |-> pos + 1 + length]
      BY <1>5, <1>12, <1>16
    <3>2. pos + 1 + length = o + 1
      BY <1>1, <1>5
    <3>3. QED
      BY <3>1, <3>2
  <2>2. Int32(v.value) = size
    BY <2>1, Int32OfSmall
  <2>3. left = all - o /\ left \in Nat
    <3>1. left = all - (o + 1) + 1
      BY <1>10, <1>13, <2>1
    <3>2. o <= all
      BY <1>1, <1>13, <1>16
    <3>3. QED
      BY <3>1, <3>2
  <2>4. PICK part \in Nat : part = IF size <= left THEN size ELSE left
    BY <2>3
  <2>5. Min({size, left}) = part
    <3>1. size \in Int /\ left \in Int
      BY <2>3
    <3>2. Min({size, left}) = IF size <= left THEN size ELSE left
      BY <3>1, MinPair, Zenon
    <3>3. QED
      BY <2>4, <3>2
  <2>6. /\ SetValue(n, SubSeq(bytes, o + 1, o + part))
        /\ GoOn(size <= left, o + 1 + size)
    <3>1. v.next + part - 1 = o + part /\ v.next + size = o + 1 + size
      BY <2>1
    <3>2. size >= 0
      OBVIOUS
    <3>3. QED
      BY <1>11, <2>1, <2>2, <2>5, <3>1, <3>2
  <2>7. ASSUME o + part <= received PROVE SubSeq(bytes, o + 1, o + part) = SubSeq(t, 1, part)
    <3>1. part <= size /\ o + part <= Len(bytes)
      BY <1>1, <1>13, <2>3, <2>4, <2>7
    <3>2. \A k \in 1..part : bytes[o + k] = t[k]
      <4> SUFFICES ASSUME NEW k \in 1..part PROVE bytes[o + k] = t[k]
        OBVIOUS
      <4>1. k \in 1..Len(t) /\ o + k <= received
        BY <1>1, <2>7, <3>1
      <4>2. QED
        BY <1>6, <4>1 DEF Agrees
    <3>3. bytes \in Seq(0..255)
      BY <1>1 DEF ReceivedOK, BytesTyped
    <3> DEFINE S == 0..255
    <3>4. bytes \in Seq(S) /\ t \in Seq(S) /\ part <= Len(t)
      BY <3>1, <3>3
    <3> HIDE DEF S
    <3>5. QED
      BY <3>1, <3>2, <3>4, SamePart
  <2>8. CASE o + size <= received
    <3>1. size <= left /\ part = size
      BY <1>1, <1>13, <2>3, <2>4, <2>8
    <3>2. SubSeq(bytes, o + 1, o + part) = t
      <4>1. SubSeq(bytes, o + 1, o + part) = SubSeq(t, 1, size)
        BY <2>7, <2>8, <3>1
      <4>2. SubSeq(t, 1, size) = t
        BY WholePart
      <4>3. QED
        BY <4>1, <4>2
    <3>3. pos' = o + 1 + size /\ UNCHANGED result
      BY <2>6, <3>1 DEF GoOn
    <3>4. o + 1 + size = pos + 1 + length + size /\ ~(pos + length + size > received)
      BY <1>1, <1>5, <2>8
    <3>5. QED
      BY <1>11, <2>6, <3>2, <3>3, <3>4
  <2>9. CASE o + size > received
    <3>1. ~(pos + length + size <= received)
      BY <1>1, <1>5, <2>9
    <3>2. CASE size <= left
      <4>1. pos' = o + 1 + size
        BY <2>6, <3>2 DEF GoOn
      <4>2. pos' > received + 1
        BY <1>1, <2>9, <4>1
      <4>3. QED
        BY <1>11, <3>1, <4>2
    <3>3. CASE ~(size <= left)
      <4>1. pos' = all + 1 /\ result' # "busy" /\ part = left
        BY <1>13, <2>4, <2>6, <3>3 DEF GoOn
      <4>2. CASE all > received
        <5>1. pos' > received + 1
          BY <1>1, <1>13, <4>1, <4>2
        <5>2. QED
          BY <1>11, <3>1, <5>1
      <4>3. CASE all = received
        <5>1. o + part <= received /\ part <= size
          BY <2>3, <2>4, <3>3, <4>1, <4>3
        <5>2. PICK value : value = SubSeq(bytes, o + 1, o + part)
          OBVIOUS
        <5>3. value = SubSeq(t, 1, part)
          BY <2>7, <5>1, <5>2
        <5>4. IsPrefix(value, t)
          <6>1. Len(SubSeq(t, 1, part)) = part
            BY <5>1
          <6>2. SubSeq(SubSeq(t, 1, part), 1, part) = SubSeq(t, 1, part)
            <7>1. SubSeq(t, 1, part) \in Seq(0..255)
              <8> DEFINE S == 0..255
              <8>1. t \in Seq(S) /\ 0 + part <= Len(t) /\ 0 + 1 = 1 /\ 0 + part = part
                BY <5>1
              <8> HIDE DEF S
              <8>2. SubSeq(t, 0 + 1, 0 + part) \in Seq(S)
                BY <8>1, PartOf
              <8>3. QED
                BY <8>1, <8>2 DEF S
            <7>2. QED
              BY <6>1, <7>1, WholePart
          <6>3. QED
            BY <5>1, <5>3, <6>1, <6>2 DEF IsPrefix
        <5>5. SetValue(n, value)
          BY <2>6, <5>2
        <5>6. QED
          BY <1>11, <3>1, <4>1, <5>4, <5>5
      <4>4. QED
        BY <1>13, <4>2, <4>3, <1>1
    <3>4. QED
      BY <3>2, <3>3
  <2>10. QED
    BY <2>8, <2>9, <1>1
<1>17. QED
  BY <1>1, <1>5, <1>15, <1>16

-----------------------------------------------------------------------------
(* A message that is sent, and the outcome of reading its fields.          *)
Blank(n) == [has |-> FALSE, value |-> DefaultOf(schema[n])]

SentOK == schema \in Schemas /\ sent \in MessagesOf(schema)

(* What is sent for a field, kind by kind.                                 *)
LEMMA FieldSent ==
    ASSUME SentOK, NEW n \in DOMAIN schema
    PROVE  /\ n \in 1..4 /\ schema[n] \in Fields
           /\ schema[n].rule = "repeated" =>
                \E list \in Seq(Int32s) :
                  /\ sent[n] = [has |-> FALSE, value |-> list]
                  /\ Text(n) = FlattenSeq([i \in 1..Len(list) |-> WriteInt32(n, list[i])])
           /\ Single(n) /\ ~sent[n].has => sent[n] = Blank(n) /\ Text(n) = <<>>
           /\ Single(n) /\ sent[n].has /\ schema[n].type = "int32" =>
                \E i \in Int32s : sent[n] = [has |-> TRUE, value |-> i] /\ Text(n) = WriteInt32(n, i)
           /\ Single(n) /\ sent[n].has /\ schema[n].type = "bool" =>
                \E b \in BOOLEAN :
                  /\ sent[n] = [has |-> TRUE, value |-> b]
                  /\ Text(n) = <<MakeTag(n, VARINT), IF b THEN 1 ELSE 0>>
           /\ Single(n) /\ sent[n].has /\ schema[n].type = "string" =>
                \E t \in Seq(0..255) :
                  /\ sent[n] = [has |-> TRUE, value |-> t] /\ Len(t) < Narrow \div 2
                  /\ Text(n) = <<MakeTag(n, LENGTH_DELIMITED)>> \o Varint(Len(t)) \o t
<1>1. /\ schema \in Seq(Fields) /\ Len(schema) \in 1..4 /\ DOMAIN schema = 1..Len(schema)
  BY SchemaFields, FewFields DEF SentOK
<1>2. n \in 1..4 /\ schema[n] \in Fields
  <2>1. PICK l \in 1..4 : l = Len(schema)
    BY <1>1
  <2>2. n \in 1..l
    BY <1>1, <2>1
  <2>3. n \in 1..4
    BY <2>2
  <2>4. QED
    BY <1>1, <2>3, ElementOfSeq
<1>3. sent[n] \in PlacesOf(schema[n])
  BY <1>1, MessagesType DEF SentOK
<1>4. PICK p : p = sent[n] /\ p \in PlacesOf(schema[n]) /\ p = [has |-> p.has, value |-> p.value]
  BY <1>3 DEF PlacesOf
<1>5. Text(n) = WriteField(schema, n, p)
  BY <1>4 DEF Text
<1>6. CASE schema[n].rule = "repeated"
  <2>1. p.has = FALSE /\ p.value \in Lists
    BY <1>4, <1>6, <1>2, PlaceKinds DEF PlacesOf
  <2>2. PICK list \in Seq(Int32s) : list = p.value
    BY <2>1, ParserAssumption
  <2>3. sent[n] = [has |-> FALSE, value |-> list]
    BY <1>4, <2>1, <2>2
  <2>4. DOMAIN list = 1..Len(list)
    OBVIOUS
  <2>5. Text(n) = FlattenSeq([i \in 1..Len(list) |-> WriteInt32(n, list[i])])
    BY <1>5, <1>6, <2>2, <2>4 DEF WriteField
  <2>6. QED
    BY <1>2, <1>6, <2>3, <2>5 DEF Single
<1>7. CASE Single(n)
  <2>1. p.has \in BOOLEAN /\ (~p.has => p.value = DefaultOf(schema[n]))
    BY <1>2, <1>4, <1>7, PlaceKinds DEF PlacesOf, Single
  <2>2. CASE ~p.has
    <3>1. p.has = FALSE
      BY <2>1, <2>2
    <3>2. sent[n] = Blank(n)
      BY <1>4, <2>1, <3>1 DEF Blank
    <3>3. Text(n) = <<>>
      BY <1>5, <1>7, <2>2 DEF WriteField, Single
    <3>4. QED
      BY <1>2, <1>4, <1>7, <2>2, <3>2, <3>3 DEF Single
  <2>3. CASE p.has
    <3>1. p.has = TRUE /\ sent[n] = [has |-> TRUE, value |-> p.value]
      BY <1>4, <2>1, <2>3
    <3>2. CASE schema[n].type = "int32"
      <4>1. p.value \in Ints \union {0} /\ 0 \in Int32s
        BY <1>2, <1>4, <1>7, <3>2, PlaceKinds, Widths DEF Single, Int32s
      <4>2. PICK i \in Int32s : i = p.value
        BY <4>1, ParserAssumption
      <4>3. Text(n) = WriteInt32(n, i)
        BY <1>5, <1>7, <2>3, <3>2, <4>2 DEF WriteField, Single
      <4>4. QED
        BY <1>2, <1>4, <1>7, <2>3, <3>1, <3>2, <4>2, <4>3 DEF Single
    <3>3. CASE schema[n].type = "bool"
      <4>1. PICK b \in BOOLEAN : b = p.value
        BY <1>2, <1>4, <1>7, <3>3, PlaceKinds DEF Single
      <4>2. Text(n) = <<MakeTag(n, VARINT), IF b THEN 1 ELSE 0>>
        BY <1>5, <1>7, <2>3, <3>3, <4>1 DEF WriteField, Single
      <4>3. sent[n] = [has |-> TRUE, value |-> b]
        BY <3>1, <4>1
      <4>4. QED
        BY <1>2, <1>4, <1>7, <2>3, <3>3, <4>2, <4>3 DEF Single
    <3>4. CASE schema[n].type = "string"
      <4>1. p.value \in Texts \union {<<>>}
        BY <1>2, <1>4, <1>7, <3>4, PlaceKinds DEF Single
      <4>2. PICK t \in Seq(0..255) : t = p.value /\ Len(t) < Narrow \div 2
        <5>1. Narrow \div 2 > 0
          BY Widths
        <5>2. CASE p.value \in Texts
          BY <5>2, ParserAssumption
        <5>3. CASE p.value = <<>>
          BY <5>1, <5>3, EmptySeq
        <5>4. QED
          BY <4>1, <5>2, <5>3
      <4>3. Text(n) = <<MakeTag(n, LENGTH_DELIMITED)>> \o Varint(Len(t)) \o t
        BY <1>5, <1>7, <2>3, <3>4, <4>2 DEF WriteField, Single
      <4>4. sent[n] = [has |-> TRUE, value |-> t]
        BY <3>1, <4>2
      <4>5. QED
        BY <1>2, <1>4, <1>7, <2>3, <3>4, <4>2, <4>3, <4>4 DEF Single
    <3>5. QED
      BY <1>2, <3>2, <3>3, <3>4 DEF Fields
  <2>4. QED
    BY <2>2, <2>3
<1>8. QED
  BY <1>6, <1>7 DEF Single

(* Where each item of a list begins.                                       *)
ListPlaced(n, at, to) ==
    LET list == sent[n].value
    IN  /\ to \in [1..(Len(list) + 1) -> Nat]
        /\ to[1] = at[n] /\ to[Len(list) + 1] = at[n + 1]
        /\ \A i \in 1..Len(list) :
             /\ to[i + 1] = to[i] + Len(WriteInt32(n, list[i]))
             /\ Agrees(to[i], WriteInt32(n, list[i]))

(* The items of a list have their places in the field.                     *)
LEMMA ListIsPlaced ==
    ASSUME SentOK, NEW at, Placed(at), NEW n \in DOMAIN schema, schema[n].rule = "repeated"
    PROVE  \E to : ListPlaced(n, at, to)
<1>1. PICK list \in Seq(Int32s) :
        /\ sent[n] = [has |-> FALSE, value |-> list]
        /\ Text(n) = FlattenSeq([i \in 1..Len(list) |-> WriteInt32(n, list[i])])
  BY FieldSent
<1>2. PICK m \in Nat : m = Len(list)
  OBVIOUS
<1>3. n \in 1..4
  BY FieldSent
<1>4. PICK items \in Seq(Seq(0..255)) :
        /\ items = [i \in 1..m |-> WriteInt32(n, list[i])] /\ Len(items) = m
        /\ \A i \in 1..m : items[i] = WriteInt32(n, list[i])
  <2> DEFINE items == [i \in 1..m |-> WriteInt32(n, list[i])]
  <2>1. \A i \in 1..m : WriteInt32(n, list[i]) \in Seq(0..255)
    <3> TAKE i \in 1..m
    <3>1. list[i] \in Int32s
      BY <1>2, ElementOfSeq
    <3>2. QED
      BY <1>3, <3>1, WriteInt32Type
  <2>2. items \in [1..m -> Seq(0..255)]
    BY <2>1
  <2>3. \A i \in 1..m : items[i] = WriteInt32(n, list[i])
    OBVIOUS
  <2>4. items \in Seq(Seq(0..255)) /\ Len(items) = m
    <3> HIDE DEF items
    <3>1. QED
      BY <2>2, FunctionIsSeq
  <2>5. QED
    BY <2>3, <2>4
<1>5. PICK text \in Seq(0..255) : text = FlattenSeq(items) /\ text = Text(n)
  BY <1>1, <1>2, <1>4, FlattenType
<1>6. PICK from : LaidOut(text, items, from)
  BY <1>5, FlattenLayout
<1>7. /\ from \in [1..(m + 1) -> Nat] /\ from[1] = 0 /\ from[m + 1] = Len(text)
      /\ \A i \in 1..m : from[i + 1] = from[i] + Len(items[i])
      /\ \A i \in 1..m : \A j \in 1..Len(items[i]) : text[from[i] + j] = items[i][j]
  BY <1>4, <1>6 DEF LaidOut, Starts
<1>8. PICK start \in Nat : start = at[n] /\ at[n + 1] = start + Len(text) /\ Agrees(start, text)
  <2>1. DOMAIN schema = 1..Len(schema) /\ Len(schema) \in Nat
    BY SchemaFields DEF SentOK
  <2>2. n \in 1..(Len(schema) + 1)
    BY <2>1
  <2>3. at[n] \in Nat
    BY <2>2 DEF Placed
  <2>4. QED
    BY <1>5, <2>1, <2>3 DEF Placed
<1> DEFINE to == [i \in 1..(m + 1) |-> start + from[i]]
<1>9. /\ to \in [1..(m + 1) -> Nat] /\ to[1] = at[n] /\ to[m + 1] = at[n + 1]
      /\ \A i \in 1..(m + 1) : to[i] = start + from[i]
  <2>1. \A i \in 1..(m + 1) : start + from[i] \in Nat
    BY <1>7
  <2>2. to \in [1..(m + 1) -> Nat]
    BY <2>1
  <2>3. 1 \in 1..(m + 1) /\ m + 1 \in 1..(m + 1)
    OBVIOUS
  <2>4. to[1] = start + from[1] /\ to[m + 1] = start + from[m + 1]
    BY <2>3
  <2>5. QED
    BY <1>7, <1>8, <2>2, <2>4
<1> HIDE DEF to
<1>10. ASSUME NEW i \in 1..m
       PROVE  /\ to[i + 1] = to[i] + Len(WriteInt32(n, list[i]))
              /\ Agrees(to[i], WriteInt32(n, list[i]))
  <2>1. PICK item \in Seq(0..255) : item = items[i] /\ item = WriteInt32(n, list[i])
    BY <1>4, ElementOfSeq
  <2>2. PICK a \in Nat, b \in Nat, l \in Nat :
          a = from[i] /\ b = from[i + 1] /\ l = Len(item) /\ b = a + l
    <3>1. i \in 1..(m + 1) /\ i + 1 \in 1..(m + 1)
      OBVIOUS
    <3>2. from[i] \in Nat /\ from[i + 1] \in Nat
      BY <1>7, <3>1
    <3>3. from[i + 1] = from[i] + Len(item)
      BY <1>7, <2>1
    <3>4. Len(item) \in Nat
      OBVIOUS
    <3>5. QED
      BY <3>2, <3>3, <3>4
  <2>3. to[i] = start + a /\ to[i + 1] = start + b
    <3>1. i \in 1..(m + 1) /\ i + 1 \in 1..(m + 1)
      OBVIOUS
    <3>2. to[i] = start + from[i] /\ to[i + 1] = start + from[i + 1]
      BY <1>9, <3>1
    <3>3. QED
      BY <2>2, <3>2
  <2>4. b <= Len(text)
    <3>1. \A k \in 1..m : from[k] <= from[k + 1]
      <4> TAKE k \in 1..m
      <4>1. k \in 1..(m + 1) /\ items[k] \in Seq(0..255)
        BY <1>4, ElementOfSeq
      <4>2. PICK c \in Nat : c = Len(items[k])
        BY <4>1, BytesCount
      <4>3. PICK d \in Nat : d = from[k]
        BY <1>7, <4>1
      <4>4. from[k + 1] = d + c
        BY <1>7, <4>2, <4>3
      <4>5. QED
        BY <4>3, <4>4
    <3>2. from[i + 1] <= from[m + 1]
      <4>1. i + 1 \in 1..(m + 1)
        OBVIOUS
      <4>2. QED
        BY <1>7, <3>1, <4>1, StartsGrow
    <3>3. QED
      BY <1>7, <2>2, <3>2
  <2>5. ASSUME NEW j \in 1..l, (start + a) + j <= received PROVE bytes[(start + a) + j] = item[j]
    <3>1. a + j \in 1..Len(text) /\ start + (a + j) = (start + a) + j
      <4>1. PICK c \in Nat : c = Len(text)
        BY <1>5
      <4>2. PICK d \in Nat : d = j /\ d >= 1 /\ d <= l
        OBVIOUS
      <4>3. a + d >= 1 /\ a + d <= c /\ a + d \in Nat
        BY <2>2, <2>4, <4>1, <4>2
      <4>4. start + (a + d) = (start + a) + d
        OBVIOUS
      <4>5. QED
        BY <4>1, <4>2, <4>3, <4>4
    <3>2. bytes[start + (a + j)] = text[a + j]
      BY <1>8, <2>5, <3>1 DEF Agrees
    <3>3. text[a + j] = item[j]
      BY <1>7, <2>1, <2>2
    <3>4. QED
      BY <3>1, <3>2, <3>3
  <2>6. Agrees(start + a, item)
    BY <2>2, <2>5 DEF Agrees
  <2>7. QED
    BY <2>1, <2>2, <2>3, <2>6
<1>11. ListPlaced(n, at, to)
  <2>1. sent[n].value = list
    BY <1>1
  <2>2. QED
    BY <1>2, <1>9, <1>10, <2>1 DEF ListPlaced
<1>12. QED
  BY <1>11

(* Sizes and flags are written as they are.                                *)
LEMMA SmallRaws ==
    /\ \A i \in Int32s : SignExtended(i) \in Nat /\ SignExtended(i) < Wide
    /\ \A size \in Nat : size < Narrow \div 2 => size < Wide
<1>1. ASSUME NEW size \in Nat, size < Narrow \div 2 PROVE size < Wide
  <2>1. PICK half \in Nat \ {0} : Narrow = half + half /\ Narrow \div 2 = half
    BY Widths
  <2>2. Narrow <= Wide /\ Wide \in Nat
    BY WidthAssumption, PowersGrow, Widths DEF Narrow, Wide
  <2>3. QED
    BY <1>1, <2>1, <2>2
<1>2. QED
  BY <1>1, SignExtendedType

(* A number in the bytes: a tag and a varint.                              *)
LEMMA Int32Text ==
    ASSUME NEW n \in 1..4, NEW i \in Int32s
    PROVE  \E raw \in Nat, length \in Nat \ {0} :
             /\ raw = SignExtended(i) /\ raw < Wide /\ length = Len(Varint(raw))
             /\ WriteInt32(n, i) = <<MakeTag(n, VARINT)>> \o Varint(raw)
             /\ Len(WriteInt32(n, i)) = 1 + length
             /\ Int32(raw) = i
<1>1. PICK raw \in Nat : raw = SignExtended(i) /\ raw < Wide
  BY SmallRaws
<1>2. PICK digits \in Seq(0..255) : digits = Varint(raw) /\ Len(digits) \in 1..MaxVarintBytes
  BY <1>1, VarintType
<1>3. PICK length \in Nat \ {0} : length = Len(digits)
  BY <1>2, WidthAssumption
<1>4. WriteInt32(n, i) = <<MakeTag(n, VARINT)>> \o digits
  BY <1>1, <1>2 DEF WriteInt32
<1>5. Len(<<MakeTag(n, VARINT)>> \o digits) = 1 + length
  <2>1. PICK tag \in 0..255 : tag = MakeTag(n, VARINT)
    BY DEF MakeTag, VARINT
  <2>2. Len(<<tag>> \o digits) = 1 + length
    BY <1>3
  <2>3. QED
    BY <2>1, <2>2
<1>6. Int32(raw) = i
  BY <1>1, Int32OfExtended
<1>7. QED
  BY <1>1, <1>2, <1>3, <1>4, <1>5, <1>6

(* The tags are bytes.                                                     *)
LEMMA TagByte ==
    \A n \in 1..4 : MakeTag(n, VARINT) \in 0..255 /\ MakeTag(n, LENGTH_DELIMITED) \in 0..255
BY DEF MakeTag, VARINT, LENGTH_DELIMITED

LEMMA TwoBytes ==
    ASSUME NEW a \in 0..255, NEW b \in 0..255
    PROVE  <<a>> \o <<b>> = <<a, b>> /\ Len(<<a, b>>) = 2
<1>1. <<a>> \in Seq(0..255) /\ <<b>> \in Seq(0..255) /\ <<a, b>> \in Seq(0..255)
  OBVIOUS
<1>2. <<a>> \o <<b>> \in Seq(0..255) /\ Len(<<a>> \o <<b>>) = 2
  BY <1>1, ConcatProperties
<1>3. (<<a>> \o <<b>>)[1] = a /\ (<<a>> \o <<b>>)[2] = b
  BY <1>1, ConcatProperties
<1>4. Len(<<a, b>>) = 2 /\ <<a, b>>[1] = a /\ <<a, b>>[2] = b
  OBVIOUS
<1>5. \A k \in 1..2 : (<<a>> \o <<b>>)[k] = <<a, b>>[k]
  BY <1>3, <1>4
<1>6. QED
  BY <1>1, <1>2, <1>4, <1>5, SeqEqual

(* A field that is no list is read as it was sent, or it was cut.          *)
LEMMA SingleOutcome ==
    ASSUME NEW n, InsideOf(n), Next, SentOK, Single(n), sent[n].has, Agrees(pos - 1, Text(n)),
           NEW end \in Nat, end = pos + Len(Text(n))
    PROVE  /\ UNCHANGED <<input, groups, packed>>
           /\ end <= received + 1 =>
                pos' = end /\ UNCHANGED result /\ SetValue(n, sent[n].value)
           /\ end > received + 1 =>
                \/ pos' > received + 1
                \/ /\ result' # "busy"
                   /\ \E value : /\ SetValue(n, value)
                                 /\ \/ value = message[n].value
                                    \/ PartlyRead(schema[n], value, sent[n].value)
<1>1. n \in DOMAIN schema /\ n \in 1..4 /\ schema[n] \in Fields /\ pos \in Nat \ {0}
      /\ received \in Nat
  <2>1. n \in DOMAIN schema
    BY DEF InsideOf
  <2>2. QED
    BY <2>1, InsideMeans
<1>2. CASE schema[n].type = "int32"
  <2>1. PICK i \in Int32s : sent[n] = [has |-> TRUE, value |-> i] /\ Text(n) = WriteInt32(n, i)
    BY <1>1, <1>2, FieldSent
  <2>2. PICK raw \in Nat, length \in Nat \ {0} :
          /\ raw < Wide /\ length = Len(Varint(raw))
          /\ Text(n) = <<MakeTag(n, VARINT)>> \o Varint(raw)
          /\ Len(Text(n)) = 1 + length /\ Int32(raw) = i
    BY <1>1, <2>1, Int32Text
  <2>3. end = pos + 1 + length
    BY <1>1, <2>2
  <2>4. /\ UNCHANGED <<input, groups, packed>>
        /\ pos + length <= received =>
             /\ pos' = pos + 1 + length /\ UNCHANGED result
             /\ SetValue(n, IF schema[n].type = "int32" THEN Int32(raw) ELSE raw # 0)
        /\ pos + length > received =>
             \/ pos' > received + 1
             \/ SetValue(n, message[n].value) /\ result' # "busy"
    BY <1>2, <2>2, PrimitiveOutcome
  <2>5. (end <= received + 1 <=> pos + length <= received)
        /\ (end > received + 1 <=> pos + length > received)
    BY <1>1, <2>3
  <2>6. sent[n].value = Int32(raw)
    BY <2>1, <2>2
  <2>7. QED
    BY <1>2, <2>3, <2>4, <2>5, <2>6
<1>3. CASE schema[n].type = "bool"
  <2>1. PICK b \in BOOLEAN : /\ sent[n] = [has |-> TRUE, value |-> b]
                             /\ Text(n) = <<MakeTag(n, VARINT), IF b THEN 1 ELSE 0>>
    BY <1>1, <1>3, FieldSent
  <2>2. PICK raw \in 0..1 : raw = (IF b THEN 1 ELSE 0) /\ (raw # 0) = b
    <3>1. CASE b = TRUE
      <4>1. 1 \in 0..1 /\ 1 = (IF b THEN 1 ELSE 0) /\ (1 # 0) = TRUE
        BY <3>1
      <4>2. QED
        BY <3>1, <4>1
    <3>2. CASE b = FALSE
      <4>1. 0 \in 0..1 /\ 0 = (IF b THEN 1 ELSE 0) /\ (0 # 0) = FALSE
        BY <3>2
      <4>2. QED
        BY <3>2, <4>1
    <3>3. QED
      BY <3>1, <3>2
  <2>3. Varint(raw) = <<raw>> /\ raw < Wide
    <3>1. raw \in 0..127
      OBVIOUS
    <3>2. QED
      BY <3>1, SmallVarint
  <2>4. PICK length \in Nat \ {0} : length = 1 /\ length = Len(Varint(raw))
    BY <2>3
  <2>5. PICK tag \in 0..255 : tag = MakeTag(n, VARINT)
    BY <1>1, TagByte
  <2>6. Text(n) = <<MakeTag(n, VARINT)>> \o Varint(raw) /\ Len(Text(n)) = 2
    <3>1. raw \in 0..255
      OBVIOUS
    <3>2. <<tag>> \o <<raw>> = <<tag, raw>> /\ Len(<<tag, raw>>) = 2
      BY <3>1, TwoBytes
    <3>3. QED
      BY <2>1, <2>2, <2>3, <2>5, <3>2
  <2>7. end = pos + 1 + length
    BY <1>1, <2>4, <2>6
  <2>8. raw \in Nat
    OBVIOUS
  <2>9. /\ UNCHANGED <<input, groups, packed>>
        /\ pos + length <= received =>
             /\ pos' = pos + 1 + length /\ UNCHANGED result
             /\ SetValue(n, IF schema[n].type = "int32" THEN Int32(raw) ELSE raw # 0)
        /\ pos + length > received =>
             \/ pos' > received + 1
             \/ SetValue(n, message[n].value) /\ result' # "busy"
    BY <1>3, <2>3, <2>4, <2>6, <2>8, PrimitiveOutcome
  <2>10. (end <= received + 1 <=> pos + length <= received)
         /\ (end > received + 1 <=> pos + length > received)
    BY <1>1, <2>7
  <2>11. sent[n].value = (raw # 0)
    BY <2>1, <2>2
  <2>12. QED
    BY <1>3, <2>7, <2>9, <2>10, <2>11
<1>4. CASE schema[n].type = "string"
  <2>1. PICK t \in Seq(0..255) :
          /\ sent[n] = [has |-> TRUE, value |-> t] /\ Len(t) < Narrow \div 2
          /\ Text(n) = <<MakeTag(n, LENGTH_DELIMITED)>> \o Varint(Len(t)) \o t
    BY <1>1, <1>4, FieldSent
  <2>2. PICK size \in Nat : size = Len(t) /\ size < Narrow \div 2 /\ size < Wide
    BY <2>1, SmallRaws
  <2>3. PICK digits \in Seq(0..255) : digits = Varint(size) /\ Len(digits) \in 1..MaxVarintBytes
    BY <2>2, VarintType
  <2>4. PICK length \in Nat \ {0} : length = Len(digits)
    BY <2>3, WidthAssumption
  <2>5. PICK tag \in 0..255 : tag = MakeTag(n, LENGTH_DELIMITED)
    BY <1>1, TagByte
  <2>6. Len(Text(n)) = 1 + length + size
    <3>1. Len(<<tag>> \o digits \o t) = 1 + length + size
      BY <2>2, <2>4
    <3>2. QED
      BY <2>1, <2>2, <2>3, <2>5, <3>1
  <2>7. end = pos + 1 + length + size
    BY <1>1, <2>6
  <2>8. /\ UNCHANGED <<input, groups, packed>>
        /\ pos + length + size <= received =>
             pos' = pos + 1 + length + size /\ UNCHANGED result /\ SetValue(n, t)
        /\ pos + length + size > received =>
             \/ pos' > received + 1
             \/ /\ result' # "busy"
                /\ \E value : /\ SetValue(n, value)
                              /\ value = message[n].value \/ IsPrefix(value, t)
    <3>1. length = Len(Varint(size))
      BY <2>3, <2>4
    <3>2. Agrees(pos - 1, <<MakeTag(n, LENGTH_DELIMITED)>> \o Varint(size) \o t)
      BY <2>1, <2>2
    <3>3. QED
      BY <1>4, <2>2, <3>1, <3>2, StringOutcome
  <2>9. (end <= received + 1 <=> pos + length + size <= received)
        /\ (end > received + 1 <=> pos + length + size > received)
    BY <1>1, <2>7
  <2>10. sent[n].value = t
    BY <2>1
  <2>11. \A value : IsPrefix(value, t) => PartlyRead(schema[n], value, sent[n].value)
    BY <1>4, <2>10 DEF PartlyRead
  <2>12. QED
    BY <2>7, <2>8, <2>9, <2>10, <2>11
<1>5. QED
  BY <1>1, <1>2, <1>3, <1>4 DEF Fields

-----------------------------------------------------------------------------
(* The places of fields and items, in order.                               *)
LEMMA SentMeans ==
    ASSUME SentOK
    PROVE  /\ schema \in Seq(Fields) /\ DOMAIN schema = 1..Len(schema) /\ Len(schema) \in 1..4
           /\ Len(schema) \in Nat
BY SchemaFields, FewFields DEF SentOK

(* A field ends no later than the message, an item no later than its list. *)
LEMMA PlacedGrow ==
    ASSUME SentOK, NEW at, Placed(at), NEW n \in DOMAIN schema
    PROVE  \E a, b, l, last \in Nat :
             /\ a = at[n] /\ b = at[n + 1] /\ l = Len(Text(n)) /\ last = at[Len(schema) + 1]
             /\ b = a + l /\ b <= last
<1>1. PICK c \in Nat : c = Len(schema) /\ DOMAIN schema = 1..c
  BY SentMeans
<1>2. /\ at \in [1..(c + 1) -> Nat]
      /\ \A k \in 1..c : at[k + 1] = at[k] + Len(Text(k))
  BY <1>1 DEF Placed
<1>3. n \in 1..c /\ n \in 1..(c + 1) /\ n + 1 \in 1..(c + 1) /\ c + 1 \in 1..(c + 1)
  BY <1>1
<1>4. \A k \in 1..c : Text(k) \in Seq(0..255)
  <2> TAKE k \in 1..c
  <2>1. k \in DOMAIN schema /\ k \in 1..4
    BY <1>1, FieldSent
  <2>2. sent[k] \in PlacesOf(schema[k])
    BY <2>1, MessagesType, SentMeans DEF SentOK
  <2>3. QED
    BY <2>1, <2>2, WriteFieldType, SentMeans DEF Text
<1>5. \A k \in 1..c : at[k] <= at[k + 1]
  <2> TAKE k \in 1..c
  <2>1. PICK l \in Nat : l = Len(Text(k))
    BY <1>4
  <2>2. k \in 1..(c + 1)
    OBVIOUS
  <2>3. PICK a \in Nat : a = at[k]
    BY <1>2, <2>2
  <2>4. at[k + 1] = a + l
    BY <1>2, <2>1, <2>3
  <2>5. QED
    BY <2>3, <2>4
<1>6. at[n + 1] <= at[c + 1]
  BY <1>2, <1>3, <1>5, StartsGrow
<1>7. PICK l \in Nat : l = Len(Text(n))
  BY <1>3, <1>4
<1>8. PICK a \in Nat, b \in Nat, last \in Nat : a = at[n] /\ b = at[n + 1] /\ last = at[c + 1]
  BY <1>2, <1>3
<1>9. b = a + l
  BY <1>2, <1>3, <1>7, <1>8
<1>10. QED
  BY <1>1, <1>6, <1>7, <1>8, <1>9

LEMMA ListGrow ==
    ASSUME SentOK, NEW at, Placed(at), NEW n \in DOMAIN schema, schema[n].rule = "repeated",
           NEW to, ListPlaced(n, at, to), NEW i \in 0..Len(sent[n].value), i < Len(sent[n].value)
    PROVE  \E a, b, l, last \in Nat :
             /\ a = to[i + 1] /\ b = to[(i + 1) + 1] /\ l = Len(WriteInt32(n, sent[n].value[i + 1]))
             /\ last = at[n + 1]
             /\ b = a + l /\ b <= last
<1>1. PICK list \in Seq(Int32s) : list = sent[n].value
  <2>1. PICK list \in Seq(Int32s) : sent[n] = [has |-> FALSE, value |-> list]
    BY FieldSent
  <2>2. QED
    BY <2>1
<1>2. PICK c \in Nat : c = Len(list)
  OBVIOUS
<1>3. /\ to \in [1..(c + 1) -> Nat] /\ to[c + 1] = at[n + 1]
      /\ \A k \in 1..c : to[k + 1] = to[k] + Len(WriteInt32(n, list[k]))
  BY <1>1, <1>2 DEF ListPlaced
<1>4. PICK j \in 1..c : j = i + 1 /\ j \in 1..(c + 1) /\ j + 1 \in 1..(c + 1) /\ c + 1 \in 1..(c + 1)
  <2>1. i + 1 \in 1..c /\ i + 1 \in 1..(c + 1) /\ (i + 1) + 1 \in 1..(c + 1) /\ c + 1 \in 1..(c + 1)
    BY <1>1, <1>2
  <2>2. QED
    BY <2>1
<1>5. \A k \in 1..c : WriteInt32(n, list[k]) \in Seq(0..255)
  <2> TAKE k \in 1..c
  <2>1. list[k] \in Int32s /\ n \in 1..4
    BY <1>2, ElementOfSeq, FieldSent
  <2>2. QED
    BY <2>1, WriteInt32Type
<1>6. \A k \in 1..c : to[k] <= to[k + 1]
  <2> TAKE k \in 1..c
  <2>1. PICK l \in Nat : l = Len(WriteInt32(n, list[k]))
    BY <1>5, BytesCount
  <2>2. k \in 1..(c + 1)
    OBVIOUS
  <2>3. PICK a \in Nat : a = to[k]
    BY <1>3, <2>2
  <2>4. to[k + 1] = a + l
    BY <1>3, <2>1, <2>3
  <2>5. QED
    BY <2>3, <2>4
<1>7. to[j + 1] <= to[c + 1]
  BY <1>3, <1>4, <1>6, StartsGrow
<1>8. PICK l \in Nat : l = Len(WriteInt32(n, list[j]))
  BY <1>4, <1>5, BytesCount
<1>9. PICK a \in Nat, b \in Nat, last \in Nat : a = to[j] /\ b = to[j + 1] /\ last = to[c + 1]
  BY <1>3, <1>4
<1>10. b = a + l
  BY <1>3, <1>4, <1>8, <1>9
<1>11. QED
  BY <1>1, <1>3, <1>4, <1>7, <1>8, <1>9, <1>10

-----------------------------------------------------------------------------
(* How far the parse is: before a field, or behind some items of a list.   *)
Before(at, n) == message[n] = Blank(n) /\ pos = 1 + at[n]

Amid(at, n, to, i) ==
    /\ schema[n].rule = "repeated" /\ ListPlaced(n, at, to)
    /\ i \in 0..Len(sent[n].value)
    /\ message[n] = [has |-> FALSE, value |-> SubSeq(sent[n].value, 1, i)]
    /\ pos = 1 + to[i + 1]

Around(n) == \A k \in DOMAIN schema : /\ k < n => message[k] = sent[k]
                                      /\ k > n => message[k] = Blank(k)

Reading(at, n) ==
    /\ n \in 1..(Len(schema) + 1) /\ Around(n)
    /\ n \in DOMAIN schema => Before(at, n) \/ \E to, i : Amid(at, n, to, i)
    /\ n = Len(schema) + 1 => pos = 1 + at[n]

Upcoming(at, n) ==
    /\ n \in DOMAIN schema /\ Around(n)
    /\ \/ Single(n) /\ sent[n].has /\ Before(at, n)
       \/ \E to, i : Amid(at, n, to, i) /\ i < Len(sent[n].value)

(* A list of which nothing is read yet.                                    *)
LEMMA ListBegins ==
    ASSUME SentOK, NEW at, Placed(at), NEW n \in DOMAIN schema, schema[n].rule = "repeated",
           Before(at, n)
    PROVE  \E to, i : Amid(at, n, to, i)
<1>1. PICK to : ListPlaced(n, at, to)
  BY ListIsPlaced
<1>2. PICK list \in Seq(Int32s) : sent[n] = [has |-> FALSE, value |-> list]
  BY FieldSent
<1>3. sent[n].value = list /\ 0 \in 0..Len(list) /\ 0 + 1 = 1
  BY <1>2
<1>4. SubSeq(list, 1, 0) = <<>>
  OBVIOUS
<1>5. Blank(n) = [has |-> FALSE, value |-> <<>>]
  BY DEF Blank, DefaultOf
<1>6. to[1] = at[n]
  BY <1>1 DEF ListPlaced
<1>7. Amid(at, n, to, 0)
  BY <1>1, <1>3, <1>4, <1>5, <1>6 DEF Amid, Before
<1>8. QED
  BY <1>7

(* A field of which nothing is left to read is as it was sent.             *)
LEMMA NothingLeft ==
    ASSUME SentOK, NEW at, Placed(at), NEW n \in DOMAIN schema, Reading(at, n), ~Upcoming(at, n)
    PROVE  Reading(at, n + 1)
<1>1. PICK c \in Nat : c = Len(schema) /\ DOMAIN schema = 1..c
  BY SentMeans
<1>2. Around(n) /\ (Before(at, n) \/ \E to, i : Amid(at, n, to, i))
  BY DEF Reading
<1>3. message[n] = sent[n] /\ pos = 1 + at[n + 1]
  <2>1. CASE Single(n)
    <3>1. Before(at, n)
      BY <1>2, <2>1 DEF Amid, Single
    <3>2. ~sent[n].has
      BY <1>2, <2>1, <3>1 DEF Upcoming
    <3>3. sent[n] = Blank(n) /\ Text(n) = <<>>
      BY <2>1, <3>2, FieldSent
    <3>4. PICK a \in Nat, b \in Nat, l \in Nat :
            a = at[n] /\ b = at[n + 1] /\ l = Len(Text(n)) /\ b = a + l
      BY PlacedGrow
    <3>5. l = 0
      BY <3>3, <3>4
    <3>6. QED
      BY <3>1, <3>3, <3>4, <3>5 DEF Before
  <2>2. CASE schema[n].rule = "repeated"
    <3>1. PICK to, i : Amid(at, n, to, i)
      BY <1>2, <2>2, ListBegins
    <3>2. PICK list \in Seq(Int32s) : sent[n] = [has |-> FALSE, value |-> list]
      BY <2>2, FieldSent
    <3>3. PICK m \in Nat : m = Len(list)
      OBVIOUS
    <3>4. i \in 0..m /\ ~(i < m)
      <4>1. sent[n].value = list
        BY <3>2
      <4>2. ~(i < Len(sent[n].value))
        BY <1>2, <3>1 DEF Upcoming
      <4>3. i \in 0..Len(sent[n].value)
        BY <3>1 DEF Amid
      <4>4. QED
        BY <3>3, <4>1, <4>2, <4>3
    <3>5. i = m
      BY <3>4
    <3>6. SubSeq(list, 1, m) = list
      BY <3>3, WholePart
    <3>7. message[n] = sent[n]
      <4>1. sent[n].value = list
        BY <3>2
      <4>2. message[n] = [has |-> FALSE, value |-> SubSeq(sent[n].value, 1, i)]
        BY <3>1 DEF Amid
      <4>3. SubSeq(sent[n].value, 1, i) = list
        BY <3>5, <3>6, <4>1
      <4>4. QED
        BY <3>2, <4>2, <4>3
    <3>8. to[m + 1] = at[n + 1] /\ pos = 1 + to[m + 1]
      BY <3>1, <3>2, <3>3, <3>5 DEF Amid, ListPlaced
    <3>9. QED
      BY <3>7, <3>8
  <2>3. QED
    BY <2>1, <2>2 DEF Single
<1>4. Around(n + 1)
  <2> SUFFICES ASSUME NEW k \in DOMAIN schema
               PROVE  /\ k < n + 1 => message[k] = sent[k]
                      /\ k > n + 1 => message[k] = Blank(k)
    BY DEF Around
  <2>1. (k < n \/ k = n \/ k > n) /\ (k < n + 1 => k < n \/ k = n) /\ (k > n + 1 => k > n)
    BY <1>1
  <2>2. QED
    BY <1>2, <1>3, <2>1 DEF Around
<1>5. n + 1 \in DOMAIN schema => Before(at, n + 1)
  <2>1. n + 1 > n
    BY <1>1
  <2>2. QED
    BY <1>2, <1>3, <2>1 DEF Around, Before
<1>6. n + 1 \in 1..(c + 1)
  BY <1>1
<1>7. QED
  BY <1>1, <1>3, <1>4, <1>5, <1>6 DEF Reading

(* The parse is at its end, or there is a field to read.                   *)
LEMMA Furthest ==
    ASSUME SentOK, NEW at, Placed(at), NEW first, Reading(at, first)
    PROVE  Reading(at, Len(schema) + 1) \/ \E n \in DOMAIN schema : Upcoming(at, n)
<1>1. PICK c \in Nat : c = Len(schema) /\ DOMAIN schema = 1..c
  BY SentMeans
<1> DEFINE Goal == Reading(at, c + 1) \/ \E n \in DOMAIN schema : Upcoming(at, n)
           Fine == {d \in Nat : \A n \in 1..(c + 1) : n + d = c + 1 /\ Reading(at, n) => Goal}
<1>2. 0 \in Fine
  <2>1. \A n \in 1..(c + 1) : n + 0 = c + 1 => n = c + 1
    OBVIOUS
  <2>2. QED
    BY <2>1
<1>3. ASSUME NEW d \in Nat, d \in Fine PROVE d + 1 \in Fine
  <2> SUFFICES ASSUME NEW n \in 1..(c + 1), n + (d + 1) = c + 1, Reading(at, n) PROVE Goal
    <3> HIDE DEF Goal
    <3>1. d + 1 \in Nat
      OBVIOUS
    <3>2. QED
      BY <3>1
  <2>1. n \in 1..c /\ n + 1 \in 1..(c + 1) /\ (n + 1) + d = c + 1
    OBVIOUS
  <2>2. CASE Upcoming(at, n)
    BY <1>1, <2>1, <2>2
  <2>3. CASE ~Upcoming(at, n)
    <3>1. Reading(at, n + 1)
      BY <1>1, <2>1, <2>3, NothingLeft
    <3> HIDE DEF Goal
    <3>2. QED
      BY <1>3, <2>1, <3>1
  <2>4. QED
    BY <2>2, <2>3
<1>4. Nat \subseteq Fine
  <2> HIDE DEF Fine
  <2>1. QED
    BY <1>2, <1>3, CountsThrough
<1>5. first \in 1..(c + 1)
  BY <1>1 DEF Reading
<1>6. (c + 1) - first \in Nat /\ first + ((c + 1) - first) = c + 1
  BY <1>5
<1>7. Goal
  <2> HIDE DEF Goal
  <2>1. QED
    BY <1>4, <1>5, <1>6
<1>8. QED
  BY <1>1, <1>7

-----------------------------------------------------------------------------
(* What is read so far is a part of what was sent.                         *)
PartsRight ==
    \A n \in DOMAIN schema : PartlyRead(schema[n], message[n].value, sent[n].value)

LEMMA ReadingIsPart ==
    ASSUME SentOK, NEW at, NEW n, Reading(at, n) PROVE PartsRight
<1>1. PICK c \in Nat : c = Len(schema) /\ DOMAIN schema = 1..c
  BY SentMeans
<1>2. n \in 1..(c + 1) /\ Around(n)
  BY <1>1 DEF Reading
<1>3. ASSUME NEW k \in DOMAIN schema
      PROVE  PartlyRead(schema[k], message[k].value, sent[k].value)
  <2>1. k < n \/ k > n \/ k = n
    BY <1>1, <1>2
  <2>2. CASE k < n
    BY <1>2, <2>2 DEF Around, PartlyRead
  <2>3. ASSUME message[k] = Blank(k)
        PROVE  PartlyRead(schema[k], message[k].value, sent[k].value)
    BY <2>3 DEF Blank, PartlyRead
  <2>4. CASE k > n
    BY <1>2, <2>3, <2>4 DEF Around
  <2>5. CASE k = n
    <3>1. CASE Before(at, n)
      BY <2>3, <2>5, <3>1 DEF Before
    <3>2. ASSUME NEW to, NEW i, Amid(at, n, to, i)
          PROVE  PartlyRead(schema[k], message[k].value, sent[k].value)
      <4>1. PICK list \in Seq(Int32s) : sent[n].value = list
        <5>1. PICK list \in Seq(Int32s) : sent[n] = [has |-> FALSE, value |-> list]
          BY <2>5, <3>2, FieldSent DEF Amid
        <5>2. QED
          BY <5>1
      <4>2. /\ schema[n].rule = "repeated" /\ i \in 0..Len(list)
            /\ message[n].value = SubSeq(list, 1, i)
        BY <3>2, <4>1 DEF Amid
      <4>3. PICK j \in Nat : j = i /\ j <= Len(list) /\ 0 + j = j /\ 0 + 1 = 1
        BY <4>2
      <4>4. /\ SubSeq(list, 0 + 1, 0 + j) \in Seq(Int32s) /\ Len(SubSeq(list, 0 + 1, 0 + j)) = j
        BY <4>3, PartOf
      <4>5. PICK front \in Seq(Int32s) : front = SubSeq(list, 1, j) /\ Len(front) = j
        BY <4>3, <4>4
      <4>6. SubSeq(front, 1, j) = front
        BY <4>5, WholePart
      <4>7. IsPrefix(front, list)
        BY <4>3, <4>5, <4>6 DEF IsPrefix
      <4>8. QED
        BY <2>5, <4>1, <4>2, <4>3, <4>5, <4>7 DEF PartlyRead
    <3>3. QED
      BY <2>5, <3>1, <3>2 DEF Reading
  <2>6. QED
    BY <2>1, <2>2, <2>4, <2>5
<1>4. QED
  BY <1>3 DEF PartsRight

(* Nothing that is about the input changes.                                *)
LEMMA SameInput ==
    ASSUME input' = input
    PROVE  /\ schema' = schema /\ bytes' = bytes /\ sent' = sent /\ received' = received
           /\ OwnFields' = OwnFields /\ SentOK' = SentOK
           /\ \A n : Blank(n)' = Blank(n)
BY DEF schema, bytes, sent, received, OwnFields, SentOK, Blank

LEMMA SamePlaces ==
    ASSUME input' = input, NEW at
    PROVE  /\ Placed(at) => Placed(at)'
           /\ \A n, to : ListPlaced(n, at, to) => ListPlaced(n, at, to)'
<1>1. schema' = schema /\ bytes' = bytes /\ sent' = sent /\ received' = received
  BY SameInput
<1>2. ASSUME NEW start, NEW text PROVE Agrees(start, text)' <=> Agrees(start, text)
  BY <1>1 DEF Agrees
<1>3. Placed(at) => Placed(at)'
  BY <1>1 DEF Placed, Agrees, Text
<1>4. ASSUME NEW n, NEW to, ListPlaced(n, at, to) PROVE ListPlaced(n, at, to)'
  BY <1>1, <1>4 DEF ListPlaced, Agrees
<1>5. QED
  BY <1>3, <1>4

(* A field is read, and the next one comes.                                *)
LEMMA Advanced ==
    ASSUME SentOK, input' = input, NEW at, NEW n \in DOMAIN schema, Around(n),
           message'[n] = sent[n],
           \A k \in DOMAIN schema : k # n => message'[k] = message[k],
           pos' = 1 + at[n + 1]
    PROVE  Reading(at, n + 1)'
<1>1. PICK c \in Nat : c = Len(schema) /\ DOMAIN schema = 1..c
  BY SentMeans
<1>2. schema' = schema /\ sent' = sent /\ \A k : Blank(k)' = Blank(k)
  BY SameInput
<1>3. ASSUME NEW k \in DOMAIN schema
      PROVE  /\ k < n + 1 => message'[k] = sent[k]
             /\ k > n + 1 => message'[k] = Blank(k)
  <2>1. (k < n + 1 => k < n \/ k = n) /\ (k > n + 1 => k > n /\ k # n) /\ (k < n => k # n)
    BY <1>1
  <2>2. QED
    BY <2>1 DEF Around
<1>4. Around(n + 1)'
  BY <1>2, <1>3 DEF Around
<1>5. n + 1 \in DOMAIN schema => Before(at, n + 1)'
  <2>1. n + 1 > n /\ n + 1 # n
    BY <1>1
  <2>2. QED
    BY <1>2, <2>1 DEF Around, Before
<1>6. n + 1 \in 1..(c + 1)
  BY <1>1
<1>7. QED
  BY <1>1, <1>2, <1>4, <1>5, <1>6 DEF Reading

(* So is an item of a list.                                                *)
LEMMA ItemAdvanced ==
    ASSUME SentOK, input' = input, NEW at, NEW n \in DOMAIN schema, Around(n),
           NEW to, NEW i, Amid(at, n, to, i), i < Len(sent[n].value),
           DOMAIN message = DOMAIN schema,
           message' = [message EXCEPT ![n].value = Append(@, sent[n].value[i + 1])],
           pos' = 1 + to[(i + 1) + 1]
    PROVE  Reading(at, n)'
<1>1. PICK c \in Nat : c = Len(schema) /\ DOMAIN schema = 1..c
  BY SentMeans
<1>2. schema' = schema /\ sent' = sent /\ \A k : Blank(k)' = Blank(k)
  BY SameInput
<1>3. PICK list \in Seq(Int32s) : sent[n].value = list
  <2>1. PICK list \in Seq(Int32s) : sent[n] = [has |-> FALSE, value |-> list]
    BY FieldSent DEF Amid
  <2>2. QED
    BY <2>1
<1>4. PICK m \in Nat : m = Len(list)
  OBVIOUS
<1>5. PICK j \in Nat : j = i /\ j < m /\ j + 1 \in 0..m
  <2>1. i \in 0..m /\ i < m
    BY <1>3, <1>4 DEF Amid
  <2>2. QED
    BY <2>1
<1>6. Append(SubSeq(list, 1, j), list[j + 1]) = SubSeq(list, 1, j + 1)
  BY <1>4, <1>5
<1>7. message[n] = [has |-> FALSE, value |-> SubSeq(list, 1, j)]
  BY <1>3, <1>5 DEF Amid
<1>8. message'[n] = [has |-> FALSE, value |-> SubSeq(list, 1, j + 1)]
  <2>1. message'[n] = [message[n] EXCEPT !.value = Append(@, list[j + 1])]
    BY <1>3, <1>5
  <2>2. PICK front, e : front = SubSeq(list, 1, j) /\ e = list[j + 1]
    OBVIOUS
  <2>3. message'[n] = [[has |-> FALSE, value |-> front] EXCEPT !.value = Append(@, e)]
    BY <1>7, <2>1, <2>2
  <2>4. message'[n] = [has |-> FALSE, value |-> Append(front, e)]
    BY <2>3
  <2>5. QED
    BY <1>6, <2>2, <2>4
<1>9. \A k \in DOMAIN schema : k # n => message'[k] = message[k]
  OBVIOUS
<1>10. Around(n)'
  <2>1. \A k \in DOMAIN schema : (k < n => k # n) /\ (k > n => k # n)
    BY <1>1
  <2>2. QED
    BY <1>2, <1>9, <2>1 DEF Around
<1>11. Amid(at, n, to, j + 1)'
  <2>1. ListPlaced(n, at, to)'
    BY SamePlaces DEF Amid
  <2>2. schema[n].rule = "repeated"
    BY DEF Amid
  <2>3. QED
    BY <1>2, <1>3, <1>4, <1>5, <1>8, <2>1, <2>2 DEF Amid
<1>12. n \in 1..(c + 1) /\ n # c + 1
  BY <1>1
<1>13. QED
  BY <1>1, <1>2, <1>10, <1>11, <1>12 DEF Reading

(* SetValue sets one field.                                                *)
LEMMA ValueSet ==
    ASSUME NEW n \in DOMAIN schema, DOMAIN message = DOMAIN schema, NEW value, SetValue(n, value)
    PROVE  /\ message'[n] = [has |-> TRUE, value |-> value]
           /\ \A k \in DOMAIN schema : k # n => message'[k] = message[k]
           /\ message' = [k \in DOMAIN schema |-> message'[k]]
BY DEF SetValue

(* The step that reads what comes next gets it right, or runs into the cut.*)
LEMMA UpcomingStep ==
    ASSUME IInv, SentOK, NEW at, Placed(at), NEW n, Upcoming(at, n), PartsRight,
           Busy, groups = <<>>, pos <= received, Next
    PROVE  /\ UNCHANGED <<input, groups, packed>>
           /\ \/ UNCHANGED result /\ \E m : Reading(at, m)'
              \/ at[Len(schema) + 1] > received
                 /\ (pos' > received + 1 \/ (result' # "busy" /\ PartsRight'))
<1>1. /\ n \in DOMAIN schema /\ Around(n) /\ received \in 0..Len(bytes)
      /\ DOMAIN message = DOMAIN schema
  BY DEF Upcoming, Placed, IInv, TypeOK
<1>2. InsideOf(n)
  BY <1>1 DEF InsideOf, IInv
<1>3. /\ pos \in Nat \ {0} /\ received \in Nat /\ n \in 1..4 /\ schema[n] \in Fields
  BY <1>2, InsideMeans
<1>4. PICK a \in Nat, b \in Nat, l \in Nat, last \in Nat :
        /\ a = at[n] /\ b = at[n + 1] /\ l = Len(Text(n)) /\ last = at[Len(schema) + 1]
        /\ b = a + l /\ b <= last
  BY <1>1, PlacedGrow
<1>5. DOMAIN schema = 1..Len(schema)
  BY SentMeans
<1>6. CASE Single(n) /\ sent[n].has /\ Before(at, n)
  <2>1. pos = 1 + a /\ pos - 1 = a
    BY <1>4, <1>6 DEF Before
  <2>2. Agrees(pos - 1, Text(n))
    BY <1>1, <1>4, <1>5, <2>1 DEF Placed
  <2>3. PICK end \in Nat : end = pos + Len(Text(n)) /\ end = 1 + b
    <3>1. \A x, y, z \in Nat : z = x + y => (1 + x) + y = 1 + z /\ 1 + z \in Nat
      OBVIOUS
    <3>2. pos + l = 1 + b /\ 1 + b \in Nat
      <4>1. b = a + l /\ pos = 1 + a
        BY <1>4, <2>1
      <4>2. QED
        BY ONLY a \in Nat, b \in Nat, l \in Nat, <3>1, <4>1
    <3>3. QED
      BY <1>4, <3>2
  <2>4. /\ UNCHANGED <<input, groups, packed>>
        /\ end <= received + 1 =>
             pos' = end /\ UNCHANGED result /\ SetValue(n, sent[n].value)
        /\ end > received + 1 =>
             \/ pos' > received + 1
             \/ /\ result' # "busy"
                /\ \E value : /\ SetValue(n, value)
                              /\ \/ value = message[n].value
                                 \/ PartlyRead(schema[n], value, sent[n].value)
    BY <1>2, <1>6, <2>2, <2>3, SingleOutcome
  <2>5. CASE end <= received + 1
    <3>1. sent[n] = [has |-> TRUE, value |-> sent[n].value]
      <4>1. CASE schema[n].type = "int32"
        <5>1. PICK i \in Int32s : sent[n] = [has |-> TRUE, value |-> i]
          BY <1>1, <1>6, <4>1, FieldSent
        <5>2. QED
          BY <5>1
      <4>2. CASE schema[n].type = "bool"
        <5>1. PICK yes \in BOOLEAN : sent[n] = [has |-> TRUE, value |-> yes]
          BY <1>1, <1>6, <4>2, FieldSent
        <5>2. QED
          BY <5>1
      <4>3. CASE schema[n].type = "string"
        <5>1. PICK t \in Seq(0..255) : sent[n] = [has |-> TRUE, value |-> t]
          BY <1>1, <1>6, <4>3, FieldSent
        <5>2. QED
          BY <5>1
      <4>4. QED
        BY <1>3, <4>1, <4>2, <4>3 DEF Fields
    <3>2. /\ message'[n] = sent[n]
          /\ \A k \in DOMAIN schema : k # n => message'[k] = message[k]
      BY <1>1, <2>4, <2>5, <3>1, ValueSet
    <3>3. pos' = 1 + at[n + 1]
      BY <1>4, <2>3, <2>4, <2>5
    <3>4. Reading(at, n + 1)'
      BY <1>1, <2>4, <3>2, <3>3, Advanced
    <3>5. QED
      BY <2>4, <2>5, <3>4
  <2>6. CASE end > received + 1
    <3>1. last > received
      <4>1. \A x, y, z \in Nat : 1 + x > z + 1 /\ x <= y => y > z
        OBVIOUS
      <4>2. QED
        BY <1>3, <1>4, <2>3, <2>6, <4>1
    <3>2. CASE pos' > received + 1
      BY <1>4, <2>4, <3>1, <3>2
    <3>3. CASE ~(pos' > received + 1)
      <4>1. PICK value : /\ result' # "busy" /\ SetValue(n, value)
                         /\ \/ value = message[n].value
                            \/ PartlyRead(schema[n], value, sent[n].value)
        BY <2>4, <2>6, <3>3
      <4>2. PartlyRead(schema[n], value, sent[n].value)
        BY <1>1, <4>1 DEF PartsRight
      <4>3. /\ message'[n] = [has |-> TRUE, value |-> value]
            /\ \A k \in DOMAIN schema : k # n => message'[k] = message[k]
        BY <1>1, <4>1, ValueSet
      <4>4. \A k \in DOMAIN schema : PartlyRead(schema[k], message'[k].value, sent[k].value)
        BY <4>2, <4>3 DEF PartsRight
      <4>5. schema' = schema /\ sent' = sent
        BY <2>4, SameInput
      <4>6. PartsRight'
        BY <4>4, <4>5 DEF PartsRight
      <4>7. QED
        BY <1>4, <2>4, <3>1, <4>1, <4>6
    <3>4. QED
      BY <3>2, <3>3
  <2>7. QED
    BY <1>3, <2>3, <2>5, <2>6
<1>7. CASE \E to, i : Amid(at, n, to, i) /\ i < Len(sent[n].value)
  <2>1. PICK to, i : Amid(at, n, to, i) /\ i < Len(sent[n].value)
    BY <1>7
  <2>2. /\ schema[n].rule = "repeated" /\ ListPlaced(n, at, to) /\ i \in 0..Len(sent[n].value)
        /\ pos = 1 + to[i + 1]
    BY <2>1 DEF Amid
  <2>3. PICK c \in Nat, d \in Nat, e \in Nat :
          /\ c = to[i + 1] /\ d = to[(i + 1) + 1]
          /\ e = Len(WriteInt32(n, sent[n].value[i + 1]))
          /\ d = c + e /\ d <= b
    <3>1. \E p, q, r, s \in Nat :
            /\ p = to[i + 1] /\ q = to[(i + 1) + 1] /\ r = Len(WriteInt32(n, sent[n].value[i + 1]))
            /\ s = at[n + 1]
            /\ q = p + r /\ q <= s
      <4>1. i < Len(sent[n].value) /\ i \in 0..Len(sent[n].value)
        BY <2>1, <2>2
      <4>2. schema[n].rule = "repeated" /\ ListPlaced(n, at, to)
        BY <2>2
      <4>3. QED
        BY <1>1, <4>1, <4>2, ListGrow, SMTT(30)
    <3>2. QED
      BY <1>4, <3>1
  <2>4. PICK list \in Seq(Int32s) : sent[n].value = list
    <3>1. PICK list \in Seq(Int32s) : sent[n] = [has |-> FALSE, value |-> list]
      BY <1>1, <2>2, FieldSent
    <3>2. QED
      BY <3>1
  <2>5. PICK item \in Int32s : item = list[i + 1]
    <3>1. i + 1 \in 1..Len(list)
      BY <2>1, <2>2, <2>4
    <3>2. QED
      BY <3>1, ElementOfSeq
  <2>6. PICK raw \in Nat, length \in Nat \ {0} :
          /\ raw < Wide /\ length = Len(Varint(raw))
          /\ WriteInt32(n, item) = <<MakeTag(n, VARINT)>> \o Varint(raw)
          /\ Len(WriteInt32(n, item)) = 1 + length
          /\ Int32(raw) = item
    BY <1>3, Int32Text
  <2>7. e = 1 + length /\ pos = 1 + c /\ pos - 1 = c /\ pos + length = d
    <3>1. e = 1 + length
      BY <2>3, <2>4, <2>5, <2>6
    <3>2. pos = 1 + c
      BY <2>2, <2>3
    <3>3. \A p, q \in Nat : p = 1 + q => p - 1 = q
      OBVIOUS
    <3>4. pos - 1 = c
      BY <1>3, <2>3, <3>2, <3>3
    <3>5. pos + length = d
      <4>1. e = 1 + length /\ pos = 1 + c /\ d = c + e /\ pos \in Nat
        BY <1>3, <2>3, <3>1, <3>2
      <4>2. QED
        BY <4>1
    <3>6. QED
      BY <3>1, <3>2, <3>4, <3>5
  <2>8. Agrees(pos - 1, <<MakeTag(n, VARINT)>> \o Varint(raw))
    <3>1. i + 1 \in 1..Len(sent[n].value)
      BY <2>1, <2>2, <2>4
    <3>2. Agrees(to[i + 1], WriteInt32(n, sent[n].value[i + 1]))
      BY <2>2, <3>1 DEF ListPlaced
    <3>3. QED
      BY <2>3, <2>4, <2>5, <2>6, <2>7, <3>2
  <2>9. /\ UNCHANGED <<input, groups, packed>>
        /\ pos + length <= received =>
             /\ pos' = pos + 1 + length /\ UNCHANGED result
             /\ message' = [message EXCEPT ![n].value = Append(@, Int32(raw))]
        /\ pos + length > received =>
             \/ pos' > received + 1
             \/ message' = message /\ result' # "busy"
    BY <1>2, <2>2, <2>6, <2>8, RepeatedOutcome, SMTT(30)
  <2>10. CASE pos + length <= received
    <3>1. pos + 1 + length = 1 + d
      BY <1>3, <2>7
    <3>2. pos' = 1 + to[(i + 1) + 1]
      BY <2>3, <2>9, <2>10, <3>1
    <3>3. message' = [message EXCEPT ![n].value = Append(@, sent[n].value[i + 1])]
      BY <2>4, <2>5, <2>6, <2>9, <2>10
    <3>4. Reading(at, n)'
      BY <1>1, <2>1, <2>9, <3>2, <3>3, ItemAdvanced
    <3>5. QED
      BY <2>9, <2>10, <3>4
  <2>11. CASE pos + length > received
    <3>1. last > received
      <4>1. \A u, v, w, x \in Nat : u > x /\ u <= v /\ v <= w => w > x
        OBVIOUS
      <4>2. d > received /\ d <= b /\ b <= last
        BY <1>4, <2>3, <2>7, <2>11
      <4>3. QED
        BY <1>3, <1>4, <2>3, <4>1, <4>2
    <3>2. CASE pos' > received + 1
      BY <1>4, <2>9, <3>1, <3>2
    <3>3. CASE ~(pos' > received + 1)
      <4>1. message' = message /\ result' # "busy"
        BY <2>9, <2>11, <3>3
      <4>2. schema' = schema /\ sent' = sent
        BY <2>9, SameInput
      <4>3. PartsRight'
        BY <4>1, <4>2 DEF PartsRight
      <4>4. QED
        BY <1>4, <2>9, <3>1, <4>1, <4>3
    <3>4. QED
      BY <3>2, <3>3
  <2>12. QED
    BY <1>3, <2>10, <2>11
<1>8. QED
  BY <1>6, <1>7 DEF Upcoming

(* Nothing that is left to read is behind what was received.               *)
LEMMA UpcomingIsAhead ==
    ASSUME SentOK, NEW at, Placed(at), NEW n, Upcoming(at, n)
    PROVE  pos <= at[Len(schema) + 1]
<1>1. n \in DOMAIN schema
  BY DEF Upcoming
<1>2. n \in 1..4 /\ schema[n] \in Fields
  BY <1>1, FieldSent
<1>3. PICK a \in Nat, b \in Nat, l \in Nat, last \in Nat :
        /\ a = at[n] /\ b = at[n + 1] /\ l = Len(Text(n)) /\ last = at[Len(schema) + 1]
        /\ b = a + l /\ b <= last
  BY <1>1, PlacedGrow
<1>4. CASE Single(n) /\ sent[n].has /\ Before(at, n)
  <2>1. l >= 1
    <3>1. CASE schema[n].type = "int32"
      <4>1. PICK i \in Int32s : Text(n) = WriteInt32(n, i)
        BY <1>1, <1>4, <3>1, FieldSent
      <4>2. PICK raw \in Nat, length \in Nat \ {0} : Len(WriteInt32(n, i)) = 1 + length
        BY <1>2, Int32Text
      <4>3. l = 1 + length
        BY <1>3, <4>1, <4>2
      <4>4. QED
        BY <4>3
    <3>2. CASE schema[n].type = "bool"
      <4>1. PICK b1 \in BOOLEAN : Text(n) = <<MakeTag(n, VARINT), IF b1 THEN 1 ELSE 0>>
        BY <1>1, <1>4, <3>2, FieldSent
      <4>2. Len(Text(n)) = 2
        BY <4>1
      <4>3. QED
        BY <1>3, <4>2
    <3>3. CASE schema[n].type = "string"
      <4>1. PICK t \in Seq(0..255) :
              /\ Len(t) < Narrow \div 2
              /\ Text(n) = <<MakeTag(n, LENGTH_DELIMITED)>> \o Varint(Len(t)) \o t
        BY <1>1, <1>4, <3>3, FieldSent
      <4>2. PICK size \in Nat : size = Len(t) /\ size < Wide
        BY <4>1, SmallRaws
      <4>3. PICK digits \in Seq(0..255) : digits = Varint(size)
        BY <4>2, VarintType
      <4>4. PICK tag \in 0..255 : tag = MakeTag(n, LENGTH_DELIMITED)
        BY <1>2, TagByte
      <4>5. Len(<<tag>> \o digits \o t) = 1 + Len(digits) + Len(t) /\ Len(digits) \in Nat
        OBVIOUS
      <4>6. QED
        BY <1>3, <4>1, <4>2, <4>3, <4>4, <4>5
    <3>4. QED
      BY <1>2, <3>1, <3>2, <3>3 DEF Fields
  <2>2. pos = 1 + a
    BY <1>3, <1>4 DEF Before
  <2>3. QED
    BY <1>3, <2>1, <2>2
<1>5. CASE \E to, i : Amid(at, n, to, i) /\ i < Len(sent[n].value)
  <2>1. PICK to, i : Amid(at, n, to, i) /\ i < Len(sent[n].value)
    BY <1>5
  <2>2. /\ schema[n].rule = "repeated" /\ ListPlaced(n, at, to) /\ i \in 0..Len(sent[n].value)
        /\ pos = 1 + to[i + 1]
    BY <2>1 DEF Amid
  <2>3. PICK c \in Nat, d \in Nat, e \in Nat :
          /\ c = to[i + 1] /\ d = to[(i + 1) + 1]
          /\ e = Len(WriteInt32(n, sent[n].value[i + 1]))
          /\ d = c + e /\ d <= b
    <3>1. \E p, q, r, s \in Nat :
            /\ p = to[i + 1] /\ q = to[(i + 1) + 1] /\ r = Len(WriteInt32(n, sent[n].value[i + 1]))
            /\ s = at[n + 1]
            /\ q = p + r /\ q <= s
      <4>1. i < Len(sent[n].value) /\ i \in 0..Len(sent[n].value)
        BY <2>1, <2>2
      <4>2. schema[n].rule = "repeated" /\ ListPlaced(n, at, to)
        BY <2>2
      <4>3. QED
        BY <1>1, <4>1, <4>2, ListGrow, SMTT(30)
    <3>2. QED
      BY <1>3, <3>1
  <2>4. PICK list \in Seq(Int32s) : sent[n].value = list
    <3>1. PICK list \in Seq(Int32s) : sent[n] = [has |-> FALSE, value |-> list]
      BY <1>1, <2>2, FieldSent
    <3>2. QED
      BY <3>1
  <2>5. PICK item \in Int32s : item = list[i + 1]
    <3>1. i + 1 \in 1..Len(list)
      BY <2>1, <2>2, <2>4
    <3>2. QED
      BY <3>1, ElementOfSeq
  <2>6. e >= 1
    <3>1. PICK raw \in Nat, length \in Nat \ {0} : Len(WriteInt32(n, item)) = 1 + length
      BY <1>2, Int32Text
    <3>2. e = 1 + length
      BY <2>3, <2>4, <2>5, <3>1
    <3>3. QED
      BY <3>2
  <2>7. pos = 1 + c
    BY <2>2, <2>3
  <2>8. \A p, q, r, u, v \in Nat : p >= 1 /\ r = q + p /\ r <= u /\ u <= v => 1 + q <= v
    OBVIOUS
  <2>9. 1 + c <= last
    BY <1>3, <2>3, <2>6, <2>8
  <2>10. QED
    BY <1>3, <2>7, <2>9
<1>6. QED
  BY <1>4, <1>5 DEF Upcoming

-----------------------------------------------------------------------------
(* The steps from outside: where they lead.                                *)
MessageIsFcn == message = [n \in DOMAIN schema |-> message[n]]

(* What a step of a parse does besides: it has the end of the fields, or   *)
(* it leaves a packed field, or it goes on behind a tag.                   *)
LEMMA StepKinds ==
    ASSUME IInv, MergeStep
    PROVE  /\ input' = input /\ result = "busy"
           /\ \/ EndOfFields
              \/ EndPacked
              \/ ReadPacked /\ \E ok, next : GoOn(ok, next)
              \/ Busy /\ Tag # 0 /\ \E ok, next : GoOn(ok, next)
<1>1. Known => Tag # 0
  <2>1. Tag = 0 => Number = 0
    BY DEF Number
  <2>2. Known => Number \in 1..Len(schema)
    BY TypesOf DEF Known, IInv
  <2>3. 0 \notin 1..Len(schema)
    OBVIOUS
  <2>4. QED
    BY <2>1, <2>2, <2>3
<1>2. ASSUME NEW n \in DOMAIN schema, ReadPrimitive(n)
      PROVE  input' = input /\ Busy /\ Tag # 0 /\ \E ok, next : GoOn(ok, next)
  BY <1>1, <1>2 DEF ReadPrimitive
<1>3. ASSUME NEW n \in DOMAIN schema, ReadString(n)
      PROVE  input' = input /\ Busy /\ Tag # 0 /\ \E ok, next : GoOn(ok, next)
  BY <1>1, <1>3 DEF ReadString
<1>4. ASSUME NEW n \in DOMAIN schema, ReadRepeated(n)
      PROVE  input' = input /\ Busy /\ Tag # 0 /\ \E ok, next : GoOn(ok, next)
  BY <1>1, <1>4 DEF ReadRepeated, Add
<1>5. ASSUME NEW n \in DOMAIN schema, BeginPacked(n)
      PROVE  input' = input /\ Busy /\ Tag # 0 /\ \E ok, next : GoOn(ok, next)
  BY <1>1, <1>5 DEF BeginPacked
<1>6. CASE ReadPacked
  BY <1>6 DEF ReadPacked, Add
<1>7. CASE EndPacked
  BY <1>7 DEF EndPacked
<1>8. CASE EndOfFields
  BY <1>8 DEF EndOfFields, Busy
<1>9. CASE SkipVarint
  BY <1>9 DEF SkipVarint, Unusual, Busy
<1>10. CASE SkipFixed
  BY <1>10 DEF SkipFixed, Unusual, Busy
<1>11. CASE SkipDelimited
  BY <1>11 DEF SkipDelimited, Unusual, Busy
<1>12. CASE StartGroup
  BY <1>12 DEF StartGroup, Unusual, Busy
<1>13. CASE EndGroup
  BY <1>13 DEF EndGroup, Unusual, Busy
<1>14. CASE NoWireType
  BY <1>14 DEF NoWireType, Unusual, Busy
<1>15. QED
  BY <1>2, <1>3, <1>4, <1>5, <1>6, <1>7, <1>8, <1>9, <1>10, <1>11, <1>12, <1>13, <1>14
     DEF MergeStep, Busy

(* The parse never goes back, and outside of packed fields it goes on      *)
(* until the fields end.                                                   *)
LEMMA NeverBack ==
    ASSUME IInv, MergeStep
    PROVE  /\ pos' >= pos
           /\ Busy => EndOfFields \/ (pos' > pos /\ pos <= Len(bytes))
<1>1. /\ BytesTyped /\ pos \in 1..(Len(bytes) + 1) /\ Len(bytes) \in Nat
  BY TypesOf DEF IInv
<1>2. MovesOn
  BY StepMovesOn
<1>3. PICK p \in Nat, l \in Nat : p = pos /\ l = Len(bytes) /\ p <= l + 1
  BY <1>1
<1>4. CASE EndOfFields
  BY <1>3, <1>4 DEF EndOfFields
<1>5. CASE EndPacked
  BY <1>3, <1>5 DEF EndPacked, Busy
<1>6. ASSUME NEW ok, NEW next, GoOn(ok, next), result = "busy"
      PROVE  pos' >= pos
  <2>1. IInv'
    BY StepKeepsType DEF Next
  <2>2. PICK q \in Nat : q = pos'
    BY <2>1 DEF IInv, TypeOK
  <2>3. result' # "busy" => pos' = l + 1
    BY <1>3, <1>6 DEF GoOn
  <2>4. result' # "busy" \/ pos' > pos \/ pos' = pos
    BY <1>2 DEF MovesOn
  <2>5. QED
    BY <1>3, <2>2, <2>3, <2>4
<1>7. ASSUME NEW ok, NEW next, GoOn(ok, next), Busy, Tag # 0
      PROVE  pos' > pos /\ pos <= Len(bytes)
  <2>1. PICK end \in Nat : end = TagEnd /\ end <= l + 1 /\ end > p
    BY <1>1, <1>3, <1>7, TagRead
  <2>2. p <= l
    BY <2>1
  <2>3. result' # "busy" => pos' = l + 1
    BY <1>3, <1>7 DEF GoOn, Busy
  <2>4. result' # "busy" \/ pos' > pos
    BY <1>2, <1>7 DEF MovesOn, Busy
  <2>5. QED
    BY <1>3, <2>2, <2>3, <2>4
<1>8. ReadPacked => ~Busy /\ ~EndOfFields
  BY DEF ReadPacked, Busy, EndOfFields
<1>9. Busy => result = "busy"
  BY DEF Busy
<1>10. QED
  BY StepKinds, <1>4, <1>5, <1>6, <1>7, <1>8, <1>9

(* A message has its class's fields and no others.                         *)
LEMMA MessageStaysFcn ==
    ASSUME IInv, MergeStep, MessageIsFcn PROVE MessageIsFcn'
<1>1. input' = input
  BY StepKinds
<1>2. schema' = schema
  BY <1>1 DEF schema
<1>3. ASSUME NEW n, NEW e, message' = [message EXCEPT ![n] = e] PROVE MessageIsFcn'
  BY <1>2, <1>3 DEF MessageIsFcn
<1>4. CASE message' = message
  BY <1>2, <1>4 DEF MessageIsFcn
<1>5. message' = message \/ \E n, e : message' = [message EXCEPT ![n] = e]
  <2>1. ASSUME NEW n, NEW v, Add(n, v)
        PROVE  message' = message \/ \E e : message' = [message EXCEPT ![n] = e]
    <3>1. [message EXCEPT ![n].value = Append(@, Int32(v.value))]
            = [message EXCEPT ![n] = [message[n] EXCEPT !.value = Append(@, Int32(v.value))]]
      OBVIOUS
    <3>2. QED
      BY <2>1, <3>1 DEF Add
  <2>2. QED
    BY <2>1 DEF MergeStep, ReadPrimitive, ReadString, ReadRepeated, BeginPacked, ReadPacked,
         EndPacked, EndOfFields, SkipVarint, SkipFixed, SkipDelimited, StartGroup, EndGroup,
         NoWireType, SetValue
<1>6. QED
  BY <1>3, <1>4, <1>5

-----------------------------------------------------------------------------
(* The invariant: up to what was received, the parse reads on in the places*)
(* of the fields; and at the end of a whole message it has all of them.    *)
HeadRight ==
    OwnFields /\ pos <= received + 1 =>
      /\ result # "busy" => PartsRight
      /\ result = "busy" =>
           /\ groups = <<>> /\ packed = NotPacked
           /\ \E at : Placed(at) /\ \E n : Reading(at, n)

WholeRight ==
    OwnFields /\ input.source = "whole" /\ result # "busy" =>
      result = "true" /\ message = sent

SentInv == IInv /\ MessageIsFcn /\ InputOK /\ HeadRight /\ WholeRight

(* While the parse reads on, its place says what it has read.              *)
LEMMA HeadMeans ==
    ASSUME SentInv, OwnFields, pos <= received + 1 PROVE PartsRight
<1>1. SentOK
  BY DEF SentInv, InputOK, SentOK, IInv, TypeOK
<1>2. CASE result = "busy"
  <2>1. PICK at, n : Reading(at, n)
    BY <1>2 DEF SentInv, HeadRight
  <2>2. QED
    BY <1>1, <2>1, ReadingIsPart
<1>3. QED
  BY <1>2 DEF SentInv, HeadRight

LEMMA InitSent == Init => SentInv
<1> SUFFICES ASSUME Init PROVE SentInv
  OBVIOUS
<1>1. IInv /\ InputOK
  BY InitType, InitPlaced
<1>2. /\ pos = 1 /\ message = Cleared(schema) /\ groups = <<>> /\ packed = NotPacked
      /\ result = "busy"
  BY DEF Init
<1>3. DOMAIN schema = 1..Len(schema) /\ Len(schema) \in Nat
  BY <1>1, TypesOf DEF IInv
<1>4. MessageIsFcn /\ \A n \in DOMAIN schema : message[n] = Blank(n)
  BY <1>2 DEF MessageIsFcn, Cleared, Blank
<1>5. ASSUME OwnFields PROVE \E at : Placed(at) /\ \E n : Reading(at, n)
  <2>1. SentOK
    BY <1>1, <1>5 DEF InputOK, SentOK, IInv, TypeOK
  <2>2. PICK at : Placed(at)
    BY <1>1, <1>5 DEF InputOK
  <2>3. 1 \in DOMAIN schema /\ Len(schema) # 0 /\ 1 \in 1..(Len(schema) + 1)
    BY <1>3, <2>1, SentMeans
  <2>4. at[1] = 0
    BY <2>2 DEF Placed
  <2>5. Around(1)
    <3>1. \A k \in DOMAIN schema : ~(k < 1)
      BY <1>3
    <3>2. QED
      BY <1>4, <3>1 DEF Around
  <2>6. Before(at, 1)
    BY <1>2, <1>4, <2>3, <2>4 DEF Before
  <2>7. Reading(at, 1)
    BY <1>3, <2>3, <2>5, <2>6 DEF Reading
  <2>8. QED
    BY <2>2, <2>7
<1>6. HeadRight /\ WholeRight
  BY <1>2, <1>5 DEF HeadRight, WholeRight
<1>7. QED
  BY <1>1, <1>4, <1>6 DEF SentInv

(* At the end of a message that came whole, all of it is there.            *)
LEMMA EndOfWhole ==
    ASSUME SentInv, Busy, OwnFields, input.source = "whole", pos = received + 1
    PROVE  message = sent /\ IsInitialized(schema, message) /\ groups = <<>>
<1>1. SentOK /\ pos \in Nat \ {0} /\ received \in Nat
  BY TypesOf DEF SentInv, InputOK, SentOK, IInv, TypeOK, Placed
<1>2. PICK at : Placed(at) /\ \E n : Reading(at, n)
  BY <1>1 DEF SentInv, HeadRight, Busy
<1>3. PICK first : Reading(at, first)
  BY <1>2
<1>4. received = at[Len(schema) + 1]
  BY <1>2 DEF Placed
<1>5. \A n \in DOMAIN schema : ~Upcoming(at, n)
  <2> TAKE n \in DOMAIN schema
  <2>1. Upcoming(at, n) => pos <= received
    BY <1>1, <1>2, <1>4, UpcomingIsAhead
  <2>2. QED
    BY <1>1, <2>1
<1>6. Reading(at, Len(schema) + 1)
  BY <1>1, <1>2, <1>3, <1>5, Furthest
<1>7. \A n \in DOMAIN schema : message[n] = sent[n]
  <2>1. \A n \in DOMAIN schema : n < Len(schema) + 1
    BY <1>1, SentMeans
  <2>2. QED
    BY <1>6, <2>1 DEF Reading, Around
<1>8. sent = [n \in DOMAIN schema |-> sent[n]]
  BY <1>1, SentMeans, MessagesType DEF SentOK
<1>9. message = [n \in DOMAIN schema |-> message[n]]
  BY DEF SentInv, MessageIsFcn
<1>10. message = sent
  BY <1>7, <1>8, <1>9
<1>11. ASSUME NEW n \in DOMAIN schema, schema[n].rule = "required" PROVE message[n].has
  <2>1. sent[n] \in PlacesOf(schema[n])
    BY <1>1, SentMeans, MessagesType DEF SentOK
  <2>2. \A values : sent[n] \in [has : {TRUE}, value : values] => sent[n].has
    OBVIOUS
  <2>3. \E values : sent[n] \in [has : {TRUE}, value : values]
    BY <1>11, <2>1 DEF PlacesOf
  <2>4. QED
    BY <1>7, <2>2, <2>3
<1>12. IsInitialized(schema, message)
  BY <1>11 DEF IsInitialized
<1>13. groups = <<>>
  BY <1>1 DEF SentInv, HeadRight, Busy
<1>14. QED
  BY <1>10, <1>12, <1>13

LEMMA StepSent == SentInv /\ [Next]_vars => SentInv'
<1> SUFFICES ASSUME SentInv, [Next]_vars PROVE SentInv'
  OBVIOUS
<1>1. CASE UNCHANGED vars
  <2>1. /\ input' = input /\ pos' = pos /\ message' = message /\ groups' = groups
        /\ packed' = packed /\ result' = result
    BY <1>1 DEF vars
  <2>2. /\ schema' = schema /\ sent' = sent /\ received' = received /\ OwnFields' = OwnFields
        /\ \A n : Blank(n)' = Blank(n)
    BY <2>1, SameInput
  <2>3. IInv' /\ MessageIsFcn' /\ InputOK' /\ WholeRight'
    BY <2>1, <2>2, StepKeepsType, SamePlaces DEF SentInv, MessageIsFcn, InputOK, WholeRight
  <2>4. ASSUME NEW at, NEW n, Reading(at, n) PROVE Reading(at, n)'
    <3>1. Around(n)' /\ (Before(at, n) => Before(at, n)')
      BY <2>1, <2>2, <2>4 DEF Reading, Around, Before
    <3>2. ASSUME NEW to, NEW i, Amid(at, n, to, i) PROVE Amid(at, n, to, i)'
      <4>1. ListPlaced(n, at, to)'
        BY <2>1, <3>2, SamePlaces DEF Amid
      <4>2. QED
        BY <2>1, <2>2, <3>2, <4>1 DEF Amid
    <3>3. QED
      BY <2>1, <2>2, <2>4, <3>1, <3>2 DEF Reading
  <2>5. \A at : Placed(at) => Placed(at)'
    BY <2>1, SamePlaces
  <2>6. PartsRight => PartsRight'
    BY <2>1, <2>2 DEF PartsRight
  <2>7. HeadRight'
    BY <2>1, <2>2, <2>4, <2>5, <2>6 DEF SentInv, HeadRight
  <2>8. QED
    BY <2>3, <2>7 DEF SentInv
<1>2. CASE MergeStep
  <2>1. IInv' /\ MessageIsFcn' /\ input' = input /\ result = "busy"
    BY <1>2, StepKeepsType, MessageStaysFcn, StepKinds DEF SentInv
  <2>2. /\ schema' = schema /\ bytes' = bytes /\ sent' = sent /\ received' = received
        /\ OwnFields' = OwnFields
    BY <2>1, SameInput
  <2>3. InputOK'
    BY <2>1, <2>2, SamePlaces DEF SentInv, InputOK
  <2>4. PICK l \in Nat, p \in Nat, q \in Nat :
          /\ l = Len(bytes) /\ p = pos /\ q = pos' /\ p <= l + 1 /\ q <= l + 1
          /\ p >= 1
    <3>1. pos \in 1..(Len(bytes) + 1) /\ Len(bytes) \in Nat
      BY TypesOf DEF SentInv, IInv
    <3>2. pos' \in 1..(Len(bytes) + 1)
      BY <2>1, <2>2 DEF IInv, TypeOK
    <3>3. QED
      BY <3>1, <3>2
  <2>5. /\ q >= p
        /\ Busy => EndOfFields \/ (q > p /\ p <= l)
    BY <1>2, <2>4, NeverBack DEF SentInv
  <2>6. CASE ~OwnFields
    BY <2>1, <2>2, <2>3, <2>6 DEF SentInv, HeadRight, WholeRight
  <2>7. CASE OwnFields
    <3>1. SentOK
      BY <2>7 DEF SentInv, InputOK, SentOK, IInv, TypeOK
    <3>2. PICK r \in Nat : r = received /\ r <= l
      BY <2>4, <2>7 DEF SentInv, InputOK, Placed
    <3>3. input.source = "whole" => r = l
      BY <2>4, <2>7, <3>2 DEF SentInv, InputOK, Placed
    <3>4. CASE p > r + 1
      <4>1. ~(input.source = "whole") /\ ~(q <= r + 1)
        BY <2>4, <2>5, <3>3, <3>4
      <4>2. QED
        BY <2>1, <2>2, <2>3, <2>4, <3>2, <4>1 DEF SentInv, HeadRight, WholeRight
    <3>5. CASE p = r + 1
      <4>1. PartsRight /\ Busy
        BY <2>1, <2>4, <2>7, <3>2, <3>5, HeadMeans DEF SentInv, HeadRight, Busy
      <4>2. CASE EndOfFields
        <5>1. message' = message /\ result' # "busy" /\ pos' = pos
          BY <4>2 DEF EndOfFields
        <5>2. PartsRight'
          BY <2>2, <4>1, <5>1 DEF PartsRight
        <5>3. input.source = "whole" => result' = "true" /\ message' = sent
          BY <2>4, <2>7, <3>2, <3>5, <4>1, <4>2, EndOfWhole DEF EndOfFields
        <5>4. QED
          BY <2>1, <2>2, <2>3, <5>1, <5>2, <5>3 DEF SentInv, HeadRight, WholeRight
      <4>3. CASE q > p /\ p <= l
        <5>1. ~(input.source = "whole") /\ ~(q <= r + 1)
          BY <3>3, <3>5, <4>3
        <5>2. QED
          BY <2>1, <2>2, <2>3, <2>4, <3>2, <5>1 DEF SentInv, HeadRight, WholeRight
      <4>4. QED
        BY <2>5, <4>1, <4>2, <4>3
    <3>6. CASE p <= r
      <4>1. /\ PartsRight /\ Busy /\ groups = <<>> /\ pos <= received
            /\ \E at : Placed(at) /\ \E n : Reading(at, n)
        <5>1. pos <= received + 1 /\ pos <= received
          BY <2>4, <3>2, <3>6
        <5>2. QED
          BY <2>1, <2>7, <5>1, HeadMeans DEF SentInv, HeadRight, Busy
      <4>2. PICK at : Placed(at) /\ \E n : Reading(at, n)
        BY <4>1
      <4>3. PICK last \in Nat : last = at[Len(schema) + 1] /\ r <= last
        <5>1. PICK c \in Nat : c = Len(schema)
          BY <3>1, SentMeans
        <5>2. at \in [1..(c + 1) -> Nat] /\ c + 1 \in 1..(c + 1) /\ received <= at[c + 1]
          BY <4>2, <5>1 DEF Placed
        <5>3. QED
          BY <3>2, <5>1, <5>2
      <4>4. ~Reading(at, Len(schema) + 1)
        <5>1. Reading(at, Len(schema) + 1) => p = 1 + last
          BY <2>4, <4>3 DEF Reading
        <5>2. QED
          BY <3>6, <4>3, <5>1
      <4>5. PICK n \in DOMAIN schema : Upcoming(at, n)
        BY <3>1, <4>2, <4>4, Furthest
      <4>6. /\ UNCHANGED <<input, groups, packed>>
            /\ \/ UNCHANGED result /\ \E m : Reading(at, m)'
               \/ last > received /\ (pos' > received + 1 \/ (result' # "busy" /\ PartsRight'))
        BY <1>2, <3>1, <4>1, <4>2, <4>3, <4>5, UpcomingStep DEF Next, SentInv
      <4>7. input.source = "whole" => ~(last > received)
        <5>1. input.source = "whole" => last = received
          BY <4>2, <4>3 DEF Placed
        <5>2. QED
          BY <3>2, <5>1
      <4>8. Placed(at)'
        BY <2>1, <4>2, SamePlaces
      <4>9. CASE UNCHANGED result /\ \E m : Reading(at, m)'
        <5>1. packed' = NotPacked /\ groups' = <<>> /\ result' = "busy"
          BY <2>1, <4>1, <4>6, <4>9 DEF Busy
        <5>2. HeadRight'
          BY <4>8, <4>9, <5>1 DEF HeadRight
        <5>3. QED
          BY <2>1, <2>3, <5>1, <5>2 DEF SentInv, WholeRight
      <4>10. CASE last > received /\ (pos' > received + 1 \/ (result' # "busy" /\ PartsRight'))
        <5>1. ~(input.source = "whole") /\ (pos' > received + 1 => ~(pos' <= received + 1))
          BY <2>4, <3>2, <4>7, <4>10
        <5>2. QED
          BY <2>1, <2>2, <2>3, <4>10, <5>1 DEF SentInv, HeadRight, WholeRight
      <4>11. QED
        BY <4>6, <4>9, <4>10
    <3>7. p > r + 1 \/ p = r + 1 \/ p <= r
      OBVIOUS
    <3>8. QED
      BY <3>4, <3>5, <3>6, <3>7
  <2>8. QED
    BY <2>6, <2>7
<1>3. QED
  BY <1>1, <1>2 DEF Next, Returned

LEMMA AlwaysSent == Spec => []SentInv
BY InitSent, StepSent, PTL DEF Spec

(* Cut a message of any class with any values anywhere, and leave any bytes*)
(* behind the cut: while the parse is inside of what was received, no field*)
(* has a value that was not sent.  What a handler sees of a short receive  *)
(* (ParseFromCodedStream on recv_buffer) is wrong only by what the parse took*)
(* from behind it.                                                         *)
THEOREM ReceivedIsRight == Spec => []ReceivedPartIsRight
<1>1. SentInv => ReceivedPartIsRight
  BY HeadMeans DEF OwnFields, PartsRight, ReceivedPartIsRight, sent, received
<1> QED
  BY <1>1, AlwaysSent, PTL

(* A message of any class with any values, negative numbers included, that *)
(* the senders wrote by SerializeToArray and that arrives whole, is what   *)
(* ParseFromCodedStream gives back, and it returns true.  Both sides have the*)
(* same Protocols.proto: there are no fields of newer classes.             *)
THEOREM MessagesSurvive ==
    ASSUME Unknowns = {} PROVE Spec => []RoundTrip
<1>1. SentInv => RoundTrip
  BY DEF SentInv, WholeRight, OwnFields, RoundTrip, sent
<1> QED
  BY <1>1, AlwaysSent, PTL

-----------------------------------------------------------------------------
(* The size that is allocated is the size that is written.                 *)
(* Sizes add up to where the last text ends.                               *)
LEMMA TotalIs ==
    ASSUME NEW sizes, NEW c \in Nat, Len(sizes) = c, NEW at \in [1..(c + 1) -> Nat], at[1] = 0,
           \A n \in 1..c : at[n + 1] = at[n] + sizes[n]
    PROVE  Total(sizes) = at[c + 1]
<1> DEFINE All(f) == f = [n \in 0..c |-> IF n = 0 THEN 0 ELSE f[n - 1] + sizes[n]]
           upTo == CHOOSE f : All(f)
           sums == [n \in 0..c |-> at[n + 1]]
           Right == {n \in Nat : n <= c => upTo[n] = at[n + 1]}
<1>1. All(sums)
  <2>1. ASSUME NEW n \in 0..c
        PROVE  at[n + 1] = IF n = 0 THEN 0 ELSE sums[n - 1] + sizes[n]
    <3>1. CASE n = 0
      BY <3>1
    <3>2. CASE n # 0
      <4>1. n \in 1..c /\ n - 1 \in 0..c /\ (n - 1) + 1 = n
        BY <3>2
      <4>2. sums[n - 1] = at[n]
        BY <4>1
      <4>3. QED
        BY <3>2, <4>1, <4>2
    <3>3. QED
      BY <3>1, <3>2
  <2>2. sums = [n \in 0..c |-> IF n = 0 THEN 0 ELSE sums[n - 1] + sizes[n]]
    BY <2>1
  <2>3. QED
    BY <2>2
<1>2. All(upTo)
  <2> HIDE DEF All
  <2>1. QED
    BY <1>1
<1>3. Total(sizes) = upTo[c]
  BY DEF Total
<1> HIDE DEF upTo
<1>4. 0 \in Right
  BY <1>2
<1>5. \A n \in Nat : n \in Right => n + 1 \in Right
  <2> SUFFICES ASSUME NEW n \in Nat, n \in Right, n + 1 <= c PROVE upTo[n + 1] = at[(n + 1) + 1]
    OBVIOUS
  <2>1. n + 1 \in 0..c /\ n + 1 # 0 /\ n + 1 \in 1..c /\ (n + 1) - 1 = n /\ n <= c
    OBVIOUS
  <2>2. upTo[n] = at[n + 1]
    BY <2>1
  <2>3. upTo[n + 1] = upTo[n] + sizes[n + 1]
    BY <1>2, <2>1
  <2>4. QED
    BY <2>1, <2>2, <2>3
<1>6. Nat \subseteq Right
  <2> HIDE DEF Right
  <2>1. QED
    BY <1>4, <1>5, CountsThrough
<1>7. c \in Right
  <2> HIDE DEF Right
  <2>1. QED
    BY <1>6
<1>8. QED
  BY <1>3, <1>7

(* So the sizes of texts add up to the size of the text they make.         *)
LEMMA SizesAddUp ==
    ASSUME NEW parts \in Seq(Seq(0..255)), NEW sizes, NEW c \in Nat,
           Len(parts) = c, Len(sizes) = c, \A n \in 1..c : sizes[n] = Len(parts[n])
    PROVE  Total(sizes) = Len(FlattenSeq(parts))
<1>1. PICK at : LaidOut(FlattenSeq(parts), parts, at)
  BY FlattenLayout
<1>2. /\ at \in [1..(c + 1) -> Nat] /\ at[1] = 0
      /\ at[c + 1] = Len(FlattenSeq(parts))
      /\ \A n \in 1..c : at[n + 1] = at[n] + Len(parts[n])
  BY <1>1, Zenon DEF LaidOut, Starts
<1>3. \A n \in 1..c : at[n + 1] = at[n] + sizes[n]
  BY <1>2, Zenon
<1>4. Total(sizes) = at[c + 1]
  BY <1>2, <1>3, TotalIs, Zenon
<1>5. QED
  BY <1>2, <1>4, Zenon

(* The number of bytes of a varint is the first one that is enough.        *)
LEMMA VarintLengthIs ==
    ASSUME NEW v \in Nat, v < Wide, NEW n \in 1..MaxVarintBytes, v < 2^(7 * n),
           \A k \in 1..MaxVarintBytes : k < n => ~(v < 2^(7 * k))
    PROVE  Len(Varint(v)) = n
<1> DEFINE Enough == {k \in 1..MaxVarintBytes : v < 2^(7 * k)}
<1>1. n \in Enough /\ Enough \subseteq Nat /\ Enough # {}
  OBVIOUS
<1>2. VarintLength(v) \in Enough /\ \A k \in Enough : VarintLength(v) <= k
  BY <1>1, MinIsLeast DEF VarintLength
<1>3. PICK l \in 1..MaxVarintBytes : l = VarintLength(v) /\ v < 2^(7 * l) /\ l <= n
  BY <1>1, <1>2
<1>4. l = n
  BY <1>3
<1>5. DOMAIN Varint(v) = 1..n
  BY <1>3, <1>4 DEF Varint
<1>6. Varint(v) \in Seq(0..255) /\ n \in Nat
  BY VarintType
<1>7. DOMAIN Varint(v) = 1..Len(Varint(v)) /\ Len(Varint(v)) \in Nat
  BY <1>6
<1>8. \A x, y \in Nat : 1..x = 1..y => x = y
  OBVIOUS
<1>9. QED
  BY <1>5, <1>6, <1>7, <1>8

(* The greatest of some naturals, by what is missing to a bound.           *)
LEMMA MaxIsGreatest ==
    ASSUME NEW T, T \subseteq Nat, NEW b \in Nat, \A x \in T : x <= b, T # {}
    PROVE  Max(T) \in T /\ \A y \in T : y <= Max(T)
<1> DEFINE Gaps == {b - x : x \in T}
<1>1. Gaps \subseteq Nat /\ Gaps # {}
  <2>1. \A x \in T : x \in Nat /\ x <= b
    OBVIOUS
  <2>2. \A x \in Nat : x <= b => b - x \in Nat
    OBVIOUS
  <2>3. \A x \in T : b - x \in Nat
    BY <2>1, <2>2, Zenon
  <2>4. QED
    BY <2>3
<1>2. PICK g \in Gaps : \A h \in Gaps : g <= h
  BY <1>1, LeastExists
<1>3. PICK x \in T : g = b - x
  BY <1>2
<1>4. \A y \in T : y <= x
  <2> TAKE y \in T
  <2>1. b - y \in Gaps
    OBVIOUS
  <2>2. g <= b - y
    BY <1>2, <2>1
  <2>3. x \in Nat /\ y \in Nat
    OBVIOUS
  <2>4. QED
    BY <1>3, <2>2, <2>3
<1>5. \E m \in T : \A y \in T : m >= y
  <2>1. \A y \in T : x >= y
    <3> TAKE y \in T
    <3>1. x \in Nat /\ y \in Nat /\ y <= x
      BY <1>4
    <3>2. QED
      BY <3>1
  <2>2. QED
    BY <2>1
<1>6. Max(T) \in T /\ \A y \in T : Max(T) >= y
  BY <1>5 DEF Max
<1>7. QED
  <2> SUFFICES ASSUME NEW y \in T PROVE y <= Max(T)
    BY <1>6
  <2>1. Max(T) \in Nat /\ y \in Nat /\ Max(T) >= y
    BY <1>6
  <2>2. QED
    BY <2>1

(* A number has its highest bit where Log2Floor finds it.                  *)
LEMMA HighestBit ==
    ASSUME NEW v \in Nat \ {0}, v < Narrow
    PROVE  \E l \in 0..(IntBits - 1) : l = Log2Floor(v) /\ 2^l <= v /\ v < 2^(l + 1)
<1>1. PICK b \in Nat : b = IntBits - 1 /\ IntBits = b + 1
  BY WidthAssumption
<1> DEFINE Bits == {n \in 0..b : 2^n <= v}
<1>2. Bits \subseteq Nat /\ \A n \in Bits : n <= b
  OBVIOUS
<1>3. 0 \in Bits
  <2>1. 2^0 = 1
    OBVIOUS
  <2>2. QED
    BY <2>1
<1>4. Max(Bits) \in Bits /\ \A n \in Bits : n <= Max(Bits)
  <2> HIDE DEF Bits
  <2>1. QED
    BY <1>2, <1>3, MaxIsGreatest
<1>5. PICK l \in 0..b : l = Log2Floor(v) /\ 2^l <= v /\ \A n \in Bits : n <= l
  BY <1>1, <1>4 DEF Log2Floor
<1>6. v < 2^(l + 1)
  <2>1. CASE l = b
    BY <1>1, <2>1 DEF Narrow
  <2>2. CASE l # b
    <3>1. l + 1 \in 0..b /\ ~(l + 1 <= l) /\ l + 1 \in Nat
      BY <2>2
    <3>2. ~(2^(l + 1) <= v)
      BY <1>5, <3>1
    <3>3. 2^(l + 1) \in Nat
      BY <3>1, PowerOfTwo
    <3>4. QED
      BY <3>2, <3>3
  <2>3. QED
    BY <2>1, <2>2
<1>7. QED
  BY <1>1, <1>5, <1>6

(* Nine and seventy-three sixty-fourths: a multiplication for a division.  *)
LEMMA SizeByBits ==
    ASSUME NEW l \in 0..63 PROVE (l * 9 + 73) \div 64 = (l \div 7) + 1
OBVIOUS

(* VarintSize32 counts what the varint takes.                              *)
LEMMA VarintSizeIs ==
    ASSUME IntBits <= 64, NEW v \in Nat, v < Narrow
    PROVE  VarintSize32(v) = Len(Varint(v))
<1>1. PICK w \in Nat, m \in Nat, b \in Nat :
        w = WideBits /\ m = MaxVarintBytes /\ b = IntBits /\ b <= w /\ w <= 7 * m /\ b <= 64
        /\ 7 <= b
  BY WidthAssumption
<1>2. v < Wide
  <2>1. Narrow <= Wide /\ Wide \in Nat /\ Narrow \in Nat
    BY WidthAssumption, PowersGrow, Widths DEF Narrow, Wide
  <2>2. QED
    BY <2>1
<1>3. CASE v < More
  <2>1. v < 2^(7 * 1) /\ 1 \in 1..MaxVarintBytes
    <3>1. 7 * 1 = 7 /\ 2^7 = 128
      OBVIOUS
    <3>2. QED
      BY <1>1, <1>3, <3>1 DEF More
  <2>2. \A k \in 1..MaxVarintBytes : ~(k < 1)
    BY <1>1
  <2>3. Len(Varint(v)) = 1
    BY <1>2, <2>1, <2>2, VarintLengthIs
  <2>4. QED
    BY <1>3, <2>3 DEF VarintSize32
<1>4. CASE ~(v < More)
  <2>1. v # 0
    BY <1>4 DEF More
  <2>2. PICK l \in 0..(b - 1) : l = Log2Floor(v) /\ 2^l <= v /\ v < 2^(l + 1)
    BY <1>1, <2>1, HighestBit
  <2>3. PICK q \in Nat, r \in 0..6 : q = l \div 7 /\ l = 7 * q + r
    <3>1. \A x \in Nat :
            /\ x = 7 * (x \div 7) + (x % 7) /\ x \div 7 \in Nat
            /\ x % 7 \in 0..6
      OBVIOUS
    <3>2. l \in Nat
      OBVIOUS
    <3>3. QED
      BY <3>1, <3>2
  <2>4. VarintSize32(v) = q + 1
    <3>1. l \in 0..63
      BY <1>1
    <3>2. QED
      BY <1>4, <2>2, <2>3, <3>1, SizeByBits DEF VarintSize32
  <2>5. q + 1 \in 1..m /\ l + 1 <= 7 * (q + 1)
    BY <1>1, <2>3
  <2>6. v < 2^(7 * (q + 1))
    <3>1. PICK x \in Nat, y \in Nat : x = 2^(l + 1) /\ y = 2^(7 * (q + 1)) /\ x <= y
      <4>1. l + 1 \in Nat /\ 7 * (q + 1) \in Nat
        OBVIOUS
      <4>2. QED
        BY <2>5, <4>1, PowerOfTwo, PowersGrow
    <3>2. QED
      BY <2>2, <3>1
  <2>7. ASSUME NEW k \in 1..m, k < q + 1 PROVE ~(v < 2^(7 * k))
    <3>1. 7 * k <= l /\ 7 * k \in Nat /\ l \in Nat
      BY <2>3, <2>7
    <3>2. PICK x \in Nat, y \in Nat : x = 2^(7 * k) /\ y = 2^l /\ x <= y
      BY <3>1, PowerOfTwo, PowersGrow
    <3>3. QED
      BY <2>2, <3>2
  <2>8. Len(Varint(v)) = q + 1
    BY <1>1, <1>2, <2>5, <2>6, <2>7, VarintLengthIs
  <2>9. QED
    BY <2>4, <2>8
<1>5. QED
  BY <1>3, <1>4

(* A negative number takes all bytes there are.                            *)
LEMMA Int32SizeIs ==
    ASSUME IntBits <= 64, NEW n \in 1..4, NEW i \in Int32s
    PROVE  /\ Len(WriteInt32(n, i)) = 1 + Int32Size(i)
           /\ Int32Size(i) \in Nat
<1>1. PICK half \in Nat \ {0} : Narrow = half + half /\ Narrow \div 2 = half
  BY Widths
<1>2. i \in -half..(half - 1)
  BY <1>1 DEF Int32s
<1>3. PICK raw \in Nat, length \in Nat \ {0} :
        /\ raw = SignExtended(i) /\ raw < Wide /\ length = Len(Varint(raw))
        /\ Len(WriteInt32(n, i)) = 1 + length
  BY Int32Text
<1>4. CASE i >= 0
  <2>1. raw = i /\ i \in Nat /\ i < Narrow
    BY <1>1, <1>2, <1>3, <1>4 DEF SignExtended
  <2>2. Int32Size(i) = length
    BY <1>3, <1>4, <2>1, VarintSizeIs DEF Int32Size
  <2>3. QED
    BY <1>3, <2>2
<1>5. CASE i < 0
  <2>1. PICK w \in Nat, m \in Nat : w = WideBits - 1 /\ WideBits = w + 1 /\ m = MaxVarintBytes
                                  /\ 7 * (m - 1) < w + 1 /\ IntBits <= w + 1 /\ m >= 1
    BY WidthAssumption
  <2>2. PICK top \in Nat : top = 2^w /\ Wide = top + top
    BY <2>1, PowerOfTwo, Doubling DEF Wide
  <2>3. Narrow <= Wide
    BY <2>1, WidthAssumption, PowersGrow DEF Narrow, Wide
  <2>4. raw >= top
    BY <1>1, <1>2, <1>3, <1>5, <2>2, <2>3 DEF SignExtended
  <2>5. raw < 2^(7 * m)
    <3>1. Wide <= 2^(7 * m) /\ 2^(7 * m) \in Nat
      <4>1. WideBits \in Nat /\ 7 * m \in Nat /\ WideBits <= 7 * m
        BY <2>1, WidthAssumption
      <4>2. QED
        BY <4>1, PowerOfTwo, PowersGrow DEF Wide
    <3>2. Wide \in Nat
      BY <2>2
    <3>3. QED
      BY <1>3, <3>1, <3>2
  <2>6. ASSUME NEW k \in 1..m, k < m PROVE ~(raw < 2^(7 * k))
    <3>1. 7 * k <= w /\ 7 * k \in Nat
      BY <2>1, <2>6
    <3>2. PICK x \in Nat : x = 2^(7 * k) /\ x <= top
      BY <2>1, <2>2, <3>1, PowerOfTwo, PowersGrow
    <3>3. QED
      BY <2>4, <3>2
  <2>7. length = m
    <3>1. m \in 1..m
      BY <2>1
    <3>2. QED
      BY <1>3, <2>1, <2>5, <2>6, <3>1, VarintLengthIs
  <2>8. Int32Size(i) = m
    BY <1>5, <2>1 DEF Int32Size
  <2>9. QED
    BY <1>3, <2>7, <2>8
<1>6. QED
  BY <1>2, <1>4, <1>5

(* What is written for a field, and what is counted for it.                *)
LEMMA FieldSizeIs ==
    ASSUME IntBits <= 64, NEW class \in Seq(Fields), NEW n \in 1..4, n \in DOMAIN class,
           NEW p \in PlacesOf(class[n])
    PROVE  FieldSize(class, n, p) = Len(WriteField(class, n, p))
<1>1. class[n] \in Fields
  BY ElementOfSeq
<1>2. PICK half \in Nat \ {0} : Narrow = half + half /\ Narrow \div 2 = half
  BY Widths
<1>3. CASE class[n].rule = "repeated"
  <2>1. PICK list \in Seq(Int32s) : list = p.value
    BY <1>1, <1>3, PlaceKinds, ParserAssumption
  <2>2. PICK c \in Nat : c = Len(list) /\ DOMAIN list = 1..c
    OBVIOUS
  <2> DEFINE parts == [i \in DOMAIN list |-> WriteInt32(n, list[i])]
             sizes == [i \in DOMAIN list |-> 1 + Int32Size(list[i])]
  <2>3. \A i \in 1..c : /\ WriteInt32(n, list[i]) \in Seq(0..255)
                        /\ 1 + Int32Size(list[i]) = Len(WriteInt32(n, list[i]))
                        /\ 1 + Int32Size(list[i]) \in Nat
    <3> TAKE i \in 1..c
    <3>1. list[i] \in Int32s
      BY <2>2, ElementOfSeq
    <3>2. Len(WriteInt32(n, list[i])) = 1 + Int32Size(list[i]) /\ Int32Size(list[i]) \in Nat
      BY <3>1, Int32SizeIs
    <3>3. WriteInt32(n, list[i]) \in Seq(0..255)
      BY <3>1, WriteInt32Type
    <3>4. 1 + Int32Size(list[i]) \in Nat
      BY <3>2
    <3>5. QED
      BY <3>2, <3>3, <3>4
  <2>4. parts \in [1..c -> Seq(0..255)] /\ sizes \in [1..c -> Nat]
    BY <2>2, <2>3
  <2>5. parts \in Seq(Seq(0..255)) /\ Len(parts) = c /\ Len(sizes) = c
    <3> HIDE DEF parts, sizes
    <3>1. QED
      BY <2>4, FunctionIsSeq
  <2>6. \A i \in 1..c : sizes[i] = Len(parts[i])
    BY <2>2, <2>3
  <2>7. Total(sizes) = Len(FlattenSeq(parts))
    <3> HIDE DEF parts, sizes
    <3>1. QED
      BY <2>2, <2>5, <2>6, SizesAddUp, Zenon
  <2>8. QED
    BY <1>3, <2>1, <2>7 DEF FieldSize, WriteField
<1>4. CASE class[n].rule # "repeated" /\ ~p.has
  <2>1. Len(<<>>) = 0
    OBVIOUS
  <2>2. QED
    BY <1>4, <2>1 DEF FieldSize, WriteField
<1>5. CASE class[n].rule # "repeated" /\ p.has /\ class[n].type = "int32"
  <2>1. p.value \in Int32s
    <3>1. 0 \in Int32s
      BY <1>2 DEF Int32s
    <3>2. QED
      BY <1>1, <1>5, <3>1, PlaceKinds, ParserAssumption
  <2>2. /\ WriteField(class, n, p) = WriteInt32(n, p.value)
        /\ FieldSize(class, n, p) = 1 + Int32Size(p.value)
    BY <1>5 DEF WriteField, FieldSize
  <2>3. QED
    BY <2>1, <2>2, Int32SizeIs
<1>6. CASE class[n].rule # "repeated" /\ p.has /\ class[n].type = "bool"
  <2>1. /\ WriteField(class, n, p) = <<MakeTag(n, VARINT), IF p.value THEN 1 ELSE 0>>
        /\ FieldSize(class, n, p) = 1 + 1
    BY <1>6 DEF WriteField, FieldSize
  <2>2. QED
    BY <2>1
<1>7. CASE class[n].rule # "repeated" /\ p.has /\ class[n].type = "string"
  <2>1. p.value \in Texts \union {<<>>}
    BY <1>1, <1>7, PlaceKinds
  <2>2. PICK text \in Seq(0..255) : text = p.value /\ Len(text) < half
    <3>1. CASE p.value \in Texts
      BY <1>2, <3>1, ParserAssumption
    <3>2. CASE p.value = <<>>
      <4>1. <<>> \in Seq(0..255) /\ Len(<<>>) = 0 /\ 0 < half
        BY <1>2, EmptySeq
      <4>2. QED
        BY <3>2, <4>1
    <3>3. QED
      BY <2>1, <3>1, <3>2
  <2>3. PICK size \in Nat : size = Len(text) /\ size < Narrow
    BY <1>2, <2>2
  <2>4. size < Wide
    <3>1. Narrow <= Wide /\ Wide \in Nat /\ Narrow \in Nat
      BY WidthAssumption, PowersGrow, Widths DEF Narrow, Wide
    <3>2. QED
      BY <2>3, <3>1
  <2>5. PICK digits \in Seq(0..255) : digits = Varint(size)
    BY <2>4, VarintType
  <2>6. VarintSize32(size) = Len(digits)
    BY <2>3, <2>5, VarintSizeIs
  <2>7. PICK tag : tag = MakeTag(n, LENGTH_DELIMITED)
    OBVIOUS
  <2>8. /\ WriteField(class, n, p) = <<tag>> \o digits \o text
        /\ FieldSize(class, n, p) = 1 + Len(digits) + size
    BY <1>7, <2>2, <2>3, <2>5, <2>6, <2>7 DEF WriteField, FieldSize
  <2>9. tag \in 0..255
    BY <2>7 DEF MakeTag, LENGTH_DELIMITED
  <2>10. Len(<<tag>> \o digits \o text) = 1 + Len(digits) + Len(text)
    BY <2>9
  <2>11. QED
    BY <2>3, <2>8, <2>10
<1>8. class[n].rule # "repeated" => p.has \in BOOLEAN
  BY <1>1, PlaceKinds
<1>9. class[n].type \in {"int32", "string", "bool"}
  BY <1>1 DEF Fields
<1>10. QED
  BY <1>3, <1>4, <1>5, <1>6, <1>7, <1>8, <1>9

(* Fields, and so messages, have the size that is counted.                 *)
LEMMA MessageSizeIs ==
    ASSUME IntBits <= 64, NEW class \in Schemas, NEW m \in MessagesOf(class)
    PROVE  ByteSizeLong(class, m) = Len(SerializeToArray(class, m))
<1>1. PICK c \in 1..4 : c = Len(class)
  BY FewFields, Zenon
<1>2. class \in Seq(Fields) /\ DOMAIN class = 1..c /\ c \in Nat
  BY <1>1, SchemaFields
<1>3. PICK parts \in Seq(Seq(0..255)) : parts = Written(class, m) /\ Len(parts) = c
  BY <1>1, WrittenType
<1> DEFINE sizes == [n \in DOMAIN class |-> FieldSize(class, n, m[n])]
<1>4. \A n \in 1..c : sizes[n] = Len(parts[n]) /\ sizes[n] \in Nat
  <2> TAKE n \in 1..c
  <2>1. n \in 1..4 /\ n \in DOMAIN class /\ m[n] \in PlacesOf(class[n])
    BY <1>2, MessagesType
  <2>2. parts[n] = WriteField(class, n, m[n])
    BY <1>3, <2>1 DEF Written
  <2>3. FieldSize(class, n, m[n]) = Len(WriteField(class, n, m[n]))
    BY <1>2, <2>1, FieldSizeIs
  <2>4. WriteField(class, n, m[n]) \in Seq(0..255)
    BY <1>2, <2>1, WriteFieldType
  <2>5. QED
    BY <2>1, <2>2, <2>3, <2>4, BytesCount
<1>5. sizes \in [1..c -> Nat]
  BY <1>2, <1>4
<1>6. Len(sizes) = c
  <2> HIDE DEF sizes
  <2>1. QED
    BY <1>5, FunctionIsSeq
<1>7. Total(sizes) = Len(FlattenSeq(parts))
  <2> HIDE DEF sizes
  <2>1. QED
    BY <1>2, <1>3, <1>4, <1>6, SizesAddUp
<1>8. QED
  BY <1>3, <1>7 DEF ByteSizeLong, SerializeToArray

(* What was sent stays what it is.                                         *)
SentKnown == input.source # "any" => SentOK

LEMMA InitSentKnown == Init => SentKnown
<1> SUFFICES ASSUME Init, input.source # "any" PROVE SentOK
  BY DEF SentKnown
<1>1. PICK class \in Schemas :
        \/ \E m \in MessagesOf(class) : WholeMessage(class, m)
        \/ \E m \in MessagesOf(class) : CutMessage(class, m)
        \/ AnyBytes(class)
  BY DEF Init
<1>2. ASSUME NEW m \in MessagesOf(class), WholeMessage(class, m) PROVE SentOK
  BY <1>2 DEF WholeMessage, Input, SentOK, schema, sent
<1>3. ASSUME NEW m \in MessagesOf(class), CutMessage(class, m) PROVE SentOK
  BY <1>3 DEF CutMessage, Input, SentOK, schema, sent
<1>4. CASE AnyBytes(class)
  BY <1>4 DEF AnyBytes, Input
<1>5. QED
  BY <1>1, <1>2, <1>3, <1>4

LEMMA AlwaysSentKnown == Spec => []SentKnown
<1>1. SentKnown /\ IInv /\ [Next]_vars => SentKnown'
  <2>1. IInv /\ [Next]_vars => input' = input
    BY StepKinds DEF Next, Returned, vars
  <2>2. QED
    BY <2>1, SameInput DEF SentKnown
<1>2. QED
  BY <1>1, InitSentKnown, Inductive, PTL DEF Spec

(* Of every message of any class the size that ByteSizeLong counts is the  *)
(* number of bytes SerializeToArray writes: the buffer a sender allocates is*)
(* filled and not exceeded, and the header's length is the body's.  For    *)
(* integers of up to 64 bits: the estimate of a varint's size by its highest*)
(* bit ((log2 * 9 + 73) / 64) is wrong for 2^70.                           *)
THEOREM SizeIsRight ==
    ASSUME IntBits <= 64 PROVE Spec => []SizeIsLength
<1>1. SentKnown => SizeIsLength
  BY MessageSizeIs DEF SentKnown, SentOK, SizeIsLength, sent
<1> QED
  BY <1>1, AlwaysSentKnown, PTL
=============================================================================
