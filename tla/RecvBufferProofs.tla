-------------------------- MODULE RecvBufferProofs --------------------------
(***************************************************************************)
(* Theorems about FrameParser and RecvBuffer, for every buffer length,     *)
(* every width of the size field and every set of messages whose bodies an *)
(* int can count, header included: however the stream is cut into reads, a *)
(* pass over a read that begins with a message hands out the messages it   *)
(* contains, then the one it cuts; the first of them, where the server     *)
(* counts the header into header.size.                                     *)
(***************************************************************************)
EXTENDS RecvBuffer, TLAPS, SequenceTheorems

(***************************************************************************)
(* The parser alone.  What a pass hands out lies in the buffer, whatever   *)
(* the buffer holds, however long it is and however wide a size field is.  *)
(***************************************************************************)
Spans == [type : Handled, from : Nat, to : Nat]

(* A size that passes the test leaves the stream inside the buffer.        *)
LEMMA SkipStaysInside ==
    ASSUME TypeOK, HeaderFits, RemainSize >= Signed(Header.size)
    PROVE  /\ SpanOf(Signed(Header.size)) \in Nat
           /\ pos + MessageHeaderSize + SpanOf(Signed(Header.size)) <= BufSize
<1>1. pos + 2 \in 1..BufSize
  BY ParserAssumption DEF TypeOK, HeaderFits, MessageHeaderSize
<1>2. Header.size \in Cells
  BY <1>1 DEF TypeOK, Header
<1>3. Signed(Header.size) \in Int
  BY <1>2, ParserAssumption DEF Signed, Cells
<1>4. QED
  BY <1>3, ParserAssumption
  DEF TypeOK, HeaderFits, RemainSize, SpanOf, MessageHeaderSize

(* What a dispatch adds to the messages handed out: nothing, or the one    *)
(* behind the header at pos.                                               *)
LEMMA HandleAppends ==
    ASSUME TypeOK, DispatchMessage
    PROVE  \/ dispatched' = dispatched
           \/ /\ Header.type \in Handled
              /\ dispatched' = Append(dispatched,
                   [type |-> Header.type, from |-> pos + MessageHeaderSize, to |-> pos'])
BY DEF DispatchMessage, Handle

(* Messages stay apart as long as the stream only moves forward.           *)
LEMMA StayApart ==
    ASSUME TypeOK, PayloadsApart, dispatched' = dispatched,
           pos' \in Nat, pos <= pos'
    PROVE  PayloadsApart'
<1>1. \A i \in 1..Len(dispatched) : dispatched[i].to \in Nat
  <2>1. dispatched \in Seq(Spans)
    BY DEF TypeOK, Spans
  <2>2. \A i \in 1..Len(dispatched) : dispatched[i] \in Spans
    BY <2>1
  <2>3. QED
    BY <2>2 DEF Spans
<1>2. pos \in Nat
  BY ParserAssumption DEF TypeOK
<1>3. \A i \in 1..Len(dispatched) : dispatched[i].to <= pos'
  BY <1>1, <1>2 DEF PayloadsApart
<1>4. QED
  BY <1>3 DEF PayloadsApart

(* A step keeps the stream inside the buffer.                              *)
LEMMA StepKeepsTypes == TypeOK /\ [Next]_parser => TypeOK'
<1> SUFFICES ASSUME TypeOK, [Next]_parser PROVE TypeOK'
  OBVIOUS
<1> USE ParserAssumption
<1>1. CASE NoHeader
  <2>1. BufSize \in 0..BufSize
    OBVIOUS
  <2>2. QED
    BY <1>1, <2>1 DEF NoHeader, TypeOK
<1>2. CASE CutMessage
  <2>1. pos' \in 0..BufSize
    BY <1>2 DEF CutMessage, TypeOK, HeaderFits, MessageHeaderSize
  <2>2. QED
    BY <1>2, <2>1 DEF CutMessage, TypeOK
<1>3. CASE DispatchMessage
  <2>1. /\ pos' \in 0..BufSize
        /\ pos' = pos + MessageHeaderSize + SpanOf(Signed(Header.size))
    BY <1>3, SkipStaysInside DEF DispatchMessage, TypeOK, MessageHeaderSize
  <2>2. dispatched \in Seq(Spans) /\ pos \in Nat
    BY DEF TypeOK, Spans
  <2>3. CASE dispatched' = dispatched
    BY <1>3, <2>1, <2>3 DEF DispatchMessage, TypeOK
  <2>4. CASE dispatched' # dispatched
    <3>1. PICK m \in Spans : dispatched' = Append(dispatched, m)
      BY <1>3, <2>1, <2>2, <2>4, HandleAppends DEF Spans, MessageHeaderSize
    <3>2. dispatched' \in Seq(Spans)
      BY <2>2, <3>1, AppendProperties
    <3>3. QED
      BY <1>3, <2>1, <3>2 DEF DispatchMessage, TypeOK, Spans
  <2>5. QED
    BY <2>3, <2>4
<1>4. CASE Parsed \/ UNCHANGED parser
  BY <1>4 DEF Parsed, parser, TypeOK
<1>5. QED
  BY <1>1, <1>2, <1>3, <1>4 DEF Next, ParseStep

(* A step hands out what lies behind all that the pass has handed out.     *)
LEMMA StepKeepsApart == TypeOK /\ PayloadsApart /\ [Next]_parser => PayloadsApart'
<1> SUFFICES ASSUME TypeOK, PayloadsApart, [Next]_parser PROVE PayloadsApart'
  OBVIOUS
<1> USE ParserAssumption
<1>1. CASE NoHeader
  <2>1. pos' \in Nat /\ pos <= pos' /\ dispatched' = dispatched
    BY <1>1 DEF NoHeader, TypeOK
  <2>2. QED
    BY <2>1, StayApart
<1>2. CASE CutMessage
  <2>1. pos' \in Nat /\ pos <= pos' /\ dispatched' = dispatched
    BY <1>2 DEF CutMessage, TypeOK, MessageHeaderSize
  <2>2. QED
    BY <2>1, StayApart
<1>3. CASE DispatchMessage
  <2>1. /\ pos' \in Nat /\ pos \in Nat /\ pos + 2 <= pos'
        /\ dispatched \in Seq(Spans)
    BY <1>3, SkipStaysInside DEF DispatchMessage, TypeOK, MessageHeaderSize, Spans
  <2>2. CASE dispatched' = dispatched
    BY <2>1, <2>2, StayApart
  <2>3. CASE dispatched' # dispatched
    <3>1. PICK m \in Spans : /\ dispatched' = Append(dispatched, m)
                             /\ m.from = pos + 2 /\ m.to = pos'
      BY <1>3, <2>1, <2>3, HandleAppends DEF Spans, MessageHeaderSize
    <3>2. /\ Len(dispatched') = Len(dispatched) + 1
          /\ \A i \in 1..Len(dispatched) : dispatched'[i] = dispatched[i]
          /\ dispatched'[Len(dispatched) + 1] = m
          /\ Len(dispatched) \in Nat
      BY <2>1, <3>1, AppendProperties
    <3>3. \A i \in 1..Len(dispatched) : dispatched[i] \in Spans
      BY <2>1
    <3>4. \A i \in 1..Len(dispatched) :
             /\ 2 <= dispatched[i].from /\ dispatched[i].from <= dispatched[i].to
             /\ dispatched[i].to <= pos /\ dispatched[i].to \in Nat
      BY <3>3 DEF PayloadsApart, MessageHeaderSize, Spans
    <3>5. \A i \in 1..Len(dispatched') :
             /\ 2 <= dispatched'[i].from /\ dispatched'[i].from <= dispatched'[i].to
             /\ dispatched'[i].to <= pos'
      <4> SUFFICES ASSUME NEW i \in 1..Len(dispatched')
                   PROVE  /\ 2 <= dispatched'[i].from
                          /\ dispatched'[i].from <= dispatched'[i].to
                          /\ dispatched'[i].to <= pos'
        OBVIOUS
      <4>1. CASE i \in 1..Len(dispatched)
        <5>1. dispatched'[i] = dispatched[i]
          BY <3>2, <4>1
        <5>2. QED
          BY <2>1, <3>4, <4>1, <5>1
      <4>2. CASE i = Len(dispatched) + 1
        BY <2>1, <3>1, <3>2, <4>2
      <4>3. QED
        BY <3>2, <4>1, <4>2
    <3>6. \A i, j \in 1..Len(dispatched') :
             i < j => dispatched'[i].to + 2 <= dispatched'[j].from
      <4> SUFFICES ASSUME NEW i \in 1..Len(dispatched'), NEW j \in 1..Len(dispatched'),
                          i < j
                   PROVE  dispatched'[i].to + 2 <= dispatched'[j].from
        OBVIOUS
      <4>1. i \in 1..Len(dispatched) /\ dispatched'[i] = dispatched[i]
        BY <3>2
      <4>2. CASE j \in 1..Len(dispatched)
        <5>1. dispatched'[j] = dispatched[j]
          BY <3>2, <4>2
        <5>2. QED
          BY <4>1, <4>2, <5>1 DEF PayloadsApart, MessageHeaderSize
      <4>3. CASE j = Len(dispatched) + 1
        <5>1. dispatched'[j].from = pos + 2
          BY <3>1, <3>2, <4>3
        <5>2. QED
          BY <2>1, <3>4, <4>1, <5>1
      <4>4. QED
        BY <3>2, <4>2, <4>3
    <3>7. QED
      BY <3>5, <3>6 DEF PayloadsApart, MessageHeaderSize
  <2>4. QED
    BY <2>2, <2>3
<1>4. CASE Parsed \/ UNCHANGED parser
  BY <1>4 DEF Parsed, parser, PayloadsApart
<1>5. QED
  BY <1>1, <1>2, <1>3, <1>4 DEF Next, ParseStep

(* The type invariant: the stream never leaves the buffer.                 *)
THEOREM ParserTypeCorrect == Spec => []TypeOK
<1>1. Init => TypeOK
  BY ParserAssumption DEF Init, Starts, TypeOK
<1>2. QED
  BY <1>1, StepKeepsTypes, PTL DEF Spec

(* No handler is given memory outside the buffer, and no two messages of a *)
(* pass share a byte: the test of the remaining length, which compares a   *)
(* size that may have turned negative, is enough for that.                 *)
THEOREM HandlersStayInside == Spec => []PayloadsApart
<1>1. Init => PayloadsApart
  BY DEF Init, Starts, PayloadsApart
<1>2. QED
  BY <1>1, StepKeepsApart, ParserTypeCorrect, PTL DEF Spec

-----------------------------------------------------------------------------
(***************************************************************************)
(* The parser over the stream.                                             *)
(***************************************************************************)

Spaces == [type : Cells, from : Nat, to : Nat]

BodySize(message) == message.to - message.from - MessageHeaderSize

(* What header.size says.                                                  *)
Claimed(message) == BodySize(message) + Over

(* The types of the stream; and what was read and what is in flight make   *)
(* up what was sent.                                                       *)
StreamTypeOK ==
    /\ TypeOK
    /\ counted \in BOOLEAN /\ stream \in Seq(Cells) /\ eof \in BOOLEAN
    /\ sent \in Seq(Spaces)
    /\ first \in Nat /\ iobyte \in 0..BufSize /\ reads \in 0..MaxReads
    /\ first + iobyte + Len(stream) = StreamEnd

(* The messages lie in the stream one behind the other, without a gap and  *)
(* in the order they were sent.                                            *)
Laid ==
    \A i \in 1..Len(sent) :
      /\ sent[i].from = IF i = 1 THEN 0 ELSE sent[i - 1].to
      /\ sent[i].from + MessageHeaderSize <= sent[i].to
      /\ sent[i].to <= StreamEnd
      /\ 2 * (BodySize(sent[i]) + MessageHeaderSize) < Wrap

Ordered == \A i, j \in 1..Len(sent) : i < j => sent[i].to <= sent[j].from

(* A cell of the last read is in the buffer, and one that is not yet read  *)
(* in flight, at its distance from the reads.                              *)
InPlace(at, cell) ==
    /\ at \in first + 1..first + iobyte => recv_buffer[at - first] = cell
    /\ at > first + iobyte => stream[at - (first + iobyte)] = cell

(* So are the headers of the messages sent.                                *)
HeadersInPlace ==
    \A i \in 1..Len(sent) :
      /\ InPlace(sent[i].from + 1, sent[i].type)
      /\ InPlace(sent[i].from + 2, Claimed(sent[i]))

(* A pass over a read that begins with a message is on track as long as it *)
(* has not passed the end of the read nor, where the server counts the     *)
(* header in, a message.  It then stands at a boundary and has handed out  *)
(* what lies before it, ...                                                *)
OnTrack == pos <= iobyte /\ (counted => pos = 0)

InStep == parsing /\ Aligned /\ OnTrack => first + pos \in Boundaries

Passed ==
    {i \in 1..Len(sent) : /\ Met(sent[i]) /\ End(sent[i]) <= first + pos
                          /\ sent[i].type \in Handled}

Inside ==
    parsing /\ Aligned /\ OnTrack =>
        {dispatched[k] : k \in 1..Len(dispatched)} = {Payload(sent[i]) : i \in Passed}

(* ... and once it has left the track, or is over, it has handed out the   *)
(* messages due and dealt with the one that was cut.                       *)
CutIsNext(n) ==
    \A i \in 1..Len(sent) :
      Cut(sent[i]) /\ sent[i].type \in Handled =>
        IF End(sent[i]) <= first + BufSize
          THEN n < Len(dispatched) /\ dispatched[n + 1] = Payload(sent[i])
          ELSE ~parsing /\ n = Len(dispatched)

Past ==
    Aligned /\ (~parsing \/ ~OnTrack) =>
        \E n \in 0..Len(dispatched) : Delivered(n) /\ CutIsNext(n)

Delivery == PayloadsApart /\ InStep /\ Inside /\ Past

IInv == StreamTypeOK /\ Laid /\ Ordered /\ HeadersInPlace /\ Delivery

-----------------------------------------------------------------------------
LEMMA FrameType ==
  ASSUME NEW message \in Messages, counted \in BOOLEAN
  PROVE  /\ Frame(message) \in Seq(Cells) /\ Over \in {0, 2}
         /\ Len(message.body) \in Nat /\ 2 * (Len(message.body) + 2) < Wrap
         /\ Len(Frame(message)) = 2 + Len(message.body)
         /\ Frame(message)[1] = message.type
         /\ Frame(message)[2] = Len(message.body) + Over
<1> DEFINE size == Len(message.body) + Over
<1>1. /\ message.type \in Cells /\ message.body \in Seq(Cells)
      /\ 2 * (Len(message.body) + 2) < Wrap
  BY StreamAssumption DEF MessageHeaderSize
<1>2. Len(message.body) \in Nat /\ Over \in {0, 2}
  BY <1>1, LenProperties DEF Over, MessageHeaderSize
<1>3. size \in Cells
  BY <1>1, <1>2, ParserAssumption DEF Cells
<1> HIDE DEF size
<1>4. /\ <<message.type, size>> \in Seq(Cells)
      /\ Len(<<message.type, size>>) = 2
      /\ <<message.type, size>>[1] = message.type
      /\ <<message.type, size>>[2] = size
  BY <1>1, <1>3
<1>5. Frame(message) = <<message.type, size>> \o message.body
  BY DEF Frame, size
<1>6. /\ Frame(message) \in Seq(Cells) /\ Len(Frame(message)) = 2 + Len(message.body)
      /\ Frame(message)[1] = message.type /\ Frame(message)[2] = size
  BY <1>1, <1>2, <1>4, <1>5, ConcatProperties
<1> QED
  BY <1>1, <1>2, <1>6 DEF size

LEMMA StreamTypes ==
  ASSUME StreamTypeOK
  PROVE  /\ BufSize \in Nat /\ Wrap \in Nat /\ pos \in Nat
         /\ first \in Nat /\ iobyte \in Nat /\ Len(stream) \in Nat /\ StreamEnd \in Nat
         /\ Len(sent) \in Nat /\ Over \in {0, 2}
         /\ \A i \in 1..Len(sent) : /\ sent[i] \in Spaces
                                    /\ sent[i].from \in Nat /\ sent[i].to \in Nat
<1>1. /\ BufSize \in Nat /\ Wrap \in Nat /\ pos \in Nat /\ first \in Nat /\ iobyte \in Nat
      /\ stream \in Seq(Cells) /\ sent \in Seq(Spaces)
  BY ParserAssumption DEF StreamTypeOK, TypeOK, Spaces
<1>2. Len(stream) \in Nat /\ Len(sent) \in Nat /\ Over \in {0, 2}
  BY <1>1, LenProperties DEF Over, MessageHeaderSize
<1>3. \A i \in 1..Len(sent) : sent[i] \in Spaces
  BY <1>1, ElementOfSeq
<1>4. \A i \in 1..Len(sent) : sent[i].from \in Nat /\ sent[i].to \in Nat
  BY <1>3 DEF Spaces
<1>5. StreamEnd \in Nat
  BY <1>1, <1>2, <1>4, EmptySeq DEF StreamEnd
<1> QED
  BY <1>1, <1>2, <1>3, <1>4, <1>5

(* Behind every boundary but the last another message begins.              *)
LEMMA MessageAt ==
  ASSUME IInv, NEW at \in Boundaries, at < StreamEnd
  PROVE  \E i \in 1..Len(sent) : sent[i].from = at
<1>1. sent # <<>> /\ Len(sent) \in Nat /\ Len(sent) # 0
  <2>1. StreamEnd # 0 /\ sent # <<>>
    BY StreamTypes DEF Boundaries, StreamEnd, IInv
  <2> QED
    BY <2>1, StreamTypes, EmptySeq DEF IInv, StreamTypeOK
<1>2. CASE at = 0
  BY <1>1, <1>2 DEF IInv, Laid
<1>3. CASE \E j \in 1..Len(sent) : at = sent[j].to
  <2>1. PICK j \in 1..Len(sent) : at = sent[j].to
    BY <1>3
  <2>2. j # Len(sent)
    BY <1>1, <2>1, StreamTypes DEF StreamEnd, IInv
  <2>3. j + 1 \in 1..Len(sent) /\ j + 1 # 1 /\ (j + 1) - 1 = j
    BY <1>1, <2>2
  <2>4. sent[j + 1].from = at
    BY <2>1, <2>3 DEF IInv, Laid
  <2> QED
    BY <2>3, <2>4
<1> QED
  BY <1>2, <1>3 DEF Boundaries

(* The span of a message, as a handler is given it, has its types.         *)
LEMMA MessageFacts ==
  ASSUME IInv, NEW i \in 1..Len(sent)
  PROVE  /\ sent[i].from \in Nat /\ sent[i].to \in Nat /\ BodySize(sent[i]) \in Nat
         /\ sent[i].to = sent[i].from + 2 + BodySize(sent[i])
         /\ sent[i].to <= StreamEnd /\ sent[i].from + 2 <= sent[i].to
         /\ Over \in {0, 2} /\ (~counted => Over = 0)
         /\ Claimed(sent[i]) \in Nat /\ 2 * Claimed(sent[i]) < Wrap
         /\ End(sent[i]) \in Nat /\ sent[i].to <= End(sent[i])
         /\ End(sent[i]) = sent[i].to + Over
         /\ End(sent[i]) = sent[i].from + 2 + Claimed(sent[i])
<1>1. /\ sent[i].from \in Nat /\ sent[i].to \in Nat
      /\ sent[i].from + 2 <= sent[i].to /\ sent[i].to <= StreamEnd
      /\ 2 * (BodySize(sent[i]) + 2) < Wrap
  BY StreamTypes DEF IInv, Laid, MessageHeaderSize
<1>2. BodySize(sent[i]) = sent[i].to - sent[i].from - 2
  BY DEF BodySize, MessageHeaderSize
<1>3. BodySize(sent[i]) \in Nat /\ sent[i].to = sent[i].from + 2 + BodySize(sent[i])
  BY <1>1, <1>2
<1>4. Over \in {0, 2} /\ Over \in Nat /\ (~counted => Over = 0)
  BY StreamTypes DEF IInv, Over
<1>5. Claimed(sent[i]) = BodySize(sent[i]) + Over /\ End(sent[i]) = sent[i].to + Over
  BY DEF Claimed, End
<1>6. Claimed(sent[i]) \in Nat /\ 2 * Claimed(sent[i]) < Wrap
  BY <1>1, <1>3, <1>4, <1>5, ParserAssumption
<1>7. /\ End(sent[i]) \in Nat /\ sent[i].to <= End(sent[i])
      /\ End(sent[i]) = sent[i].from + 2 + Claimed(sent[i])
  <2> DEFINE from == sent[i].from
             to   == sent[i].to
             body == BodySize(sent[i])
  <2>1. /\ from \in Nat /\ to \in Nat /\ body \in Nat /\ to = from + 2 + body
        /\ Over \in Nat
    BY <1>1, <1>3, <1>4
  <2> HIDE DEF from, to, body
  <2>2. to + Over \in Nat /\ to <= to + Over /\ to + Over = from + 2 + (body + Over)
    BY <2>1
  <2> QED
    BY <1>5, <2>2 DEF from, to, body
<1> QED
  BY <1>1, <1>3, <1>4, <1>5, <1>6, <1>7

(* The header lies in the stream.                                          *)
LEMMA HeaderPlace ==
  ASSUME IInv, NEW i \in 1..Len(sent)
  PROVE  /\ sent[i].from + 1 \in Nat /\ sent[i].from + 1 <= StreamEnd
         /\ sent[i].from + 2 \in Nat /\ sent[i].from + 2 <= StreamEnd
<1> DEFINE from == sent[i].from
           to   == sent[i].to
<1>1. /\ from \in Nat /\ to \in Nat /\ from + 2 <= to /\ to <= StreamEnd
      /\ StreamEnd \in Nat
  BY MessageFacts, StreamTypes DEF IInv
<1> HIDE DEF from, to
<1>2. /\ from + 1 \in Nat /\ from + 1 <= StreamEnd
      /\ from + 2 \in Nat /\ from + 2 <= StreamEnd
  BY <1>1
<1> QED
  BY <1>2 DEF from

(* Messages do not overlap.                                                *)
LEMMA OneBehindTheOther ==
  ASSUME IInv, NEW i \in 1..Len(sent), NEW j \in 1..Len(sent), i # j
  PROVE  sent[i].to <= sent[j].from \/ sent[j].to <= sent[i].from
<1>1. i < j \/ j < i
  BY StreamTypes DEF IInv
<1> QED
  BY <1>1 DEF IInv, Ordered

(* A message that is met behind another is met from a server that counts   *)
(* the body alone.                                                         *)
LEMMA MetBehind ==
  ASSUME IInv, NEW i \in 1..Len(sent), NEW j \in 1..Len(sent), i # j,
         counted => sent[i].from = first, Met(sent[j])
  PROVE  ~counted /\ first <= sent[j].from
<1>1. counted => sent[j].from = first
  BY DEF Met
<1>2. /\ sent[i].from \in Nat /\ sent[i].to \in Nat /\ sent[i].from + 2 <= sent[i].to
      /\ sent[j].from \in Nat /\ sent[j].to \in Nat /\ sent[j].from + 2 <= sent[j].to
  BY MessageFacts
<1>3. sent[i].to <= sent[j].from \/ sent[j].to <= sent[i].from
  BY OneBehindTheOther
<1> QED
  BY <1>1, <1>2, <1>3 DEF Met

(* What the read before left in the buffer or in flight stays in place.    *)
LEMMA SendsInPlace ==
  ASSUME IInv, ServerSends, NEW at \in Nat, NEW cell, at <= StreamEnd, InPlace(at, cell)
  PROVE  InPlace(at, cell)'
<1>1. PICK message \in Messages : stream' = stream \o Frame(message)
  BY DEF ServerSends
<1>2. UNCHANGED <<recv_buffer, first, iobyte>>
  BY DEF ServerSends, parser, lastRead
<1> DEFINE frame == Frame(message)
<1>3. /\ frame \in Seq(Cells) /\ stream \in Seq(Cells) /\ stream' = stream \o frame
      /\ Len(frame) = 2 + Len(message.body) /\ Len(message.body) \in Nat
  BY <1>1, FrameType DEF IInv, StreamTypeOK
<1> HIDE DEF frame
<1>4. /\ first + iobyte \in Nat /\ Len(stream) \in Nat
      /\ first + iobyte + Len(stream) = StreamEnd
  BY StreamTypes DEF IInv, StreamTypeOK
<1>5. CASE at > first + iobyte
  <2>1. at - (first + iobyte) \in 1..Len(stream)
    BY <1>4, <1>5
  <2>2. \A k \in 1..Len(stream) : stream'[k] = stream[k]
    BY <1>3, <1>4, ConcatProperties
  <2>3. at \notin first + 1..first + iobyte
    BY <1>4, <1>5
  <2> QED
    BY <1>2, <1>5, <2>1, <2>2, <2>3 DEF InPlace
<1>6. CASE ~(at > first + iobyte)
  BY <1>2, <1>6 DEF InPlace
<1> QED
  BY <1>5, <1>6

-----------------------------------------------------------------------------
(* The server adds a message behind what is in flight.                     *)
LEMMA SendsKeeps == IInv /\ ServerSends => IInv'
<1> SUFFICES ASSUME IInv, ServerSends PROVE IInv'
  OBVIOUS
<1> USE DEF MessageHeaderSize
<1>1. PICK message \in Messages :
         /\ stream' = stream \o Frame(message)
         /\ sent' = Append(sent, [type |-> message.type, from |-> StreamEnd,
                                  to |-> StreamEnd + Len(Frame(message))])
  BY DEF ServerSends
<1>2. /\ UNCHANGED <<counted, eof, recv_buffer, pos, parsing, dispatched, first, iobyte, reads>>
      /\ Over' = Over
  BY DEF ServerSends, parser, lastRead, Over
<1> DEFINE size == Len(message.body)
           new  == [type |-> message.type, from |-> StreamEnd, to |-> StreamEnd + 2 + size]
           n    == Len(sent)
<1>3. /\ size \in Nat /\ 2 * (size + 2) < Wrap /\ message.type \in Cells
      /\ Frame(message) \in Seq(Cells) /\ Len(Frame(message)) = 2 + size
      /\ Frame(message)[1] = message.type /\ Frame(message)[2] = size + Over
      /\ Over \in {0, 2}
  BY FrameType, StreamAssumption DEF IInv, StreamTypeOK
<1> HIDE DEF size
<1>0. StreamEnd \in Nat
  BY StreamTypes DEF IInv
<1>4. /\ new \in Spaces /\ new.from = StreamEnd /\ new.to = StreamEnd + 2 + size
      /\ BodySize(new) = size /\ Claimed(new) = size + Over /\ new.type = message.type
  <2>1. StreamEnd + 2 + size \in Nat
    BY <1>0, <1>3
  <2>2. new.from = StreamEnd /\ new.to = StreamEnd + 2 + size
    OBVIOUS
  <2>3. new \in Spaces
    BY <1>0, <1>3, <2>1 DEF Spaces
  <2> QED
    BY <1>0, <1>3, <2>2, <2>3 DEF BodySize, Claimed
<1>5. /\ sent' = Append(sent, new) /\ sent \in Seq(Spaces) /\ n \in Nat
      /\ stream \in Seq(Cells)
  <2>1. StreamEnd + Len(Frame(message)) = StreamEnd + 2 + size
    BY <1>0, <1>3
  <2>2. sent \in Seq(Spaces) /\ n \in Nat /\ stream \in Seq(Cells)
    BY StreamTypes DEF IInv, StreamTypeOK, Spaces
  <2> QED
    BY <1>1, <2>1, <2>2
<1> HIDE DEF new
<1>6. /\ sent' \in Seq(Spaces) /\ Len(sent') = n + 1 /\ sent'[n + 1] = new
      /\ \A i \in 1..n : sent'[i] = sent[i]
  BY <1>4, <1>5, AppendProperties
<1>7. /\ stream' \in Seq(Cells) /\ Len(stream') = Len(stream) + 2 + size
      /\ \A i \in 1..Len(stream) : stream'[i] = stream[i]
      /\ stream'[Len(stream) + 1] = message.type
      /\ stream'[Len(stream) + 2] = size + Over
  <2>1. /\ stream' \in Seq(Cells) /\ Len(stream') = Len(stream) + Len(Frame(message))
        /\ \A i \in 1..Len(stream') :
             stream'[i] = IF i <= Len(stream) THEN stream[i]
                                              ELSE Frame(message)[i - Len(stream)]
    <3> DEFINE frame == Frame(message)
    <3>1. frame \in Seq(Cells) /\ stream \in Seq(Cells) /\ stream' = stream \o frame
      BY <1>1, <1>3, <1>5
    <3> HIDE DEF frame
    <3>2. /\ stream' \in Seq(Cells) /\ Len(stream') = Len(stream) + Len(frame)
          /\ \A i \in 1..Len(stream') :
               stream'[i] = IF i <= Len(stream) THEN stream[i] ELSE frame[i - Len(stream)]
      BY <3>1, ConcatProperties
    <3> QED
      BY <3>2 DEF frame
  <2>2. /\ Len(stream) \in Nat /\ Len(stream') = Len(stream) + 2 + size
        /\ Len(stream) + 2 \in 1..Len(stream') /\ ~(Len(stream) + 2 <= Len(stream))
        /\ (Len(stream) + 2) - Len(stream) = 2
        /\ Len(stream) + 1 \in 1..Len(stream') /\ ~(Len(stream) + 1 <= Len(stream))
        /\ (Len(stream) + 1) - Len(stream) = 1
    BY <1>3, <2>1, StreamTypes DEF IInv
  <2> QED
    BY <1>3, <2>1, <2>2
<1>8. StreamEnd' = StreamEnd + 2 + size /\ StreamEnd \in Nat
  <2>1. sent' # <<>>
    BY <1>5, <1>6, EmptySeq
  <2> QED
    BY <1>4, <1>6, <2>1, StreamTypes DEF StreamEnd, IInv
<1>9. StreamTypeOK'
  <2>1. TypeOK'
    BY <1>2 DEF IInv, StreamTypeOK, TypeOK
  <2>2. first + iobyte + Len(stream') = StreamEnd'
    <3>1. /\ first \in Nat /\ iobyte \in Nat /\ Len(stream) \in Nat /\ StreamEnd \in Nat
          /\ first + iobyte + Len(stream) = StreamEnd
      BY StreamTypes DEF IInv, StreamTypeOK
    <3>2. size \in Nat /\ Len(stream') = Len(stream) + 2 + size /\ StreamEnd' = StreamEnd + 2 + size
      BY <1>3, <1>7, <1>8
    <3> QED
      BY <3>1, <3>2
  <2> QED
    BY <1>2, <1>6, <1>7, <2>1, <2>2 DEF IInv, StreamTypeOK, Spaces
<1>10. Laid'
  <2> SUFFICES ASSUME NEW i \in 1..Len(sent')
               PROVE  /\ sent'[i].from = IF i = 1 THEN 0 ELSE sent'[i - 1].to
                      /\ sent'[i].from + 2 <= sent'[i].to
                      /\ sent'[i].to <= StreamEnd'
                      /\ 2 * (BodySize(sent'[i]) + 2) < Wrap
    BY DEF Laid, BodySize
  <2>1. CASE i \in 1..n
    <3>1. sent'[i] = sent[i] /\ (i # 1 => sent'[i - 1] = sent[i - 1])
      BY <1>5, <1>6, <2>1
    <3>2. sent[i].to \in Nat /\ sent[i].to <= StreamEnd
      BY <2>1, StreamTypes DEF IInv, Laid
    <3>3. sent'[i].to <= StreamEnd'
      BY <1>3, <1>8, <3>1, <3>2
    <3>4. /\ sent[i].from = IF i = 1 THEN 0 ELSE sent[i - 1].to
          /\ sent[i].from + 2 <= sent[i].to
          /\ 2 * (BodySize(sent[i]) + 2) < Wrap
      BY <2>1 DEF IInv, Laid
    <3> QED
      BY <3>1, <3>3, <3>4
  <2>2. CASE i = n + 1
    <3>1. StreamEnd = IF i = 1 THEN 0 ELSE sent[i - 1].to
      BY <1>5, <2>2, EmptySeq DEF StreamEnd
    <3>2. i # 1 => sent'[i - 1] = sent[i - 1]
      BY <1>5, <1>6, <2>2
    <3>3. /\ sent'[i].from = StreamEnd /\ sent'[i].to = StreamEnd'
          /\ BodySize(sent'[i]) = size
      BY <1>4, <1>6, <1>8, <2>2
    <3>4. StreamEnd + 2 <= StreamEnd' /\ StreamEnd' <= StreamEnd'
      BY <1>3, <1>8
    <3> QED
      BY <1>3, <3>1, <3>2, <3>3, <3>4
  <2> QED
    BY <1>5, <1>6, <2>1, <2>2
<1>11. HeadersInPlace'
  <2>1. /\ first + iobyte \in Nat /\ Len(stream) \in Nat /\ first \in Nat
        /\ first + iobyte + Len(stream) = StreamEnd
    BY StreamTypes DEF IInv, StreamTypeOK
  <2>2. \A at \in Nat : \A cell : at <= StreamEnd /\ InPlace(at, cell) => InPlace(at, cell)'
    BY SendsInPlace
  <2>3. \A k \in {1, 2} :
           /\ StreamEnd + k \notin first + 1..first + iobyte
           /\ (StreamEnd + k) - (first + iobyte) = Len(stream) + k
    BY <2>1
  <2> SUFFICES ASSUME NEW i \in 1..Len(sent')
               PROVE  /\ InPlace(sent[i].from + 1, sent[i].type)'
                      /\ InPlace(sent[i].from + 2, Claimed(sent[i]))'
    BY DEF HeadersInPlace
  <2>4. CASE i \in 1..n
    <3> DEFINE m == sent[i]
    <3>1. m' = m
      BY <1>6, <2>4
    <3>2. /\ m.from + 1 \in Nat /\ m.from + 2 \in Nat
          /\ m.from + 1 <= StreamEnd /\ m.from + 2 <= StreamEnd
      BY <2>4, HeaderPlace
    <3>3. InPlace(m.from + 1, m.type) /\ InPlace(m.from + 2, Claimed(m))
      BY <2>4 DEF IInv, HeadersInPlace
    <3> HIDE DEF m
    <3>4. InPlace(m.from + 1, m.type)' /\ InPlace(m.from + 2, Claimed(m))'
      BY <1>2, <2>2, <3>1, <3>2, <3>3 DEF InPlace, Claimed, BodySize
    <3> QED
      BY <3>4 DEF m
  <2>5. CASE i = n + 1
    <3> DEFINE m == sent[i]
    <3>1. m' = new
      BY <1>6, <2>5
    <3>2. new.from = StreamEnd /\ new.type = message.type /\ Claimed(new) = size + Over
      BY <1>4
    <3> HIDE DEF m
    <3>3. /\ m'.from + 1 = StreamEnd + 1 /\ m'.from + 2 = StreamEnd + 2
          /\ m'.type = message.type /\ Claimed(m)' = size + Over
      BY <1>2, <3>1, <3>2 DEF Claimed, BodySize
    <3>4. InPlace(m.from + 1, m.type)'
      BY <1>2, <1>7, <2>3, <3>3 DEF InPlace
    <3>5. InPlace(m.from + 2, Claimed(m))'
      BY <1>2, <1>7, <2>3, <3>3 DEF InPlace
    <3> QED
      BY <3>4, <3>5 DEF m
  <2> QED
    BY <1>5, <1>6, <2>4, <2>5
<1>12. Ordered'
  <2> SUFFICES ASSUME NEW i \in 1..Len(sent'), NEW j \in 1..Len(sent'), i < j
               PROVE  sent'[i].to <= sent'[j].from
    BY DEF Ordered
  <2>1. i \in 1..n /\ sent'[i] = sent[i]
    BY <1>5, <1>6
  <2>2. CASE j \in 1..n
    BY <1>6, <2>1, <2>2 DEF IInv, Ordered
  <2>3. CASE j = n + 1
    BY <1>4, <1>6, <2>1, <2>3, MessageFacts
  <2> QED
    BY <1>5, <1>6, <2>2, <2>3
<1>13. Delivery'
  <2>1. /\ first \in Nat /\ iobyte \in Nat /\ Len(stream) \in Nat /\ pos \in Nat
        /\ first + iobyte + Len(stream) = StreamEnd
    BY StreamTypes DEF IInv, StreamTypeOK
  <2>2. Aligned' => Aligned
    <3>1. \A at \in Boundaries' : at \in Boundaries \/ at > StreamEnd
      BY <1>3, <1>4, <1>5, <1>6, <1>8 DEF Boundaries
    <3> QED
      BY <1>0, <1>2, <2>1, <3>1 DEF Aligned
  <2>3. PayloadsApart'
    BY <1>2 DEF PayloadsApart, IInv, Delivery
  <2>4. InStep'
    <3>1. Boundaries \subseteq Boundaries'
      BY <1>5, <1>6 DEF Boundaries
    <3> QED
      BY <1>2, <2>2, <3>1 DEF InStep, OnTrack, IInv, Delivery
  <2>5. /\ 1..Len(sent') = 1..n \union {n + 1} /\ \A i \in 1..n : sent'[i] = sent[i]
        /\ sent'[n + 1].from = StreamEnd /\ sent'[n + 1].to > StreamEnd
    BY <1>0, <1>3, <1>4, <1>5, <1>6
  <2>6. Inside'
    <3> SUFFICES ASSUME parsing, Aligned, OnTrack PROVE Inside'
      BY <1>2, <2>2 DEF Inside, OnTrack
    <3>1. ~(sent'[n + 1].to + Over <= first + pos)
      <4>1. sent'[n + 1].to = StreamEnd + 2 + size /\ pos <= iobyte
        BY <1>4, <1>6 DEF OnTrack
      <4> QED
        BY <1>0, <1>3, <2>1, <4>1
    <3>2. Passed' = Passed
      BY <1>2, <2>5, <3>1 DEF Passed, Met, End
    <3>3. \A i \in Passed : Payload(sent[i])' = Payload(sent[i])
      BY <1>2, <2>5 DEF Passed, Payload, End
    <3>4. {Payload(sent[i])' : i \in Passed'} = {Payload(sent[i]) : i \in Passed}
      BY <3>2, <3>3
    <3> QED
      BY <1>2, <3>4 DEF Inside, IInv, Delivery
  <2>7. Past'
    <3> SUFFICES ASSUME Aligned, ~parsing \/ ~OnTrack
                 PROVE  (\E n1 \in 0..Len(dispatched) : Delivered(n1) /\ CutIsNext(n1))'
      BY <1>2, <2>2 DEF Past, OnTrack
    <3>1. PICK k \in 0..Len(dispatched) : Delivered(k) /\ CutIsNext(k)
      BY DEF Past, IInv, Delivery
    <3>2. ASSUME NEW i \in 1..Len(sent'), i = n + 1
          PROVE  ~Whole(sent[i])' /\ ~Cut(sent[i])'
      <4>1. sent'[i].from = StreamEnd /\ sent'[i].to = StreamEnd + 2 + size
        BY <1>4, <1>6, <3>2
      <4>2. ~(End(sent[i])' <= first + iobyte) /\ ~(sent'[i].from + 2 <= first + iobyte)
        <5> DEFINE from == sent'[i].from
                   end  == End(sent[i])'
        <5>1. /\ from = StreamEnd /\ end = StreamEnd + 2 + size + Over /\ size \in Nat
              /\ StreamEnd = first + iobyte + Len(stream) /\ Over \in {0, 2}
              /\ first \in Nat /\ iobyte \in Nat /\ Len(stream) \in Nat
          BY <1>2, <1>3, <2>1, <4>1 DEF End
        <5> HIDE DEF from, end
        <5>2. ~(end <= first + iobyte) /\ ~(from + 2 <= first + iobyte)
          BY <5>1
        <5> QED
          BY <5>2 DEF from, end
      <4> QED
        BY <1>2, <4>2 DEF Whole, Cut, MessageHeaderSize
    <3>3. \A i \in 1..n : /\ Whole(sent[i])' = Whole(sent[i]) /\ Cut(sent[i])' = Cut(sent[i])
                          /\ Payload(sent[i])' = Payload(sent[i])
                          /\ End(sent[i])' = End(sent[i])
      BY <1>2, <2>5 DEF Whole, Cut, Payload, Met, End
    <3>4. Due' = Due
      <4>1. \A i \in 1..Len(sent') : i \in 1..n \/ i = n + 1
        BY <2>5
      <4>2. \A i \in Due' : i \in 1..n /\ Whole(sent[i])' /\ sent'[i].type \in Handled
        BY <3>2, <4>1 DEF Due
      <4>3. Due' \subseteq Due
        BY <2>5, <3>3, <4>2 DEF Due
      <4>4. Due \subseteq Due'
        BY <2>5, <3>3 DEF Due
      <4> QED
        BY <4>3, <4>4
    <3>5. Delivered(k)'
      <4>1. {Payload(sent[i])' : i \in Due'} = {Payload(sent[i]) : i \in Due}
        BY <3>3, <3>4 DEF Due
      <4> QED
        BY <1>2, <3>1, <4>1 DEF Delivered
    <3>6. CutIsNext(k)'
      <4> SUFFICES ASSUME NEW i \in 1..Len(sent'), Cut(sent[i])', sent'[i].type \in Handled
                   PROVE  IF End(sent[i])' <= first + BufSize
                            THEN k < Len(dispatched) /\ dispatched[k + 1] = Payload(sent[i])'
                            ELSE ~parsing /\ k = Len(dispatched)
        BY <1>2 DEF CutIsNext
      <4>1. i \in 1..n
        BY <2>5, <3>2
      <4>2. /\ Cut(sent[i]) /\ sent'[i] = sent[i] /\ Payload(sent[i])' = Payload(sent[i])
            /\ End(sent[i])' = End(sent[i])
        BY <2>5, <3>3, <4>1
      <4> QED
        BY <3>1, <4>1, <4>2 DEF CutIsNext
    <3> QED
      BY <1>2, <3>1, <3>5, <3>6
  <2> QED
    BY <2>3, <2>4, <2>6, <2>7 DEF Delivery
<1> QED
  BY <1>9, <1>10, <1>11, <1>12, <1>13 DEF IInv

-----------------------------------------------------------------------------
(* A pass begins with nothing handed out, and no message lies before its   *)
(* first cell.                                                             *)
LEMMA BeginPassDelivers ==
  ASSUME IInv, BeginPass, iobyte' \in Nat, UNCHANGED <<counted, sent>>
  PROVE  Delivery'
<1>1. /\ pos' = 0 /\ parsing' = TRUE /\ dispatched' = <<>> /\ first' \in Nat
  BY StreamTypes DEF BeginPass, IInv
<1>2. PayloadsApart'
  BY <1>1 DEF PayloadsApart
<1>3. InStep'
  BY <1>1 DEF InStep, Aligned
<1>4. Inside'
  <2>1. Passed' = {}
    <3>1. ASSUME NEW i \in 1..Len(sent), first' <= sent[i].from, End(sent[i]) <= first' + 0
          PROVE  FALSE
      BY <1>1, <3>1, MessageFacts
    <3>2. \A message : End(message)' = End(message)
      BY DEF End, Over
    <3> QED
      BY <1>1, <3>1, <3>2 DEF Passed, Met
  <2>2. {dispatched'[k] : k \in 1..Len(dispatched')} = {}
    BY <1>1
  <2> QED
    BY <2>1, <2>2 DEF Inside
<1>5. Past'
  BY <1>1 DEF Past, OnTrack
<1> QED
  BY <1>2, <1>3, <1>4, <1>5 DEF Delivery

(* A read moves the beginning of what is in flight to the buffer.          *)
LEMMA ReadKeeps == IInv /\ WSARecv => IInv'
<1> SUFFICES ASSUME IInv, WSARecv PROVE IInv'
  OBVIOUS
<1>1. PICK n \in 1..Len(stream) :
         /\ n <= BufSize
         /\ recv_buffer' = [i \in 1..BufSize |->
                              IF i <= n THEN stream[i] ELSE recv_buffer[i]]
         /\ stream' = SubSeq(stream, n + 1, Len(stream))
         /\ iobyte' = n
  BY DEF WSARecv
<1>2. /\ pos' = 0 /\ parsing' = TRUE /\ dispatched' = <<>> /\ first' = first + iobyte
      /\ reads < MaxReads /\ reads' = reads + 1 /\ UNCHANGED <<counted, sent, eof>>
  BY DEF WSARecv, BeginPass
<1>3. /\ n \in Nat /\ Len(stream) \in Nat /\ first \in Nat /\ iobyte \in Nat
      /\ BufSize \in Nat /\ n >= 1 /\ n <= Len(stream) /\ n <= BufSize
      /\ first + iobyte + Len(stream) = StreamEnd /\ StreamEnd \in Nat
  BY <1>1, StreamTypes DEF IInv, StreamTypeOK
<1>4. /\ stream \in Seq(Cells) /\ \A i \in 1..Len(stream) : stream[i] \in Cells
  BY ElementOfSeq DEF IInv, StreamTypeOK
<1>5. /\ stream' \in Seq(Cells) /\ Len(stream') = Len(stream) - n
      /\ \A k \in 1..Len(stream) - n : stream'[k] = stream[n + k]
  <2>1. \A i \in n + 1..Len(stream) : stream[i] \in Cells
    BY <1>3, <1>4
  <2>2. n + 1 \in Int /\ Len(stream) \in Int
    BY <1>3
  <2>3. /\ stream' \in Seq(Cells)
        /\ Len(stream') = IF n + 1 <= Len(stream) THEN Len(stream) - (n + 1) + 1 ELSE 0
        /\ \A k \in 1..Len(stream) - (n + 1) + 1 : stream'[k] = stream[n + 1 + k - 1]
    BY <1>1, <2>1, <2>2, SubSeqProperties
  <2>4. Len(stream) - (n + 1) + 1 = Len(stream) - n
    BY <1>3
  <2>5. Len(stream') = Len(stream) - n
    <3>1. (IF n + 1 <= Len(stream) THEN Len(stream) - (n + 1) + 1 ELSE 0) = Len(stream) - n
      BY <1>3
    <3> QED
      BY <2>3, <3>1
  <2>6. ASSUME NEW k \in 1..Len(stream) - n PROVE stream'[k] = stream[n + k]
    <3>1. n + 1 + k - 1 = n + k
      BY <1>3
    <3>2. stream'[k] = stream[n + 1 + k - 1]
      BY <2>3, <2>4
    <3> QED
      BY <3>1, <3>2
  <2> QED
    BY <2>3, <2>5, <2>6
<1>6. /\ recv_buffer' \in [1..BufSize -> Cells]
      /\ \A i \in 1..n : recv_buffer'[i] = stream[i]
  BY <1>1, <1>3, <1>4 DEF IInv, StreamTypeOK, TypeOK
<1>7. StreamEnd' = StreamEnd
  BY <1>2 DEF StreamEnd
<1>8. StreamTypeOK'
  <2>1. TypeOK'
    <3>1. dispatched' \in Seq([type : Handled, from : Nat, to : Nat])
      BY <1>2, EmptySeq
    <3> QED
      BY <1>2, <1>3, <1>6, <3>1 DEF TypeOK
  <2>2. first' \in Nat /\ iobyte' \in 0..BufSize
    BY <1>1, <1>2, <1>3
  <2>3. first' + iobyte' + Len(stream') = StreamEnd'
    <3>1. (first + iobyte) + n + (Len(stream) - n) = StreamEnd
      BY <1>3
    <3> QED
      BY <1>1, <1>2, <1>5, <1>7, <3>1
  <2>4. reads' \in 0..MaxReads
    BY <1>2, StreamAssumption DEF IInv, StreamTypeOK
  <2> QED
    BY <1>2, <1>5, <2>1, <2>2, <2>3, <2>4 DEF IInv, StreamTypeOK
<1>9. Laid'
  BY <1>2, <1>7 DEF IInv, Laid, BodySize
<1>10. HeadersInPlace'
  <2>1. ASSUME NEW at \in Nat, NEW cell, at <= StreamEnd, InPlace(at, cell)
        PROVE  InPlace(at, cell)'
    <3> DEFINE k == at - (first + iobyte)
    <3>1. CASE at \in first' + 1..first' + n
      <4>1. k \in 1..n /\ at - first' = k /\ at > first + iobyte /\ ~(at > first' + n)
        BY <1>2, <1>3, <2>1, <3>1
      <4>2. stream[k] = cell
        BY <2>1, <4>1 DEF InPlace
      <4> QED
        BY <1>1, <1>6, <4>1, <4>2 DEF InPlace
    <3>2. CASE at > first' + n
      <4>1. /\ at - (first' + n) \in 1..Len(stream) - n /\ at > first + iobyte
            /\ n + (at - (first' + n)) = k /\ at \notin first' + 1..first' + n
        BY <1>2, <1>3, <2>1, <3>2
      <4>2. stream[k] = cell
        BY <2>1, <4>1 DEF InPlace
      <4>3. stream'[at - (first' + n)] = cell
        BY <1>5, <4>1, <4>2
      <4> QED
        BY <1>1, <4>1, <4>3 DEF InPlace
    <3>3. CASE at \notin first' + 1..first' + n /\ ~(at > first' + n)
      BY <1>1, <3>3 DEF InPlace
    <3> QED
      BY <3>1, <3>2, <3>3
  <2> SUFFICES ASSUME NEW i \in 1..Len(sent)
               PROVE  /\ InPlace(sent[i].from + 1, sent[i].type)'
                      /\ InPlace(sent[i].from + 2, Claimed(sent[i]))'
    BY <1>2 DEF HeadersInPlace, Claimed, BodySize, Over
  <2> DEFINE m == sent[i]
  <2>2. /\ m.from + 1 \in Nat /\ m.from + 2 \in Nat
        /\ m.from + 1 <= StreamEnd /\ m.from + 2 <= StreamEnd
    BY HeaderPlace
  <2>3. InPlace(m.from + 1, m.type) /\ InPlace(m.from + 2, Claimed(m))
    BY DEF IInv, HeadersInPlace
  <2>4. m' = m
    BY <1>2
  <2> HIDE DEF m
  <2>5. InPlace(m.from + 1, m.type)' /\ InPlace(m.from + 2, Claimed(m))'
    <3>1. \A at \in Nat : \A cell : at <= StreamEnd /\ InPlace(at, cell)
             => /\ at \in first' + 1..first' + iobyte' => recv_buffer'[at - first'] = cell
                /\ at > first' + iobyte' => stream'[at - (first' + iobyte')] = cell
      BY <2>1 DEF InPlace
    <3> QED
      BY <1>2, <2>2, <2>3, <2>4, <3>1 DEF InPlace, Claimed, BodySize, Over
  <2> QED
    BY <2>5 DEF m
<1>11. Delivery' /\ Ordered'
  BY <1>1, <1>2, <1>3, BeginPassDelivers DEF WSARecv, IInv, Ordered
<1> QED
  BY <1>8, <1>9, <1>10, <1>11 DEF IInv

LEMMA ReadZeroKeeps == IInv /\ WSARecvZero => IInv'
<1> SUFFICES ASSUME IInv, WSARecvZero PROVE IInv'
  OBVIOUS
<1>1. /\ pos' = 0 /\ parsing' = TRUE /\ dispatched' = <<>> /\ first' = first + iobyte
      /\ reads < MaxReads /\ reads' = reads + 1 /\ iobyte' = 0
      /\ UNCHANGED <<counted, recv_buffer, stream, sent, eof>>
  BY DEF WSARecvZero, BeginPass, source
<1>2. first \in Nat /\ iobyte \in Nat /\ BufSize \in Nat /\ Len(stream) \in Nat
  BY StreamTypes DEF IInv
<1>3. first' \in Nat /\ first' + iobyte' = first + iobyte /\ StreamEnd' = StreamEnd
  BY <1>1, <1>2 DEF StreamEnd
<1>4. StreamTypeOK'
  <2>1. dispatched' \in Seq([type : Handled, from : Nat, to : Nat])
    BY <1>1, EmptySeq
  <2>2. TypeOK'
    BY <1>1, <1>2, <2>1 DEF IInv, StreamTypeOK, TypeOK
  <2>3. reads' \in 0..MaxReads
    BY <1>1, StreamAssumption DEF IInv, StreamTypeOK
  <2>4. first' + iobyte' + Len(stream') = StreamEnd'
    BY <1>1, <1>3 DEF IInv, StreamTypeOK
  <2> QED
    BY <1>1, <1>2, <1>3, <2>2, <2>3, <2>4 DEF IInv, StreamTypeOK
<1>5. Laid'
  BY <1>1, <1>3 DEF IInv, Laid, BodySize
<1>6. HeadersInPlace'
  <2> SUFFICES ASSUME NEW at \in Nat, NEW cell, InPlace(at, cell)
               PROVE  InPlace(at, cell)'
    <3>1. ASSUME NEW i \in 1..Len(sent)
          PROVE  /\ InPlace(sent[i].from + 1, sent[i].type)
                 /\ InPlace(sent[i].from + 2, Claimed(sent[i]))
                 /\ sent[i].from + 1 \in Nat /\ sent[i].from + 2 \in Nat
      BY HeaderPlace DEF IInv, HeadersInPlace
    <3>2. \A at \in Nat : \A cell : InPlace(at, cell)
             => /\ at \in first' + 1..first' + iobyte' => recv_buffer'[at - first'] = cell
                /\ at > first' + iobyte' => stream'[at - (first' + iobyte')] = cell
      BY DEF InPlace
    <3> QED
      BY <1>1, <3>1, <3>2 DEF HeadersInPlace, InPlace, Claimed, BodySize, Over
  <2>1. at \notin first' + 1..first' + iobyte'
    BY <1>1, <1>3
  <2> QED
    BY <1>1, <1>3, <2>1 DEF InPlace
<1>7. Delivery' /\ Ordered'
  BY <1>1, <1>2, BeginPassDelivers DEF WSARecvZero, IInv, Ordered
<1> QED
  BY <1>4, <1>5, <1>6, <1>7 DEF IInv

-----------------------------------------------------------------------------
(* Where the header of the next message lies in the read, the pass takes   *)
(* the message for what it is.                                             *)
LEMMA AtHeader ==
  ASSUME IInv, parsing, Aligned, OnTrack, pos + 2 <= iobyte
  PROVE  \E i \in 1..Len(sent) :
            /\ sent[i].from = first + pos
            /\ Header.type = sent[i].type
            /\ Signed(Header.size) = Claimed(sent[i])
            /\ SpanOf(Signed(Header.size)) = Claimed(sent[i])
<1>1. /\ pos \in Nat /\ first \in Nat /\ iobyte \in Nat /\ StreamEnd \in Nat
      /\ Len(stream) \in Nat /\ first + iobyte + Len(stream) = StreamEnd
  BY StreamTypes DEF IInv, StreamTypeOK
<1>2. first + pos \in Boundaries /\ first + pos < StreamEnd
  BY <1>1 DEF IInv, Delivery, InStep
<1>3. PICK i \in 1..Len(sent) : sent[i].from = first + pos
  BY <1>2, MessageAt
<1> DEFINE size == Claimed(sent[i])
<1>4. size \in Nat /\ 2 * size < Wrap
  BY MessageFacts
<1>5. /\ sent[i].from + 1 \in first + 1..first + iobyte /\ (sent[i].from + 1) - first = pos + 1
      /\ sent[i].from + 2 \in first + 1..first + iobyte /\ (sent[i].from + 2) - first = pos + 2
  BY <1>1, <1>3
<1>6. recv_buffer[pos + 1] = sent[i].type /\ recv_buffer[pos + 2] = size
  BY <1>5 DEF IInv, HeadersInPlace, InPlace
<1>7. Header.type = sent[i].type /\ Header.size = size
  BY <1>6 DEF Header
<1> HIDE DEF size
<1>8. Signed(Header.size) = size /\ SpanOf(Signed(Header.size)) = size
  BY <1>4, <1>7 DEF SpanOf, Signed
<1> QED
  BY <1>3, <1>7, <1>8 DEF size

(* A message begins behind a boundary or ends before it.                   *)
LEMMA NoMessageAcross ==
  ASSUME IInv, NEW at \in Boundaries, NEW i \in 1..Len(sent)
  PROVE  sent[i].to <= at \/ at <= sent[i].from
<1>1. CASE at = 0
  BY <1>1, MessageFacts
<1>2. CASE \E k \in 1..Len(sent) : at = sent[k].to
  <2>1. PICK k \in 1..Len(sent) : at = sent[k].to
    BY <1>2
  <2>2. CASE k = i
    BY <2>1, <2>2, MessageFacts
  <2>3. CASE k # i
    <3>1. sent[k].to <= sent[i].from \/ sent[i].to <= sent[k].from
      BY <2>3, OneBehindTheOther
    <3>2. sent[k].from \in Nat /\ sent[k].to \in Nat /\ sent[k].from + 2 <= sent[k].to
      BY MessageFacts
    <3>3. sent[i].from \in Nat /\ sent[i].to \in Nat
      BY MessageFacts
    <3> QED
      BY <2>1, <3>1, <3>2, <3>3
  <2> QED
    BY <2>2, <2>3
<1> QED
  BY <1>1, <1>2 DEF Boundaries

(* Where no header is left in the read, its messages are all passed, and   *)
(* none of them is cut behind its header.                                  *)
LEMMA NoHeaderLeft ==
  ASSUME IInv, parsing, Aligned, OnTrack, ~(pos + 2 <= iobyte), NEW i \in 1..Len(sent)
  PROVE  /\ Whole(sent[i]) => End(sent[i]) <= first + pos
         /\ ~Cut(sent[i])
<1>1. pos \in Nat /\ first \in Nat /\ iobyte \in Nat /\ pos <= iobyte
  BY StreamTypes DEF IInv, OnTrack
<1>2. sent[i].to <= first + pos \/ first + pos <= sent[i].from
  BY NoMessageAcross DEF IInv, Delivery, InStep
<1>3. /\ sent[i].from \in Nat /\ sent[i].to \in Nat /\ sent[i].from + 2 <= sent[i].to
      /\ End(sent[i]) \in Nat /\ sent[i].to <= End(sent[i])
      /\ ~counted => End(sent[i]) = sent[i].to
  BY MessageFacts
<1>4. CASE counted
  <2>1. pos = 0
    BY <1>4 DEF OnTrack
  <2> QED
    BY <1>1, <1>2, <1>3, <2>1 DEF Whole, Cut, Met, MessageHeaderSize
<1>5. CASE ~counted
  BY <1>1, <1>2, <1>3, <1>5 DEF Whole, Cut, Met, MessageHeaderSize
<1> QED
  BY <1>4, <1>5

(* Where a message with its header in the read is the next, the messages   *)
(* of the read that do not lie behind it are passed, and no other is cut.  *)
LEMMA OneMessageNext ==
  ASSUME IInv, parsing, Aligned, OnTrack,
         NEW i \in 1..Len(sent), sent[i].from = first + pos,
         NEW j \in 1..Len(sent), j # i, Met(sent[j])
  PROVE  /\ ~counted
         /\ End(sent[j]) <= End(sent[i]) => End(sent[j]) <= first + pos
         /\ End(sent[i]) > first + iobyte => /\ Whole(sent[j]) => End(sent[j]) <= first + pos
                                             /\ ~Cut(sent[j])
<1> DEFINE start == sent[i].from
           end   == sent[i].to
           from  == sent[j].from
           to    == sent[j].to
<1>1. pos \in Nat /\ first \in Nat /\ iobyte \in Nat /\ pos <= iobyte
  BY StreamTypes DEF IInv, OnTrack
<1>2. end <= from \/ to <= start
  BY OneBehindTheOther
<1>3. /\ start \in Nat /\ end \in Nat /\ start + 2 <= end /\ start = first + pos
      /\ from \in Nat /\ to \in Nat /\ from + 2 <= to
  BY MessageFacts
<1>4. ~counted
  <2>1. counted => start = first
    BY <1>1 DEF OnTrack
  <2> QED
    BY <2>1, MetBehind
<1>5. End(sent[i]) = end /\ End(sent[j]) = to
  <2>1. Over = 0
    BY <1>4 DEF Over
  <2> QED
    BY <1>3, <2>1 DEF End
<1> SUFFICES /\ to <= end => to <= first + pos
             /\ end > first + iobyte =>
                  /\ to <= first + iobyte => to <= first + pos
                  /\ ~(/\ first <= from /\ from + 2 <= first + iobyte
                       /\ first + iobyte < to)
  BY <1>4, <1>5 DEF Whole, Cut, Met, MessageHeaderSize
<1> HIDE DEF start, end, from, to
<1>6. CASE end <= from
  BY <1>1, <1>3, <1>6
<1>7. CASE to <= start
  BY <1>1, <1>3, <1>7
<1> QED
  BY <1>2, <1>6, <1>7

(* Messages that stay apart are in the order they lie in the buffer.       *)
LEMMA InOrder ==
  ASSUME NEW handed \in Seq(Spans),
         \A i, j \in 1..Len(handed) :
            i < j => handed[i].to + MessageHeaderSize <= handed[j].from
  PROVE  \A k, l \in 1..Len(handed) : k < l => handed[k].to < handed[l].from
<1> SUFFICES ASSUME NEW k \in 1..Len(handed), NEW l \in 1..Len(handed), k < l
             PROVE  handed[k].to < handed[l].from
  OBVIOUS
<1>1. handed[k] \in Spans /\ handed[l] \in Spans
  BY ElementOfSeq
<1>2. handed[k].to \in Nat /\ handed[l].from \in Nat
  BY <1>1 DEF Spans
<1> QED
  BY <1>2 DEF MessageHeaderSize

(* Once they are passed, the messages due are handed out.                  *)
LEMMA AllDelivered ==
  ASSUME IInv, parsing, Aligned, OnTrack,
         \A i \in 1..Len(sent) : Whole(sent[i]) => End(sent[i]) <= first + pos
  PROVE  Delivered(Len(dispatched))
<1>1. Due = Passed
  <2>1. ASSUME NEW i \in 1..Len(sent), End(sent[i]) <= first + pos
        PROVE  End(sent[i]) <= first + iobyte
    <3>1. /\ pos \in Nat /\ first \in Nat /\ iobyte \in Nat /\ End(sent[i]) \in Nat
          /\ pos <= iobyte
      BY StreamTypes, MessageFacts DEF IInv, OnTrack
    <3> QED
      BY <2>1, <3>1
  <2> QED
    BY <2>1 DEF Due, Passed, Whole
<1>2. {dispatched[k] : k \in 1..Len(dispatched)} = {Payload(sent[i]) : i \in Passed}
  BY DEF IInv, Delivery, Inside
<1>3. \A k, l \in 1..Len(dispatched) : k < l => dispatched[k].to < dispatched[l].from
  BY InOrder DEF IInv, StreamTypeOK, TypeOK, Delivery, PayloadsApart, Spans
<1> QED
  BY <1>1, <1>2, <1>3 DEF Delivered

(* A step of the pass hands out nothing, or one message more.              *)
LEMMA StepAppends ==
  ASSUME IInv, ParseStep
  PROVE  /\ Len(dispatched) \in Nat /\ Len(dispatched') \in Nat
         /\ Len(dispatched) <= Len(dispatched')
         /\ \A k \in 1..Len(dispatched) : dispatched'[k] = dispatched[k]
<1>1. dispatched \in Seq(Spans) /\ Len(dispatched) \in Nat
  BY LenProperties DEF IInv, StreamTypeOK, TypeOK, Spans
<1>2. CASE dispatched' = dispatched
  BY <1>1, <1>2
<1>3. CASE dispatched' # dispatched
  <2>1. DispatchMessage
    BY <1>3 DEF ParseStep, NoHeader, CutMessage
  <2> DEFINE m == [type |-> Header.type, from |-> pos + MessageHeaderSize, to |-> pos']
  <2>2. Header.type \in Handled /\ dispatched' = Append(dispatched, m)
    BY <1>3, <2>1, HandleAppends DEF IInv, StreamTypeOK
  <2>3. pos' \in Nat /\ pos \in Nat
    BY <2>1, SkipStaysInside, StreamTypes
       DEF DispatchMessage, IInv, StreamTypeOK, MessageHeaderSize
  <2>4. m \in Spans
    BY <2>2, <2>3 DEF Spans, MessageHeaderSize
  <2> HIDE DEF m
  <2> QED
    BY <1>1, <2>2, <2>4, AppendProperties
<1> QED
  BY <1>2, <1>3

(* What was handed out first stays first.                                  *)
LEMMA StaysDelivered ==
  ASSUME IInv, ParseStep, UNCHANGED <<counted, sent, first, iobyte>>,
         NEW n \in 0..Len(dispatched), Delivered(n)
  PROVE  n \in 0..Len(dispatched') /\ Delivered(n)'
<1>1. \A k \in 1..n : k \in 1..Len(dispatched) /\ dispatched'[k] = dispatched[k]
  BY StepAppends
<1>2. n \in 0..Len(dispatched')
  BY StepAppends
<1>3. {dispatched'[k] : k \in 1..n} = {dispatched[k] : k \in 1..n}
  BY <1>1
<1>4. {Payload(sent[i])' : i \in Due'} = {Payload(sent[i]) : i \in Due}
  BY DEF Payload, Due, Whole, Met, End, Over
<1> QED
  BY <1>1, <1>2, <1>3, <1>4 DEF Delivered

(* What a dispatch at a message hands out is the message.                  *)
LEMMA DispatchedPayload ==
  ASSUME IInv, DispatchMessage, NEW i \in 1..Len(sent), sent[i].from = first + pos,
         Header.type = sent[i].type, SpanOf(Signed(Header.size)) = Claimed(sent[i]),
         sent[i].type \in Handled
  PROVE  /\ dispatched' = Append(dispatched, Payload(sent[i]))
         /\ dispatched \in Seq(Spans) /\ Payload(sent[i]) \in Spans
<1>1. /\ pos \in Nat /\ first \in Nat /\ dispatched \in Seq(Spans)
  BY StreamTypes DEF IInv, StreamTypeOK, TypeOK, Spans
<1>2. /\ sent[i].from \in Nat /\ End(sent[i]) \in Nat /\ Claimed(sent[i]) \in Nat
      /\ End(sent[i]) = sent[i].from + 2 + Claimed(sent[i])
  BY MessageFacts
<1>3. pos + 2 = sent[i].from - first + 2 /\ pos + 2 + Claimed(sent[i]) = End(sent[i]) - first
  BY <1>1, <1>2
<1>4. Payload(sent[i])
        = [type |-> Header.type, from |-> pos + 2, to |-> pos + 2 + Claimed(sent[i])]
  BY <1>3 DEF Payload, MessageHeaderSize
<1>5. pos + 2 \in Nat /\ pos + 2 + Claimed(sent[i]) \in Nat
  BY <1>1, <1>2
<1>6. Payload(sent[i]) \in Spans
  BY <1>4, <1>5 DEF Spans
<1>7. dispatched' = Append(dispatched, Payload(sent[i]))
  BY <1>4 DEF DispatchMessage, Handle, MessageHeaderSize
<1> QED
  BY <1>1, <1>6, <1>7

(* A pass that has left the track may go on as it likes.                   *)
LEMMA PastStays ==
  ASSUME IInv, ParseStep, UNCHANGED <<counted, sent, first, iobyte>>, Aligned, ~OnTrack
  PROVE  (\E n \in 0..Len(dispatched) : Delivered(n) /\ CutIsNext(n))'
<1>1. PICK n \in 0..Len(dispatched) : Delivered(n) /\ CutIsNext(n)
  BY DEF IInv, Delivery, Past
<1>2. parsing
  BY DEF ParseStep, NoHeader, CutMessage, DispatchMessage
<1>3. n \in 0..Len(dispatched') /\ Delivered(n)'
  BY <1>1, StaysDelivered
<1>4. CutIsNext(n)'
  <2> SUFFICES ASSUME NEW i \in 1..Len(sent), Cut(sent[i]), sent[i].type \in Handled
               PROVE  /\ End(sent[i]) <= first + BufSize
                      /\ n < Len(dispatched') /\ dispatched'[n + 1] = Payload(sent[i])
    BY DEF CutIsNext, Cut, Payload, Met, End, Over
  <2>1. /\ End(sent[i]) <= first + BufSize
        /\ n < Len(dispatched) /\ dispatched[n + 1] = Payload(sent[i])
    BY <1>1, <1>2 DEF CutIsNext
  <2>2. n + 1 \in 1..Len(dispatched) /\ n < Len(dispatched')
    BY <2>1, StepAppends
  <2> QED
    BY <2>1, <2>2, StepAppends
<1> QED
  BY <1>3, <1>4

(* Where the read ends in the message that is next, the messages due are   *)
(* handed out and no other is cut.                                         *)
LEMMA CutIsReached ==
  ASSUME IInv, parsing, Aligned, OnTrack, NEW i \in 1..Len(sent),
         sent[i].from = first + pos, End(sent[i]) > first + iobyte
  PROVE  /\ Delivered(Len(dispatched))
         /\ \A j \in 1..Len(sent) : Cut(sent[j]) => j = i
<1>1. ASSUME NEW j \in 1..Len(sent), Whole(sent[j])
      PROVE  End(sent[j]) <= first + pos
  <2>1. j # i /\ Met(sent[j])
    <3>1. End(sent[i]) \in Nat /\ first \in Nat /\ iobyte \in Nat
      BY StreamTypes, MessageFacts DEF IInv
    <3> QED
      BY <1>1, <3>1 DEF Whole
  <2> QED
    BY <1>1, <2>1, OneMessageNext
<1>2. \A j \in 1..Len(sent) : Cut(sent[j]) => j = i
  BY OneMessageNext DEF Cut
<1> QED
  BY <1>1, <1>2, AllDelivered

(* A pass leaves the track with all of the read dealt with.                *)
LEMMA PastBegins ==
  ASSUME IInv, ParseStep, UNCHANGED <<counted, sent, first, iobyte>>, Aligned, OnTrack,
         ~parsing' \/ ~OnTrack'
  PROVE  (\E n \in 0..Len(dispatched) : Delivered(n) /\ CutIsNext(n))'
<1>a. PICK n : n = Len(dispatched)
  OBVIOUS
<1>0. /\ parsing /\ n \in 0..Len(dispatched)
      /\ pos \in Nat /\ first \in Nat /\ iobyte \in Nat /\ BufSize \in Nat
      /\ pos <= iobyte /\ iobyte <= BufSize
  BY <1>a, StepAppends, StreamTypes
     DEF OnTrack, ParseStep, NoHeader, CutMessage, DispatchMessage, IInv, StreamTypeOK
<1>b. \A message : /\ Cut(message)' = Cut(message) /\ Payload(message)' = Payload(message)
                   /\ End(message)' = End(message)
  BY DEF Cut, Payload, Met, End, Over
<1>1. CASE ~(pos + 2 <= iobyte)
  <2>1. n \in 0..Len(dispatched') /\ Delivered(n)'
    <3>1. \A i \in 1..Len(sent) : Whole(sent[i]) => End(sent[i]) <= first + pos
      BY <1>0, <1>1, NoHeaderLeft
    <3>2. Delivered(n)
      BY <1>a, <1>0, <3>1, AllDelivered
    <3> QED
      BY <1>0, <3>2, StaysDelivered
  <2>2. CutIsNext(n)'
    BY <1>0, <1>1, <1>b, NoHeaderLeft DEF CutIsNext
  <2> QED
    BY <2>1, <2>2
<1>2. CASE pos + 2 <= iobyte
  <2>1. PICK i \in 1..Len(sent) :
            /\ sent[i].from = first + pos
            /\ Header.type = sent[i].type
            /\ Signed(Header.size) = Claimed(sent[i])
            /\ SpanOf(Signed(Header.size)) = Claimed(sent[i])
    BY <1>0, <1>2, AtHeader
  <2>2. /\ sent[i].from \in Nat /\ End(sent[i]) \in Nat /\ Claimed(sent[i]) \in Nat
        /\ End(sent[i]) = sent[i].from + 2 + Claimed(sent[i])
    BY MessageFacts
  <2>3. ~NoHeader
    BY <1>0, <1>2 DEF NoHeader, HeaderFits, MessageHeaderSize
  <2>4. CASE CutMessage
    <3>1. End(sent[i]) > first + BufSize /\ dispatched' = dispatched /\ ~parsing'
      <4> DEFINE size == Claimed(sent[i])
      <4>1. /\ BufSize - (pos + 2) < size /\ dispatched' = dispatched /\ ~parsing'
        BY <2>1, <2>4 DEF CutMessage, RemainSize, MessageHeaderSize
      <4>2. size \in Nat /\ End(sent[i]) = first + pos + 2 + size
        BY <2>1, <2>2
      <4> HIDE DEF size
      <4> QED
        BY <1>0, <4>1, <4>2
    <3>2. End(sent[i]) > first + iobyte
      BY <1>0, <2>2, <3>1
    <3>3. n \in 0..Len(dispatched') /\ Delivered(n)'
      BY <1>a, <1>0, <2>1, <3>2, CutIsReached, StaysDelivered
    <3>4. \A j \in 1..Len(sent) : Cut(sent[j]) => j = i
      BY <1>0, <2>1, <3>2, CutIsReached
    <3>5. ~(End(sent[i]) <= first + BufSize) /\ n = Len(dispatched')
      BY <1>a, <1>0, <2>2, <3>1
    <3>6. CutIsNext(n)'
      BY <1>b, <3>1, <3>4, <3>5 DEF CutIsNext
    <3> QED
      BY <3>3, <3>6
  <2>5. CASE DispatchMessage
    <3>0. pos' = pos + 2 + Claimed(sent[i]) /\ pos' <= BufSize /\ parsing'
      BY <1>0, <2>1, <2>5, SkipStaysInside
         DEF DispatchMessage, MessageHeaderSize, IInv, StreamTypeOK
    <3>1. End(sent[i]) = first + pos' /\ End(sent[i]) <= first + BufSize
      BY <1>0, <2>1, <2>2, <3>0
    <3>2. sent[i].type \in Handled
             => /\ n < Len(dispatched') /\ Len(dispatched') = n + 1
                /\ dispatched'[n + 1] = Payload(sent[i])
      <4> SUFFICES ASSUME sent[i].type \in Handled
                   PROVE  /\ n < Len(dispatched') /\ Len(dispatched') = n + 1
                          /\ dispatched'[n + 1] = Payload(sent[i])
        OBVIOUS
      <4>1. dispatched' = Append(dispatched, Payload(sent[i]))
        BY <2>1, <2>5, DispatchedPayload DEF IInv
      <4>2. dispatched \in Seq(Spans) /\ Payload(sent[i]) \in Spans
        BY <2>1, <2>5, DispatchedPayload
      <4> QED
        BY <1>a, <1>0, <4>1, <4>2, AppendProperties
    <3>3. CASE End(sent[i]) > first + iobyte
      <4>1. n \in 0..Len(dispatched') /\ Delivered(n)'
        BY <1>a, <1>0, <2>1, <3>3, CutIsReached, StaysDelivered
      <4>2. CutIsNext(n)'
        <5> SUFFICES ASSUME NEW j \in 1..Len(sent), Cut(sent[j]), sent[j].type \in Handled
                     PROVE  /\ End(sent[j]) <= first + BufSize
                            /\ n < Len(dispatched') /\ dispatched'[n + 1] = Payload(sent[j])
          BY <1>b DEF CutIsNext
        <5>1. j = i
          BY <1>0, <2>1, <3>3, CutIsReached
        <5> QED
          BY <3>1, <3>2, <5>1
      <4> QED
        BY <4>1, <4>2
    <3>4. CASE ~(End(sent[i]) > first + iobyte)
      <4>1. counted /\ pos = 0 /\ sent[i].from = first
        <5>1. pos' <= iobyte
          BY <1>0, <2>2, <3>0, <3>1, <3>4
        <5>2. counted /\ pos = 0
          BY <3>0, <5>1 DEF OnTrack
        <5> QED
          BY <1>0, <2>1, <5>2
      <4>2. Len(dispatched) = 0 /\ n = 0
        <5>1. Passed = {}
          <6>1. ASSUME NEW j \in 1..Len(sent), Met(sent[j]), End(sent[j]) <= first + pos
                PROVE  FALSE
            <7>1. first <= sent[j].from /\ End(sent[j]) <= first
              BY <1>0, <4>1, <6>1 DEF Met
            <7>2. /\ sent[j].from \in Nat /\ Claimed(sent[j]) \in Nat
                  /\ End(sent[j]) = sent[j].from + 2 + Claimed(sent[j])
              BY MessageFacts
            <7> QED
              BY <1>0, <7>1, <7>2
          <6> QED
            BY <6>1 DEF Passed
        <5>2. {dispatched[k] : k \in 1..Len(dispatched)} = {}
          BY <1>0, <5>1 DEF IInv, Delivery, Inside
        <5>3. \A k \in 1..Len(dispatched) : FALSE
          BY <5>2
        <5>4. Len(dispatched) \in Nat
          BY StepAppends
        <5> QED
          BY <1>a, <5>3, <5>4
      <4>3. \A j \in 1..Len(sent) : Met(sent[j]) => j = i
        BY <4>1, MetBehind
      <4>4. Whole(sent[i]) /\ ~Cut(sent[i])
        <5>1. Met(sent[i])
          BY <1>0, <4>1 DEF Met
        <5>2. End(sent[i]) <= first + iobyte /\ ~(first + iobyte < End(sent[i]))
          BY <1>0, <2>2, <3>4
        <5> QED
          BY <5>1, <5>2 DEF Whole, Cut
      <4>5. \A j \in 1..Len(sent) : ~Cut(sent[j])
        BY <4>3, <4>4 DEF Cut
      <4>6. \A j : j \in Due <=> j = i /\ sent[i].type \in Handled
        BY <4>3, <4>4 DEF Due, Whole
      <4>7. PICK m : m = Len(dispatched')
        OBVIOUS
      <4>8. {dispatched'[k] : k \in 1..m} = {Payload(sent[j]) : j \in Due}
        <5>1. CASE sent[i].type \in Handled
          <6>1. m = 1 /\ dispatched'[1] = Payload(sent[i])
            BY <3>2, <4>2, <4>7, <5>1
          <6>2. Due = {i} /\ 1..m = {1}
            BY <4>6, <5>1, <6>1
          <6> QED
            BY <6>1, <6>2
        <5>2. CASE sent[i].type \notin Handled
          <6>1. dispatched' = dispatched
            BY <2>1, <2>5, <5>2 DEF DispatchMessage, Handle
          <6>2. m = 0 /\ Due = {}
            BY <4>2, <4>6, <4>7, <5>2, <6>1
          <6> QED
            BY <6>2
        <5> QED
          BY <5>1, <5>2
      <4>9. {Payload(sent[j])' : j \in Due'} = {Payload(sent[j]) : j \in Due}
        BY <1>b DEF Due, Whole, Met, End, Over
      <4>10. TypeOK' /\ PayloadsApart'
        BY StepKeepsTypes, StepKeepsApart DEF Next, IInv, StreamTypeOK, Delivery
      <4>11. \A k, l \in 1..m : k < l => dispatched'[k].to < dispatched'[l].from
        BY <4>7, <4>10, InOrder DEF TypeOK, PayloadsApart, Spans
      <4>12. Delivered(m)'
        BY <4>8, <4>9, <4>11 DEF Delivered
      <4>13. m \in 0..Len(dispatched') /\ CutIsNext(m)'
        BY <1>b, <4>5, <4>7, StepAppends DEF CutIsNext
      <4> QED
        BY <4>12, <4>13
    <3> QED
      BY <3>3, <3>4
  <2> QED
    BY <2>3, <2>4, <2>5 DEF ParseStep
<1> QED
  BY <1>1, <1>2

(* Inside of the read a pass hands out one message after the other.        *)
LEMMA InsideGoesOn ==
  ASSUME IInv, ParseStep, UNCHANGED <<counted, sent, first, iobyte>>, Aligned, OnTrack,
         parsing', OnTrack', pos' \in Nat
  PROVE  first + pos' \in Boundaries /\ Inside'
<1>0. /\ parsing /\ DispatchMessage
      /\ pos \in Nat /\ first \in Nat /\ iobyte \in Nat /\ pos' <= iobyte
  BY StreamTypes DEF OnTrack, ParseStep, NoHeader, CutMessage, DispatchMessage, IInv
<1>1. pos + 2 <= iobyte /\ ~counted
  <2>1. /\ pos' = pos + 2 + SpanOf(Signed(Header.size)) /\ SpanOf(Signed(Header.size)) \in Nat
    BY <1>0, SkipStaysInside DEF DispatchMessage, MessageHeaderSize, IInv, StreamTypeOK
  <2>2. PICK skip \in Nat : pos' = pos + 2 + skip
    BY <2>1
  <2> QED
    BY <1>0, <2>2 DEF OnTrack
<1>2. PICK i \in 1..Len(sent) :
            /\ sent[i].from = first + pos
            /\ Header.type = sent[i].type
            /\ Signed(Header.size) = Claimed(sent[i])
            /\ SpanOf(Signed(Header.size)) = Claimed(sent[i])
  BY <1>0, <1>1, AtHeader
<1>3. /\ sent[i].from \in Nat /\ sent[i].to \in Nat /\ Claimed(sent[i]) \in Nat
      /\ sent[i].to = sent[i].from + 2 + Claimed(sent[i])
      /\ \A j \in 1..Len(sent) : End(sent[j]) = sent[j].to
  <2>1. Over = 0
    BY <1>1 DEF Over
  <2>2. ASSUME NEW j \in 1..Len(sent) PROVE End(sent[j]) = sent[j].to
    <3>1. sent[j].to \in Nat
      BY MessageFacts
    <3> QED
      BY <2>1, <3>1 DEF End
  <2>3. /\ sent[i].from \in Nat /\ sent[i].to \in Nat /\ Claimed(sent[i]) \in Nat
        /\ End(sent[i]) = sent[i].from + 2 + Claimed(sent[i])
    BY MessageFacts
  <2> QED
    BY <2>2, <2>3
<1>4. sent[i].to = first + pos'
  BY <1>0, <1>2, <1>3 DEF DispatchMessage, MessageHeaderSize
<1>5. first + pos' \in Boundaries
  BY <1>4 DEF Boundaries
<1>6. \A j \in 1..Len(sent) :
         first <= sent[j].from /\ sent[j].to <= first + pos'
           <=> j = i \/ (first <= sent[j].from /\ sent[j].to <= first + pos)
  <2> SUFFICES ASSUME NEW j \in 1..Len(sent)
               PROVE  first <= sent[j].from /\ sent[j].to <= first + pos'
                        <=> j = i \/ (first <= sent[j].from /\ sent[j].to <= first + pos)
    OBVIOUS
  <2>1. CASE j = i
    BY <1>0, <1>2, <1>3, <1>4, <2>1
  <2>2. CASE j # i
    <3>1. ASSUME first <= sent[j].from, sent[j].to <= sent[i].to
          PROVE  sent[j].to <= first + pos
      <4>1. Met(sent[j]) /\ End(sent[j]) = sent[j].to /\ End(sent[i]) = sent[i].to
        BY <1>1, <1>3, <3>1 DEF Met
      <4> QED
        BY <1>0, <1>2, <2>2, <3>1, <4>1, OneMessageNext
    <3>2. sent[j].to <= first + pos => sent[j].to <= first + pos'
      <4>1. pos' = pos + 2 + Claimed(sent[i])
        BY <1>0, <1>2 DEF DispatchMessage, MessageHeaderSize
      <4>2. pos <= pos'
        BY <1>0, <1>3, <4>1
      <4>3. sent[j].to \in Nat
        BY MessageFacts
      <4> QED
        BY <1>0, <4>2, <4>3
    <3> QED
      BY <1>4, <2>2, <3>1, <3>2
  <2> QED
    BY <2>1, <2>2
<1>7. {dispatched[k] : k \in 1..Len(dispatched)} = {Payload(sent[j]) : j \in Passed}
  BY <1>0 DEF IInv, Delivery, Inside
<1>8. \A m : Payload(m)' = Payload(m) /\ End(m)' = End(m)
  BY DEF Payload, End, Over
<1>9. CASE sent[i].type \in Handled
  <2>1. Passed' = Passed \union {i}
    BY <1>1, <1>3, <1>6, <1>8, <1>9 DEF Passed, Met
  <2>2. dispatched' = Append(dispatched, Payload(sent[i]))
    BY <1>0, <1>2, <1>9, DispatchedPayload
  <2>3. dispatched \in Seq(Spans) /\ Payload(sent[i]) \in Spans
    BY <1>0, <1>2, <1>9, DispatchedPayload
  <2>4. /\ Len(dispatched') = Len(dispatched) + 1 /\ Len(dispatched) \in Nat
        /\ \A k \in 1..Len(dispatched) : dispatched'[k] = dispatched[k]
        /\ dispatched'[Len(dispatched) + 1] = Payload(sent[i])
    BY <2>2, <2>3, AppendProperties
  <2>5. {dispatched'[k] : k \in 1..Len(dispatched')}
          = {dispatched[k] : k \in 1..Len(dispatched)} \union {Payload(sent[i])}
    <3>1. 1..Len(dispatched') = 1..Len(dispatched) \union {Len(dispatched) + 1}
      BY <2>4
    <3> QED
      BY <2>4, <3>1
  <2>6. {Payload(sent[j])' : j \in Passed'}
          = {Payload(sent[j]) : j \in Passed} \union {Payload(sent[i])}
    BY <1>8, <2>1
  <2> QED
    BY <1>5, <1>7, <2>5, <2>6 DEF Inside
<1>10. CASE sent[i].type \notin Handled
  <2>1. Passed' = Passed
    BY <1>1, <1>3, <1>6, <1>8, <1>10 DEF Passed, Met
  <2>2. dispatched' = dispatched
    BY <1>0, <1>2, <1>10 DEF DispatchMessage, Handle
  <2>3. {Payload(sent[j])' : j \in Passed'} = {Payload(sent[j]) : j \in Passed}
    BY <1>8, <2>1
  <2> QED
    BY <1>5, <1>7, <2>2, <2>3 DEF Inside
<1> QED
  BY <1>9, <1>10

LEMMA ParseKeeps == IInv /\ Parse => IInv'
<1> SUFFICES ASSUME IInv, Parse PROVE IInv'
  OBVIOUS
<1>1. ParseStep /\ recv_buffer' = recv_buffer
      /\ UNCHANGED <<counted, stream, sent, eof, first, iobyte, reads>>
  BY DEF Parse, source, lastRead, ParseStep, NoHeader, CutMessage, DispatchMessage
<1>2. StreamEnd' = StreamEnd
  BY <1>1 DEF StreamEnd
<1>3. TypeOK' /\ PayloadsApart'
  BY <1>1, StepKeepsTypes, StepKeepsApart DEF Next, IInv, StreamTypeOK, Delivery
<1>4. StreamTypeOK' /\ Laid' /\ Ordered' /\ HeadersInPlace'
  BY <1>1, <1>2, <1>3
     DEF IInv, StreamTypeOK, Laid, Ordered, HeadersInPlace, InPlace, Claimed, BodySize, Over
<1>5. /\ pos' \in Nat /\ pos \in Nat /\ iobyte \in Nat /\ parsing
      /\ Boundaries' = Boundaries /\ Aligned' = Aligned
  BY <1>1, <1>3, StreamTypes, ParserAssumption
     DEF TypeOK, ParseStep, NoHeader, CutMessage, DispatchMessage, Boundaries, Aligned, IInv
<1>6. ~OnTrack /\ parsing' => ~OnTrack'
  <2>1. CASE DispatchMessage
    <3>1. /\ pos' = pos + 2 + SpanOf(Signed(Header.size)) /\ SpanOf(Signed(Header.size)) \in Nat
      BY <2>1, SkipStaysInside DEF DispatchMessage, MessageHeaderSize, IInv, StreamTypeOK
    <3>2. PICK skip \in Nat : pos' = pos + 2 + skip
      BY <3>1
    <3> QED
      BY <1>1, <1>5, <3>2 DEF OnTrack
  <2> QED
    BY <1>1, <2>1 DEF ParseStep, NoHeader, CutMessage
<1>7. InStep' /\ Inside'
  <2> SUFFICES ASSUME parsing', Aligned, OnTrack'
               PROVE  first + pos' \in Boundaries /\ Inside'
    BY <1>1, <1>5 DEF InStep, Inside
  <2> QED
    BY <1>1, <1>5, <1>6, InsideGoesOn
<1>8. Past'
  <2> SUFFICES ASSUME Aligned, ~parsing' \/ ~OnTrack'
               PROVE  (\E n \in 0..Len(dispatched) : Delivered(n) /\ CutIsNext(n))'
    BY <1>1, <1>5 DEF Past
  <2> QED
    BY <1>1, <1>5, PastStays, PastBegins
<1> QED
  BY <1>3, <1>4, <1>7, <1>8 DEF IInv, Delivery

(* Nothing of the invariant looks at eof but its type.                     *)
LEMMA StandsStill ==
  ASSUME IInv, UNCHANGED <<counted, stream, sent, parser, lastRead>>, eof' \in BOOLEAN
  PROVE  IInv'
<1>1. UNCHANGED <<counted, stream, sent, recv_buffer, pos, parsing, dispatched, first, iobyte, reads>>
  BY DEF parser, lastRead
<1>2. StreamTypeOK' /\ Laid' /\ Ordered' /\ HeadersInPlace'
  BY <1>1 DEF IInv, StreamTypeOK, TypeOK, StreamEnd, Laid, Ordered, HeadersInPlace, InPlace,
              Claimed, BodySize, Over
<1>3. PayloadsApart' /\ InStep' /\ Inside'
  <2>1. PayloadsApart'
    BY <1>1 DEF IInv, Delivery, PayloadsApart
  <2>2. InStep'
    BY <1>1 DEF IInv, Delivery, InStep, OnTrack, Aligned, Boundaries
  <2>3. Inside'
    <3>1. Passed' = Passed /\ \A m : Payload(m)' = Payload(m)
      BY <1>1 DEF Passed, Payload, Met, End, Over
    <3>2. {Payload(sent[i])' : i \in Passed'} = {Payload(sent[i]) : i \in Passed}
      BY <1>1, <3>1
    <3>3. Aligned' = Aligned /\ OnTrack' = OnTrack
      BY <1>1 DEF Aligned, Boundaries, OnTrack
    <3> QED
      BY <1>1, <3>2, <3>3 DEF IInv, Delivery, Inside
  <2> QED
    BY <2>1, <2>2, <2>3
<1>4. Past'
  <2>1. Aligned' = Aligned /\ OnTrack' = OnTrack
    BY <1>1 DEF Aligned, Boundaries, OnTrack
  <2>2. \A m : /\ Whole(m)' = Whole(m) /\ Cut(m)' = Cut(m) /\ End(m)' = End(m)
               /\ Payload(m)' = Payload(m)
    BY <1>1 DEF Whole, Cut, End, Payload, Met, Over
  <2>3. Due' = Due
    BY <1>1, <2>2 DEF Due
  <2>4. ASSUME NEW n \in 0..Len(dispatched), Delivered(n), CutIsNext(n)
        PROVE  Delivered(n)' /\ CutIsNext(n)'
    <3>1. {Payload(sent[i])' : i \in Due'} = {Payload(sent[i]) : i \in Due}
      BY <1>1, <2>2, <2>3
    <3>2. Delivered(n)'
      BY <1>1, <2>4, <3>1 DEF Delivered
    <3>3. CutIsNext(n)'
      BY <1>1, <2>2, <2>4 DEF CutIsNext
    <3> QED
      BY <3>2, <3>3
  <2> QED
    BY <1>1, <2>1, <2>4 DEF IInv, Delivery, Past
<1> QED
  BY <1>2, <1>3, <1>4 DEF IInv, Delivery

LEMMA NextKeeps == IInv /\ [StreamNext]_streamVars => IInv'
<1> SUFFICES ASSUME IInv, [StreamNext]_streamVars PROVE IInv'
  OBVIOUS
<1>1. CASE ServerCloses
  <2>1. UNCHANGED <<counted, stream, sent, parser, lastRead>> /\ eof' \in BOOLEAN
    BY <1>1 DEF ServerCloses
  <2> QED
    BY <2>1, StandsStill
<1>2. CASE UNCHANGED streamVars
  <2>1. UNCHANGED <<counted, stream, sent, parser, lastRead>> /\ eof' \in BOOLEAN
    BY <1>2 DEF streamVars, source, IInv, StreamTypeOK
  <2> QED
    BY <2>1, StandsStill
<1> QED
  BY <1>1, <1>2, SendsKeeps, ReadKeeps, ReadZeroKeeps, ParseKeeps DEF StreamNext, Idle

LEMMA InitIInv == StreamInit => IInv
<1> SUFFICES ASSUME StreamInit PROVE IInv
  OBVIOUS
<1>1. /\ recv_buffer \in [1..BufSize -> Cells] /\ pos = 0 /\ parsing = FALSE
      /\ counted \in BOOLEAN /\ dispatched = <<>> /\ stream = <<>> /\ sent = <<>> /\ eof = FALSE
      /\ first = 0 /\ iobyte = 0 /\ reads = 0
  BY StreamAssumption DEF StreamInit
<1>2. TypeOK
  <2>1. dispatched \in Seq([type : Handled, from : Nat, to : Nat])
    BY <1>1, EmptySeq
  <2>2. 0 \in 0..BufSize
    BY ParserAssumption
  <2> QED
    BY <1>1, <2>1, <2>2 DEF TypeOK
<1>3. Len(stream) = 0 /\ Len(sent) = 0 /\ StreamEnd = 0
  BY <1>1, EmptySeq DEF StreamEnd
<1>4. StreamTypeOK
  <2>1. stream \in Seq(Cells) /\ sent \in Seq(Spaces)
    BY <1>1, EmptySeq
  <2>2. first + iobyte + Len(stream) = StreamEnd
    BY <1>1, <1>3
  <2>3. iobyte \in 0..BufSize /\ reads \in 0..MaxReads /\ first \in Nat
    BY <1>1, ParserAssumption, StreamAssumption
  <2> QED
    BY <1>1, <1>2, <2>1, <2>2, <2>3 DEF StreamTypeOK
<1>5. Laid /\ Ordered /\ HeadersInPlace
  BY <1>1, <1>3 DEF Laid, Ordered, HeadersInPlace
<1>6. PayloadsApart /\ InStep /\ Inside
  BY <1>1 DEF PayloadsApart, InStep, Inside
<1>7. Past
  <2>1. Due = {} /\ Len(dispatched) = 0
    BY <1>1, <1>3, EmptySeq DEF Due
  <2>2. Delivered(0)
    BY <2>1 DEF Delivered
  <2>3. CutIsNext(0)
    BY <1>3 DEF CutIsNext
  <2> QED
    BY <2>1, <2>2, <2>3 DEF Past
<1> QED
  BY <1>4, <1>5, <1>6, <1>7 DEF IInv, Delivery

LEMMA Inductive == StreamSpec => []IInv
BY InitIInv, NextKeeps, PTL DEF StreamSpec

-----------------------------------------------------------------------------
(* When a pass over a read that begins with a message is over, it has      *)
(* handed out the messages that lie in the read, in their order, before    *)
(* anything it found behind them.                                          *)
THEOREM WholeMessagesArrive == StreamSpec => []WholeMessagesFirst
<1>1. IInv => WholeMessagesFirst
  BY DEF IInv, Delivery, Past, WholeMessagesFirst
<1> QED
  BY <1>1, Inductive, PTL

(* And then the message that the end of the read cut behind its header, in *)
(* its full length; or the pass ended with it, where the buffer has no     *)
(* room for it.                                                            *)
THEOREM CutMessageArrives == StreamSpec => []CutMessageIsOne
<1>1. IInv => CutMessageIsOne
  <2> SUFFICES ASSUME IInv, ~parsing, Aligned, NEW i \in 1..Len(sent),
                      Cut(sent[i]), sent[i].type \in Handled
               PROVE  \E n \in 0..Len(dispatched) :
                        /\ Delivered(n)
                        /\ IF End(sent[i]) <= first + BufSize
                             THEN n < Len(dispatched) /\ dispatched[n + 1] = Payload(sent[i])
                             ELSE n = Len(dispatched)
    BY DEF CutMessageIsOne
  <2> QED
    BY DEF IInv, Delivery, Past, CutIsNext
<1> QED
  BY <1>1, Inductive, PTL
=============================================================================
