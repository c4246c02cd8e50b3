-------------------------- MODULE CodedStreamProofs --------------------------
(***************************************************************************)
(* CodedStream's run has arrays of up to four bytes and calls from a small *)
(* set; here its invariants, and that it implements ByteCursor, are proved *)
(* for arrays, blocks, calls and limits of any size.                       *)
(***************************************************************************)
EXTENDS CodedStream, SequenceTheorems, TLAPS

LEMMA MaxZero == \A x \in Int : Max({0, x}) = IF x > 0 THEN x ELSE 0
BY DEF Max

LEMMA MaxPair == \A x, y \in Int : Max({x, y}) = IF x >= y THEN x ELSE y
BY DEF Max

LEMMA MinPair == \A x, y \in Int : Min({x, y}) = IF x <= y THEN x ELSE y
BY DEF Min

LEMMA SpanIsSeq == \A from, n \in Nat : Span(from, n) \in Seq(Nat) /\ Len(Span(from, n)) = n
<1> SUFFICES ASSUME NEW from \in Nat, NEW n \in Nat
             PROVE  Span(from, n) \in Seq(Nat) /\ Len(Span(from, n)) = n
  OBVIOUS
<1>1. \A i \in 1..n : from + i - 1 \in Nat
  OBVIOUS
<1>2. Span(from, n) \in [1..n -> Nat]
  BY <1>1 DEF Span
<1> QED
  BY <1>2

-----------------------------------------------------------------------------
(* What the buffer is: the last bytes the array has handed out, of which   *)
(* those behind the current limit, and no others, are out of reach.  The   *)
(* stream and the array agree on what has been read, unless a skip has     *)
(* gone past the end of the array.                                         *)
Window ==
    /\ size \in Sizes /\ block \in Int /\ (block = size \/ block > 0)
    /\ position \in Int /\ (position >= 0 \/ position = size)
    /\ last_returned_size \in Nat
    /\ buffer \in Nat /\ buffer_end \in Nat /\ buffer <= buffer_end
    /\ total_bytes_read \in 0..IntMax /\ current_limit \in 0..IntMax
    /\ buffer_size_after_limit \in Nat /\ overflow_bytes = 0
    /\ BackupBytes > 0 => /\ buffer + BackupBytes = position
                          /\ BackupBytes <= last_returned_size
                          /\ position <= size
    /\ \/ total_bytes_read = position
       \/ position = size /\ total_bytes_read > size /\ BackupBytes = 0
    /\ total_bytes_read - buffer_size_after_limit <= current_limit
    /\ buffer_size_after_limit > 0 =>
         total_bytes_read - buffer_size_after_limit = current_limit

(* The limits the callers keep are no nearer than those pushed later.      *)
Nested ==
    /\ old_limits \in Seq(0..IntMax)
    /\ \A i \in 1..Len(old_limits) : current_limit <= old_limits[i]
    /\ \A i, j \in 1..Len(old_limits) : i < j => old_limits[j] <= old_limits[i]

Fresh ==
    /\ position = 0 /\ total_bytes_read = 0 /\ BackupBytes = 0
    /\ current_limit = IntMax

Progress ==
    /\ call \in {"construct", "none", "read", "varint", "gone"}
    /\ call = "construct" => Fresh
    /\ block = size /\ call \notin {"construct", "gone"} => position >= size
    /\ call = "gone" => BackupBytes = 0

Answered ==
    /\ start \in Nat /\ left \in Nat /\ got \in Seq(Nat)
    /\ answer \in [call : {"none", "read", "varint", "skip", "peek"}, n : Int,
                   ok : BOOLEAN, bytes : Seq(Nat)]

IInv == more \in [1..size -> BOOLEAN] /\ Window /\ Nested /\ Progress /\ Answered

-----------------------------------------------------------------------------
LEMMA InitIInv == Init => IInv
<1> SUFFICES ASSUME Init PROVE IInv
  OBVIOUS
<1> USE StreamAssumption
<1>1. block = size \/ block > 0
  BY DEF Init
<1>2. block \in Int /\ size \in Int
  BY DEF Init
<1>3. Window /\ Progress
  BY <1>1, <1>2 DEF Init, Window, Progress, Fresh, BackupBytes, BufferSize, NULL
<1>4. Nested
  BY DEF Init, Nested
<1>5. Answered
  BY DEF Init, Answered, Failed
<1> QED
  BY <1>3, <1>4, <1>5 DEF IInv, Init

(* Refresh, whatever is still in the buffer.  Where the array is one       *)
(* block, all of it has been handed out.                                   *)
LEMMA RefreshKeeps ==
  ASSUME Window, Refresh, UNCHANGED <<array, bounds>>
  PROVE  /\ Window' /\ position' >= position
         /\ block = size /\ (position >= size \/ Fresh) => position' >= size'
<1> USE StreamAssumption
<1>0. UNCHANGED <<size, block, current_limit>> /\ size \in Int
  BY DEF array, bounds, Window
<1>1. CASE RefreshStops
  BY <1>0, <1>1 DEF RefreshStops, AtLimit, Window, input, BackupBytes, BufferSize, Fresh
<1>2. CASE RefreshEnds
  BY <1>0, <1>2 DEF RefreshEnds, AtLimit, Window, BackupBytes, BufferSize, NULL, Fresh
<1>3. CASE RefreshGets
  <2> DEFINE chunk == IF block <= size - position THEN block ELSE size - position
  <2>1. /\ total_bytes_read = position /\ position >= 0 /\ position < size
        /\ buffer_size_after_limit = 0 /\ total_bytes_read < current_limit
    BY <1>3 DEF RefreshGets, Refreshable, AtLimit, Window
  <2>2. Min({block, size - position}) = chunk
    BY <1>0, MinPair DEF Window
  <2>3. chunk \in Nat \ {0} /\ position + chunk <= size
    BY <1>0, <2>1 DEF Window
  <2> HIDE DEF chunk
  <2>4. Min({total_bytes_read + chunk, IntMax}) = position + chunk
    <3>1. total_bytes_read + chunk \in Int /\ IntMax \in Int
      BY <2>3 DEF Window
    <3>2. total_bytes_read + chunk <= IntMax
      BY <1>0, <2>1, <2>3 DEF Window
    <3> QED
      BY <2>1, <3>1, <3>2, MinPair
  <2>5. /\ position' = position + chunk /\ last_returned_size' = chunk
        /\ buffer' = position
        /\ total_bytes_read' = position + chunk
    BY <1>3, <2>2, <2>4 DEF RefreshGets
  <2>6. overflow_bytes' = 0
    <3>1. overflow_bytes' = total_bytes_read + chunk - (position + chunk)
      BY <1>3, <2>2, <2>4 DEF RefreshGets
    <3> QED
      BY <2>1, <2>3, <3>1 DEF Window
  <2>7. /\ buffer_size_after_limit' = IF position + chunk > current_limit
                                       THEN position + chunk - current_limit ELSE 0
        /\ buffer_end' = position + chunk - buffer_size_after_limit'
    <3>1. /\ position + chunk - overflow_bytes' = position + chunk
          /\ position \in Int /\ chunk \in Int /\ current_limit \in Int
      BY <2>1, <2>3, <2>6 DEF Window
    <3>2. LimitBuffer(position + chunk - overflow_bytes', total_bytes_read', current_limit)
      BY <1>3, <2>2 DEF RefreshGets
    <3>3. LimitBuffer(position + chunk, position + chunk, current_limit)
      BY <2>5, <3>1, <3>2 DEF LimitBuffer
    <3>4. Max({0, position + chunk - current_limit}) =
            IF position + chunk - current_limit > 0 THEN position + chunk - current_limit ELSE 0
      BY <3>1, MaxZero
    <3>5. /\ buffer_size_after_limit' = Max({0, position + chunk - current_limit})
          /\ buffer_end' = position + chunk - Max({0, position + chunk - current_limit})
      BY <3>1, <3>3, <3>4 DEF LimitBuffer
    <3> QED
      BY <3>1, <3>4, <3>5
  <2>8. Window'
    BY <1>0, <2>1, <2>3, <2>5, <2>6, <2>7 DEF Window, BackupBytes, BufferSize
  <2>9. block = size /\ Fresh => chunk = size
    BY <1>0, <2>1 DEF chunk, Fresh
  <2> QED
    <3>1. position \in Int
      BY DEF Window
    <3>2. Fresh => position = 0
      BY DEF Fresh
    <3> QED
      BY <1>0, <2>1, <2>3, <2>5, <2>8, <2>9, <3>1, <3>2
<1> QED
  BY <1>1, <1>2, <1>3 DEF Refresh

LEMMA AdvanceKeeps ==
  ASSUME Window, NEW n \in 0..BufferSize, Advance(n), UNCHANGED <<array, bounds>>
  PROVE  Window' /\ position' = position
BY DEF Window, Advance, array, bounds, input, BufferSize, BackupBytes

(* A limit that is set behind the current position, at the same place of   *)
(* the array.                                                              *)
LEMMA LimitKeeps ==
  ASSUME Window, NEW limit \in 0..IntMax, current_limit' = limit, CurrentPosition <= limit,
         LimitBuffer(buffer_end + buffer_size_after_limit, total_bytes_read, limit),
         UNCHANGED <<array, input, buffer, total_bytes_read, overflow_bytes>>
  PROVE  Window' /\ BackupBytes' = BackupBytes
<1>1. /\ buffer_end \in Int /\ buffer_size_after_limit \in Int
      /\ buffer \in Int /\ total_bytes_read \in Int /\ limit \in Int
  BY StreamAssumption DEF Window
<1>2. Max({0, total_bytes_read - limit}) =
        IF total_bytes_read - limit > 0 THEN total_bytes_read - limit ELSE 0
  BY <1>1, MaxZero
<1>3. /\ buffer_size_after_limit' = Max({0, total_bytes_read - limit})
      /\ buffer_end' = buffer_end + buffer_size_after_limit
                         - Max({0, total_bytes_read - limit})
  BY <1>1, <1>2 DEF LimitBuffer
<1>4. BackupBytes' = BackupBytes
  BY <1>1, <1>2, <1>3 DEF Window, BackupBytes, BufferSize
<1>5. /\ buffer_size_after_limit' = IF total_bytes_read > limit
                                      THEN total_bytes_read - limit ELSE 0
      /\ buffer_end' = buffer_end + buffer_size_after_limit - buffer_size_after_limit'
  BY <1>1, <1>2, <1>3
<1>6. buffer <= buffer_end' /\ buffer_end' \in Int /\ buffer_size_after_limit' \in Nat
  BY <1>1, <1>5 DEF CurrentPosition, BufferSize, Window
<1>7. UNCHANGED <<size, block, position, last_returned_size, buffer, total_bytes_read,
                  overflow_bytes>>
  BY DEF array, input
<1> HIDE DEF BackupBytes
<1> QED
  BY <1>1, <1>4, <1>5, <1>6, <1>7 DEF Window

LEMMA SkipBehindKeeps ==
  ASSUME Window, NEW n \in Counts, SkipBehind(n)
  PROVE  /\ Window' /\ (position >= size => position' >= size')
         /\ answer' \in {Failed("skip", n), Served("skip", n, <<>>)}
         /\ call' = "none" /\ start' = 0 /\ left' = 0 /\ got' = <<>>
<1> USE StreamAssumption
<1> DEFINE rest  == n - BufferSize
           until == current_limit - total_bytes_read
<1>1. /\ rest \in Nat \ {0} /\ until \in Nat
      /\ buffer_size_after_limit = 0 /\ buffer_end' = NULL /\ buffer' = NULL
      /\ UNCHANGED <<array, bounds, buffer_size_after_limit, overflow_bytes>>
  BY DEF SkipBehind, Window, BufferSize
<1>2. ASSUME NEW m \in Nat \ {0}, SkipInput(m), total_bytes_read' = total_bytes_read + m,
             m <= until
      PROVE  Window' /\ (position >= size => position' >= size')
  BY <1>1, <1>2 DEF SkipInput, Window, array, bounds, BufferSize, BackupBytes, NULL
<1>3. CASE until < rest
  <2>1. Max({total_bytes_read, current_limit}) = total_bytes_read + until
    BY <1>1, MaxPair DEF Window
  <2>2. CASE until > 0
    <3>1. SkipInput(until) /\ total_bytes_read' = total_bytes_read + until
      BY <1>1, <1>3, <2>1, <2>2, Zenon DEF SkipBehind
    <3>2. Window' /\ (position >= size => position' >= size')
      BY <1>1, <1>2, <2>2, <3>1
    <3> QED
      BY <1>3, <3>2 DEF SkipBehind, Return
  <2>3. CASE until = 0
    <3>1. UNCHANGED input /\ total_bytes_read' = total_bytes_read
      BY <1>1, <1>3, <2>1, <2>3 DEF SkipBehind, Window
    <3> QED
      BY <1>1, <1>3, <3>1
      DEF SkipBehind, Return, Window, array, bounds, input, BufferSize, BackupBytes, NULL
  <2> QED
    BY <1>1, <2>2, <2>3
<1>4. CASE ~(until < rest)
  BY <1>1, <1>2, <1>4 DEF SkipBehind, Return
<1> QED
  BY <1>3, <1>4

-----------------------------------------------------------------------------
(* The steps that leave the limits alone keep Nested; those that return    *)
(* have an answer, and nothing is being read any more.                     *)
LEMMA BoundsKeep == Nested /\ UNCHANGED bounds => Nested'
BY DEF Nested, bounds

LEMMA ServedKeeps ==
  ASSUME NEW what \in {"read", "varint", "skip", "peek"}, NEW n \in Int,
         NEW bytes \in Seq(Nat), answer' = Served(what, n, bytes),
         start' = 0, left' = 0, got' = <<>>
  PROVE  Answered'
BY EmptySeq DEF Served, Answered

LEMMA FailedKeeps ==
  ASSUME NEW what \in {"read", "varint", "skip", "peek"}, NEW n \in Int,
         answer' = Failed(what, n), start' = 0, left' = 0, got' = <<>>
  PROVE  Answered'
<1>1. <<>> \in Seq(Nat)
  BY EmptySeq
<1> QED
  BY <1>1 DEF Failed, Answered

LEMMA MoreKeeps ==
  more \in [1..size -> BOOLEAN] /\ UNCHANGED array => (more \in [1..size -> BOOLEAN])'
BY DEF array

LEMMA ConstructKeeps == IInv /\ Construct => IInv'
<1> SUFFICES ASSUME IInv, Construct PROVE IInv'
  OBVIOUS
<1>1. Window' /\ (block = size => position' >= size')
  BY RefreshKeeps DEF IInv, Progress, Construct
<1>2. UNCHANGED <<array, bounds, asked, answer>> /\ call' = "none"
  BY DEF Construct
<1> QED
  BY <1>1, <1>2, BoundsKeep, MoreKeeps DEF IInv, Progress, Answered, array, asked

LEMMA CurrentIsNat == Window => CurrentPosition \in Nat
BY DEF Window, CurrentPosition, BufferSize, BackupBytes

LEMMA BeginKeeps ==
  ASSUME IInv, Idle, NEW what \in {"read", "varint"}, NEW n \in Nat, Begin(what, n)
  PROVE  IInv'
<1>1. Window' /\ Nested'
  BY DEF IInv, Begin, Window, Nested, array, input, window, bounds, BackupBytes, BufferSize
<1>2. Progress'
  BY DEF IInv, Idle, Begin, Progress, array, input
<1>3. Answered'
  BY CurrentIsNat DEF IInv, Begin, Answered
<1> QED
  BY <1>1, <1>2, <1>3, MoreKeeps DEF IInv, Begin

(* A call that returns at once, or goes on, without a move of the stream.  *)
LEMMA StaysKeeps ==
  ASSUME IInv, call \in {"none", "read", "varint"}, call' \in {"none", "read", "varint"},
         UNCHANGED <<array, input, window, bounds>>, Answered'
  PROVE  IInv'
<1>1. Window' /\ Nested'
  BY DEF IInv, Window, Nested, array, input, window, bounds, BackupBytes, BufferSize
<1>2. Progress'
  BY DEF IInv, Progress, array, input
<1> QED
  BY <1>1, <1>2, MoreKeeps DEF IInv

(* A call that moves the stream, forward.                                  *)
LEMMA MovesKeeps ==
  ASSUME IInv, call \in {"none", "read", "varint"}, call' \in {"none", "read", "varint"},
         Window', position >= size => position' >= size',
         UNCHANGED <<array, bounds>>, Answered'
  PROVE  IInv'
<1>1. Progress'
  BY DEF IInv, Progress, array
<1> QED
  BY <1>1, BoundsKeep, MoreKeeps DEF IInv

LEMMA ReadKeeps == ASSUME IInv, NEW n \in Counts, Read(n) PROVE IInv'
<1> USE StreamAssumption
<1>1. CASE n < 0
  <2>1. /\ call = "none" /\ call' = "none" /\ answer' = Failed("read", n)
        /\ start' = 0 /\ left' = 0 /\ got' = <<>>
        /\ UNCHANGED <<array, input, window, bounds>>
    BY <1>1 DEF Read, Return, Idle
  <2>2. n \in Int /\ <<>> \in Seq(Nat)
    BY EmptySeq
  <2>3. Answered'
    BY <2>1, <2>2, FailedKeeps
  <2> QED
    BY <2>1, <2>3, StaysKeeps
<1>2. CASE ~(n < 0)
  BY <1>2, BeginKeeps DEF Read
<1> QED
  BY <1>1, <1>2

LEMMA ReadAcrossKeeps == IInv /\ ReadAcross => IInv'
<1> SUFFICES ASSUME IInv, ReadAcross PROVE IInv'
  OBVIOUS
<1>1. Window' /\ (position >= size => position' >= size')
  <2>1. Window' /\ position' >= position
    BY RefreshKeeps DEF IInv, ReadAcross
  <2> QED
    <3>1. size \in Int /\ position \in Int /\ position' \in Int /\ size' = size
      BY <2>1, StreamAssumption DEF IInv, Window, ReadAcross, array
    <3> QED
      BY <2>1, <3>1
<1>2. CASE Refreshable
  <2>1. /\ got' = got \o Span(buffer, BufferSize)
        /\ left' = left - BufferSize /\ UNCHANGED <<call, start, answer>>
    BY <1>2 DEF ReadAcross
  <2>2. BufferSize \in Nat /\ buffer \in Nat /\ BufferSize < left
    BY DEF IInv, Window, BufferSize, ReadAcross
  <2>3. got' \in Seq(Nat)
    BY <2>1, <2>2, SpanIsSeq, ConcatProperties DEF IInv, Answered
  <2>4. Answered'
    BY <2>1, <2>2, <2>3 DEF IInv, Answered
  <2> QED
    BY <1>1, <2>1, <2>4, MovesKeeps DEF ReadAcross
<1>3. CASE ~Refreshable
  <2>1. /\ call' = "none" /\ answer' = Failed("read", Len(got) + left)
        /\ start' = 0 /\ left' = 0 /\ got' = <<>>
    BY <1>3 DEF ReadAcross, Return
  <2>2. Len(got) + left \in Int
    BY LenProperties DEF IInv, Answered
  <2>3. Answered'
    BY <2>1, <2>2, FailedKeeps, EmptySeq
  <2> QED
    BY <1>1, <2>1, <2>3, MovesKeeps DEF ReadAcross
<1> QED
  BY <1>2, <1>3

LEMMA ReadInBufferKeeps == IInv /\ ReadInBuffer => IInv'
<1> SUFFICES ASSUME IInv, ReadInBuffer PROVE IInv'
  OBVIOUS
<1>1. left \in 0..BufferSize /\ left \in Nat /\ buffer \in Nat
  BY DEF IInv, Answered, Window, ReadInBuffer, BufferSize
<1>2. Window' /\ position' = position /\ size' = size
  BY <1>1, AdvanceKeeps DEF IInv, ReadInBuffer, array
<1>3. got \o Span(buffer, left) \in Seq(Nat) /\ Len(got) + left \in Int
  BY <1>1, SpanIsSeq, ConcatProperties, LenProperties DEF IInv, Answered
<1>4. /\ call' = "none"
      /\ answer' = Served("read", Len(got) + left, got \o Span(buffer, left))
      /\ start' = 0 /\ left' = 0 /\ got' = <<>>
  BY DEF ReadInBuffer, Return
<1>5. Answered'
  BY <1>3, <1>4, ServedKeeps
<1> QED
  BY <1>2, <1>4, <1>5, MovesKeeps DEF ReadInBuffer

LEMMA ReadVarintKeeps == IInv /\ ReadVarint => IInv'
BY StreamAssumption, BeginKeeps DEF ReadVarint

LEMMA ReadVarintFromArrayKeeps == IInv /\ ReadVarintFromArray => IInv'
<1> SUFFICES ASSUME IInv, ReadVarintFromArray PROVE IInv'
  OBVIOUS
<1> USE StreamAssumption
<1> DEFINE Ends(k) == (\A i \in 1..k - 1 : more[buffer + i]) /\ ~more[buffer + k]
<1>0. /\ Idle /\ EndsInBuffer /\ UNCHANGED <<array, bounds>>
      /\ \/ \E k \in 1..MaxVarintBytes :
              Ends(k) /\ Advance(k) /\ Return(Served("varint", 0, Span(buffer, k)))
         \/ /\ \A k \in 1..MaxVarintBytes : ~Ends(k)
            /\ Return(Failed("varint", 0)) /\ UNCHANGED <<input, window>>
  BY DEF ReadVarintFromArray
<1>1. CASE \E k \in 1..MaxVarintBytes :
              Ends(k) /\ Advance(k) /\ Return(Served("varint", 0, Span(buffer, k)))
  <2>1. PICK k \in 1..MaxVarintBytes :
              Ends(k) /\ Advance(k) /\ Return(Served("varint", 0, Span(buffer, k)))
    BY <1>1
  <2>2. buffer \in Nat /\ buffer_end \in Nat /\ k \in Nat \ {0}
    BY DEF IInv, Window
  <2>3. k <= BufferSize
    <3>1. CASE BufferSize >= MaxVarintBytes
      BY <2>2, <3>1 DEF BufferSize
    <3>2. CASE BufferSize > 0 /\ ~more[buffer_end]
      <4> SUFFICES ASSUME k > BufferSize PROVE FALSE
        BY <2>2 DEF BufferSize
      <4>1. BufferSize \in 1..k - 1 /\ buffer + BufferSize = buffer_end
        BY <2>2, <3>2 DEF BufferSize
      <4> QED
        BY <2>1, <3>2, <4>1
    <3> QED
      BY <1>0, <3>1, <3>2 DEF EndsInBuffer
  <2>4. k \in 0..BufferSize
    BY <2>2, <2>3 DEF BufferSize
  <2>5. Window' /\ position' = position /\ size' = size
    BY <1>0, <2>1, <2>4, AdvanceKeeps DEF IInv, array
  <2>6. /\ call' = "none" /\ answer' = Served("varint", 0, Span(buffer, k))
        /\ start' = 0 /\ left' = 0 /\ got' = <<>>
    BY <2>1 DEF Return
  <2>7. Span(buffer, k) \in Seq(Nat)
    BY <2>2, SpanIsSeq
  <2>8. Answered'
    BY <2>6, <2>7, ServedKeeps
  <2> QED
    BY <1>0, <2>5, <2>6, <2>8, MovesKeeps DEF Idle
<1>2. CASE Return(Failed("varint", 0)) /\ UNCHANGED <<input, window>>
  <2>1. /\ call' = "none" /\ answer' = Failed("varint", 0)
        /\ start' = 0 /\ left' = 0 /\ got' = <<>> /\ <<>> \in Seq(Nat)
    BY <1>2, EmptySeq DEF Return
  <2>2. Answered'
    BY <2>1, FailedKeeps
  <2> QED
    BY <1>0, <1>2, <2>1, <2>2, StaysKeeps DEF Idle
<1> QED
  BY <1>0, <1>1, <1>2

LEMMA VarintTooLongKeeps == IInv /\ VarintTooLong => IInv'
<1> SUFFICES ASSUME IInv, VarintTooLong PROVE IInv'
  OBVIOUS
<1>1. /\ call' = "none" /\ answer' = Failed("varint", 0)
      /\ start' = 0 /\ left' = 0 /\ got' = <<>> /\ <<>> \in Seq(Nat)
  BY EmptySeq DEF VarintTooLong, Return
<1>2. Answered'
  BY <1>1, FailedKeeps
<1> QED
  BY <1>1, <1>2, StaysKeeps DEF VarintTooLong

LEMMA VarintAcrossKeeps == IInv /\ VarintAcross => IInv'
<1> SUFFICES ASSUME IInv, VarintAcross PROVE IInv'
  OBVIOUS
<1>1. Window' /\ (position >= size => position' >= size')
  <2>1. Window' /\ position' >= position
    BY RefreshKeeps DEF IInv, VarintAcross
  <2>2. size \in Int /\ position \in Int /\ position' \in Int /\ size' = size
    BY <2>1, StreamAssumption DEF IInv, Window, VarintAcross, array
  <2> QED
    BY <2>1, <2>2
<1>2. CASE Refreshable
  <2>1. UNCHANGED <<call, start, left, got, answer>>
    BY <1>2 DEF VarintAcross, asked
  <2>2. Answered'
    BY <2>1 DEF IInv, Answered
  <2> QED
    BY <1>1, <2>1, <2>2, MovesKeeps DEF VarintAcross
<1>3. CASE ~Refreshable
  <2>1. /\ call' = "none" /\ answer' = Failed("varint", 0)
        /\ start' = 0 /\ left' = 0 /\ got' = <<>> /\ <<>> \in Seq(Nat)
    BY <1>3, EmptySeq DEF VarintAcross, Return
  <2>2. Answered'
    BY <2>1, FailedKeeps
  <2> QED
    BY <1>1, <2>1, <2>2, MovesKeeps DEF VarintAcross
<1> QED
  BY <1>2, <1>3

LEMMA VarintByteKeeps == IInv /\ VarintByte => IInv'
<1> SUFFICES ASSUME IInv, VarintByte PROVE IInv'
  OBVIOUS
<1>1. 1 \in 0..BufferSize /\ buffer \in Nat /\ left \in Nat /\ left > 0
  BY DEF IInv, Window, Answered, VarintByte, BufferSize
<1>2. Window' /\ position' = position /\ size' = size
  BY <1>1, AdvanceKeeps DEF IInv, VarintByte, array
<1>3. Append(got, buffer) \in Seq(Nat)
  BY <1>1, AppendProperties DEF IInv, Answered
<1>4. CASE more[buffer + 1]
  <2>1. got' = Append(got, buffer) /\ left' = left - 1 /\ UNCHANGED <<call, start, answer>>
    BY <1>4 DEF VarintByte
  <2>2. Answered'
    BY <1>1, <1>3, <2>1 DEF IInv, Answered
  <2> QED
    BY <1>2, <2>1, <2>2, MovesKeeps DEF VarintByte
<1>5. CASE ~more[buffer + 1]
  <2>1. /\ call' = "none" /\ answer' = Served("varint", 0, Append(got, buffer))
        /\ start' = 0 /\ left' = 0 /\ got' = <<>>
    BY <1>5 DEF VarintByte, Return
  <2>2. Answered'
    <3>1. \A bytes \in Seq(Nat) : got' = <<>> /\ answer' = Served("varint", 0, bytes) => Answered'
      BY <2>1, ServedKeeps
    <3> QED
      BY <1>3, <2>1, <3>1
  <2> QED
    BY <1>2, <2>1, <2>2, MovesKeeps DEF VarintByte
<1> QED
  BY <1>4, <1>5

LEMMA SkipKeeps == ASSUME IInv, NEW n \in Counts, Skip(n) PROVE IInv'
<1> USE StreamAssumption
<1>0. n \in Int /\ <<>> \in Seq(Nat) /\ BufferSize \in Nat
  BY EmptySeq DEF IInv, Window, BufferSize
<1>1. CASE SkipRefused(n)
  <2>1. /\ call = "none" /\ call' = "none" /\ answer' = Failed("skip", n)
        /\ start' = 0 /\ left' = 0 /\ got' = <<>>
        /\ UNCHANGED <<array, input, window, bounds>>
    BY <1>1 DEF SkipRefused, Return, Idle
  <2>2. Answered'
    BY <1>0, <2>1, FailedKeeps
  <2> QED
    BY <2>1, <2>2, StaysKeeps
<1>2. CASE SkipInBuffer(n)
  <2>1. /\ call = "none" /\ call' = "none" /\ answer' = Served("skip", n, <<>>)
        /\ start' = 0 /\ left' = 0 /\ got' = <<>> /\ UNCHANGED <<array, bounds>>
    BY <1>2 DEF SkipInBuffer, Return, Idle
  <2>2. Window' /\ position' = position /\ size' = size
    BY <1>2, AdvanceKeeps DEF IInv, SkipInBuffer, array
  <2>3. Answered'
    BY <1>0, <2>1, ServedKeeps
  <2> QED
    BY <2>1, <2>2, <2>3, MovesKeeps
<1>3. CASE SkipToLimit(n)
  <2>1. /\ call = "none" /\ call' = "none" /\ answer' = Failed("skip", n)
        /\ start' = 0 /\ left' = 0 /\ got' = <<>> /\ UNCHANGED <<array, bounds>>
    BY <1>3 DEF SkipToLimit, Return, Idle
  <2>2. Window' /\ position' = position /\ size' = size
    BY <1>0, <1>3, AdvanceKeeps DEF IInv, SkipToLimit, array
  <2>3. Answered'
    BY <1>0, <2>1, FailedKeeps
  <2> QED
    BY <2>1, <2>2, <2>3, MovesKeeps
<1>4. CASE SkipBehind(n)
  <2>1. /\ Window' /\ (position >= size => position' >= size')
        /\ answer' \in {Failed("skip", n), Served("skip", n, <<>>)}
        /\ call' = "none" /\ start' = 0 /\ left' = 0 /\ got' = <<>>
    BY <1>4, SkipBehindKeeps DEF IInv
  <2>2. Answered'
    BY <1>0, <2>1, FailedKeeps, ServedKeeps
  <2> QED
    BY <1>4, <2>1, <2>2, MovesKeeps DEF SkipBehind, Idle
<1> QED
  BY <1>1, <1>2, <1>3, <1>4 DEF Skip

LEMMA GetDirectBufferPointerKeeps == IInv /\ GetDirectBufferPointer => IInv'
<1> SUFFICES ASSUME IInv, GetDirectBufferPointer PROVE IInv'
  OBVIOUS
<1>1. Window' /\ (position >= size => position' >= size')
  <2>1. CASE BufferSize > 0
    BY <2>1 DEF GetDirectBufferPointer, IInv, Window, array, input, window, bounds,
                BackupBytes, BufferSize
  <2>2. CASE ~(BufferSize > 0)
    <3>1. Window' /\ position' >= position
      BY <2>2, RefreshKeeps DEF IInv, GetDirectBufferPointer
    <3>2. size \in Int /\ position \in Int /\ position' \in Int /\ size' = size
      BY <3>1, StreamAssumption DEF IInv, Window, GetDirectBufferPointer, array
    <3> QED
      BY <3>1, <3>2
  <2> QED
    BY <2>1, <2>2
<1> DEFINE bytes == Span(buffer', buffer_end' - buffer')
<1>2. bytes \in Seq(Nat)
  <2>1. buffer' \in Nat /\ buffer_end' - buffer' \in Nat
    <3>1. buffer' \in Nat /\ buffer_end' \in Nat /\ buffer' <= buffer_end'
      BY <1>1 DEF Window
    <3>2. \A x, y \in Nat : x <= y => y - x \in Nat
      OBVIOUS
    <3> QED
      BY <3>1, <3>2
  <2> QED
    BY <2>1, SpanIsSeq
<1>3. /\ call = "none" /\ call' = "none" /\ start' = 0 /\ left' = 0 /\ got' = <<>>
      /\ answer' = Served("peek", 0, bytes) \/ answer' = Failed("peek", 0)
      /\ UNCHANGED <<array, bounds>>
  BY DEF GetDirectBufferPointer, Return, Idle
<1> HIDE DEF bytes
<1>4. Answered'
  BY <1>2, <1>3, ServedKeeps, FailedKeeps
<1> QED
  BY <1>1, <1>3, <1>4, MovesKeeps

LEMMA PushLimitKeeps == ASSUME IInv, NEW n \in Counts, PushLimit(n) PROVE IInv'
<1> USE StreamAssumption
<1> DEFINE wanted == IF n >= 0 /\ n <= IntMax - CurrentPosition
                       THEN CurrentPosition + n ELSE IntMax
           limit == IF wanted <= current_limit THEN wanted ELSE current_limit
<1>1. /\ CurrentPosition \in Nat /\ CurrentPosition <= current_limit
      /\ current_limit \in 0..IntMax
  BY CurrentIsNat DEF IInv, Window, CurrentPosition, BufferSize
<1>2. wanted \in 0..IntMax /\ CurrentPosition <= wanted
  BY <1>1
<1>3. Min({wanted, current_limit}) = limit
  BY <1>1, <1>2, MinPair
<1>4. limit \in 0..IntMax /\ CurrentPosition <= limit /\ limit <= current_limit
  BY <1>1, <1>2
<1> HIDE DEF wanted
<1>5. /\ Idle /\ current_limit' = Min({wanted, current_limit})
      /\ old_limits' = Append(old_limits, current_limit)
      /\ LimitBuffer(buffer_end + buffer_size_after_limit, total_bytes_read, current_limit')
      /\ UNCHANGED <<array, input, buffer, total_bytes_read, overflow_bytes, call, asked,
                     answer>>
  BY DEF PushLimit, wanted
<1> HIDE DEF limit
<1>6. current_limit' = limit
  BY <1>3, <1>5
<1>7. Window' /\ BackupBytes' = BackupBytes
  BY <1>4, <1>5, <1>6, LimitKeeps DEF IInv
<1>8. Nested'
  BY <1>1, <1>4, <1>5, <1>6 DEF IInv, Nested
<1>9. Progress' /\ Answered'
  BY <1>5 DEF IInv, Progress, Answered, Idle, array, input, asked
<1> QED
  BY <1>5, <1>7, <1>8, <1>9, MoreKeeps DEF IInv

LEMMA PopLimitKeeps == IInv /\ PopLimit => IInv'
<1> SUFFICES ASSUME IInv, PopLimit PROVE IInv'
  OBVIOUS
<1> USE StreamAssumption
<1> DEFINE last == old_limits[Len(old_limits)]
<1>1. /\ Idle /\ old_limits # <<>>
      /\ current_limit' = last /\ old_limits' = SubSeq(old_limits, 1, Len(old_limits) - 1)
      /\ LimitBuffer(buffer_end + buffer_size_after_limit, total_bytes_read, current_limit')
      /\ UNCHANGED <<array, input, buffer, total_bytes_read, overflow_bytes, call, asked,
                     answer>>
  BY DEF PopLimit, Last, Front
<1>2. Len(old_limits) \in Nat \ {0} /\ last \in 0..IntMax /\ current_limit <= last
  BY <1>1, EmptySeq, LenProperties DEF IInv, Nested
<1>3. CurrentPosition \in Int /\ current_limit \in Int /\ CurrentPosition <= current_limit
  BY CurrentIsNat DEF IInv, Window, CurrentPosition, BufferSize
<1>4. CurrentPosition <= last
  BY <1>2, <1>3
<1> HIDE DEF last
<1>5. Window' /\ BackupBytes' = BackupBytes
  BY <1>1, <1>2, <1>4, LimitKeeps DEF IInv
<1>6. Nested'
  <2> DEFINE n == Len(old_limits) - 1
  <2>0. n \in Nat /\ \A i \in 1..n : i \in 1..Len(old_limits) /\ old_limits[i] \in 0..IntMax
    BY <1>2, LenProperties DEF IInv, Nested
  <2>1. /\ old_limits' \in Seq(0..IntMax) /\ Len(old_limits') = n
        /\ \A i \in 1..n : old_limits'[i] = old_limits[i]
    <3>1. old_limits' = SubSeq(old_limits, 1, n)
      BY <1>1
    <3> HIDE DEF n
    <3> QED
      BY <2>0, <3>1, SubSeqProperties
  <2>2. \A i \in 1..n : last <= old_limits[i]
    <3>1. \A i \in 1..n : i < Len(old_limits) /\ Len(old_limits) \in 1..Len(old_limits)
      BY <1>2
    <3> QED
      BY <2>0, <3>1 DEF IInv, Nested, last
  <2>3. \A i, j \in 1..n : i < j => old_limits[j] <= old_limits[i]
    BY <2>0, Zenon DEF IInv, Nested
  <2> HIDE DEF n
  <2> QED
    BY <1>1, <2>1, <2>2, <2>3 DEF Nested
<1>7. Progress' /\ Answered'
  BY <1>1 DEF IInv, Progress, Answered, Idle, array, input, asked
<1> QED
  BY <1>1, <1>5, <1>6, <1>7, MoreKeeps DEF IInv

LEMMA DestroyKeeps == IInv /\ Destroy => IInv'
<1> SUFFICES ASSUME IInv, Destroy PROVE IInv'
  OBVIOUS
<1> USE StreamAssumption
<1>1. CASE BackupBytes > 0
  <2>1. /\ buffer + BackupBytes = position /\ BackupBytes <= last_returned_size
        /\ total_bytes_read = position
        /\ BackupBytes = buffer_end - buffer + buffer_size_after_limit
    BY <1>1 DEF IInv, Window, BackupBytes, BufferSize
  <2>2. BackupBytes \in Nat /\ last_returned_size \in Nat
    BY <1>1 DEF IInv, Window, BackupBytes, BufferSize
  <2>3. MayBackUp(BackupBytes)
    BY <1>1, <2>1, <2>2 DEF MayBackUp
  <2>4. /\ call' = "gone" /\ position' = position - BackupBytes /\ last_returned_size' = 0
        /\ total_bytes_read' = total_bytes_read - (BufferSize + buffer_size_after_limit)
        /\ buffer_end' = buffer /\ buffer_size_after_limit' = 0 /\ overflow_bytes' = 0
        /\ buffer' = buffer /\ UNCHANGED <<array, bounds, asked, answer>>
    BY <1>1, <2>3 DEF Destroy
  <2>5. position' = buffer /\ total_bytes_read' = buffer /\ buffer \in Nat
    BY <2>1, <2>2, <2>4 DEF IInv, Window, BufferSize
  <2>6. BackupBytes' = 0
    BY <2>4, <2>5 DEF BackupBytes, BufferSize
  <2>7. Window'
    BY <2>1, <2>2, <2>4, <2>5, <2>6 DEF IInv, Window, array, bounds, BufferSize
  <2>8. Progress' /\ Answered'
    BY <2>4, <2>6 DEF Progress, IInv, Answered, asked
  <2> QED
    BY <2>4, <2>7, <2>8, BoundsKeep, MoreKeeps DEF IInv
<1>2. CASE ~(BackupBytes > 0)
  <2>1. call' = "gone" /\ UNCHANGED <<array, input, window, bounds, asked, answer>>
    BY <1>2 DEF Destroy
  <2>2. BackupBytes' = BackupBytes /\ Window'
    BY <2>1 DEF IInv, Window, array, input, window, bounds, BackupBytes, BufferSize
  <2>3. BackupBytes = 0
    BY <1>2 DEF IInv, Window, BackupBytes, BufferSize
  <2>4. Progress' /\ Answered'
    BY <2>1, <2>2, <2>3 DEF IInv, Progress, Answered, asked
  <2> QED
    BY <2>1, <2>2, <2>4, BoundsKeep, MoreKeeps DEF IInv
<1> QED
  BY <1>1, <1>2

LEMMA NextKeeps == IInv /\ [Next]_vars => IInv'
<1> SUFFICES ASSUME IInv, [Next]_vars PROVE IInv'
  OBVIOUS
<1>1. CASE Gone \/ UNCHANGED vars
  BY <1>1 DEF Gone, vars, array, input, window, bounds, asked, IInv, Window, Nested,
              Progress, Fresh, Answered, BackupBytes, BufferSize
<1> QED
  BY <1>1, ConstructKeeps, ReadKeeps, ReadAcrossKeeps, ReadInBufferKeeps, ReadVarintKeeps,
     ReadVarintFromArrayKeeps, VarintTooLongKeeps, VarintAcrossKeeps, VarintByteKeeps,
     SkipKeeps, GetDirectBufferPointerKeeps, PushLimitKeeps, PopLimitKeeps, DestroyKeeps
  DEF Next

LEMMA Inductive == Spec => []IInv
BY InitIInv, NextKeeps, PTL DEF Spec

-----------------------------------------------------------------------------
(* The types of the stream's variables, and the buffer lies where the      *)
(* array's position says, for arrays and calls of any size.                *)
THEOREM StreamTypeCorrect == Spec => []TypeOK
<1>1. IInv => TypeOK
  BY StreamAssumption DEF IInv, Window, Nested, Progress, Answered, TypeOK
<1> QED
  BY <1>1, Inductive, PTL

(* No GOOGLE_CHECK of ArrayInputStream::BackUp fails in the destructor,    *)
(* whatever calls were made before.                                        *)
THEOREM DestructorNeverAborts == Spec => []NeverAborts
<1>1. IInv => NeverAborts
  BY DEF IInv, Progress, NeverAborts
<1> QED
  BY <1>1, Inductive, PTL

(* The destructor leaves the array at the first byte that was not read.    *)
THEOREM DestructorBacksUp == Spec => []LeavesFirstUnread
<1>1. IInv => LeavesFirstUnread
  BY StreamAssumption
  DEF IInv, Progress, Window, LeavesFirstUnread, CurrentPosition, BackupBytes, BufferSize
<1> QED
  BY <1>1, Inductive, PTL

(* Over an array of one block, of any length, what the buffer holds is all *)
(* that remains up to the end and the limit.                               *)
THEOREM RemainingLengthIsAll == Spec => []OneBlockIsAll
<1>1. IInv => OneBlockIsAll
  <2> SUFFICES ASSUME IInv, Idle, block = size
               PROVE  BufferSize = Max({0, Min({current_limit, size}) - CurrentPosition})
    BY DEF OneBlockIsAll
  <2> DEFINE nearest == IF current_limit <= size THEN current_limit ELSE size
  <2>1. size \in Int /\ current_limit \in Int /\ CurrentPosition \in Nat
    BY StreamAssumption, CurrentIsNat DEF IInv, Window
  <2>2. Min({current_limit, size}) = nearest
    BY <2>1, MinPair
  <2>3. nearest - CurrentPosition \in Int
    BY <2>1
  <2>4. position >= size
    BY DEF IInv, Progress, Idle
  <2>5. BufferSize = IF nearest - CurrentPosition > 0 THEN nearest - CurrentPosition ELSE 0
    BY <2>1, <2>4, StreamAssumption DEF IInv, Window, BackupBytes, BufferSize, CurrentPosition
  <2> HIDE DEF nearest
  <2> QED
    BY <2>2, <2>3, <2>5, MaxZero
<1> QED
  BY <1>1, Inductive, PTL
-----------------------------------------------------------------------------
(* The refinement: CodedStream implements ByteCursor.  Every array, cut    *)
(* into blocks of any size, with any calls and limits, is a cursor on its  *)
(* bytes to those who parse with it.                                       *)
Reading == call \in {"read", "varint"}

(* What a read has copied are the bytes from where it began to the current *)
(* position, and what it still needs makes up what it was asked for.  The  *)
(* bytes a varint has passed all say that it goes on.                      *)
Copied ==
    Reading =>
      /\ start + Len(got) = CurrentPosition
      /\ got = Span(start, Len(got))
      /\ Len(got) > 0 => CurrentPosition <= size
      /\ call = "read" => Len(got) + left \in Counts
      /\ call = "varint" => /\ Len(got) + left = MaxVarintBytes
                            /\ \A i \in 1..Len(got) : more[start + i]

CInv == IInv /\ Copied

(* How far the buffer reaches.                                             *)
Reach == CurrentPosition + BufferSize

-----------------------------------------------------------------------------
LEMMA SpanLength == \A from \in Int, n \in Nat : /\ Span(from, n) \in Seq(Int)
                                                 /\ Len(Span(from, n)) = n
                                                 /\ \A i \in 1..n : Span(from, n)[i] = from + i - 1
<1> SUFFICES ASSUME NEW from \in Int, NEW n \in Nat
             PROVE  /\ Span(from, n) \in Seq(Int) /\ Len(Span(from, n)) = n
                    /\ \A i \in 1..n : Span(from, n)[i] = from + i - 1
  OBVIOUS
<1>1. Span(from, n) \in [1..n -> Int]
  BY DEF Span
<1>2. \A i \in 1..n : Span(from, n)[i] = from + i - 1
  BY DEF Span
<1> QED
  BY <1>1, <1>2

LEMMA JoinedSeq ==
  ASSUME NEW s \in Seq(Int), NEW t \in Seq(Int), NEW u \in Seq(Int),
         Len(u) = Len(s) + Len(t), \A i \in 1..Len(s) : u[i] = s[i],
         \A i \in 1..Len(t) : u[Len(s) + i] = t[i]
  PROVE  s \o t = u
<1>1. Len(s) \in Nat /\ Len(t) \in Nat
  BY LenProperties
<1>2. /\ s \o t \in Seq(Int) /\ Len(s \o t) = Len(s) + Len(t)
      /\ \A i \in 1..Len(s) + Len(t) :
           (s \o t)[i] = IF i <= Len(s) THEN s[i] ELSE t[i - Len(s)]
  BY ConcatProperties
<1>3. ASSUME NEW i \in 1..Len(s) + Len(t) PROVE (s \o t)[i] = u[i]
  <2>1. CASE i <= Len(s)
    BY <1>1, <1>2, <2>1
  <2>2. CASE i > Len(s)
    <3>1. i - Len(s) \in 1..Len(t) /\ Len(s) + (i - Len(s)) = i
      BY <1>1, <2>2
    <3>2. u[Len(s) + (i - Len(s))] = t[i - Len(s)]
      BY <3>1
    <3> QED
      BY <1>2, <2>2, <3>1, <3>2, <1>1
  <2> QED
    BY <1>1, <2>1, <2>2
<1> QED
  BY <1>2, <1>3, SeqEqual

(* Neighbouring spans together are a span.                                 *)
LEMMA SpansJoin ==
  ASSUME NEW from \in Nat, NEW m \in Nat, NEW n \in Nat
  PROVE  Span(from, m) \o Span(from + m, n) = Span(from, m + n)
<1> DEFINE s == Span(from, m)
           t == Span(from + m, n)
           u == Span(from, m + n)
<1>1. s \in Seq(Int) /\ Len(s) = m /\ \A i \in 1..m : s[i] = from + i - 1
  BY SpanLength
<1>2. t \in Seq(Int) /\ Len(t) = n /\ \A i \in 1..n : t[i] = from + m + i - 1
  BY SpanLength
<1>3. u \in Seq(Int) /\ Len(u) = m + n /\ \A i \in 1..m + n : u[i] = from + i - 1
  BY SpanLength
<1> HIDE DEF s, t, u
<1>4. \A i \in 1..m : u[i] = s[i]
  BY <1>1, <1>3
<1>5. \A i \in 1..n : u[m + i] = t[i]
  <2> TAKE i \in 1..n
  <2>1. m + i \in 1..m + n /\ from + (m + i) - 1 = from + m + i - 1
    OBVIOUS
  <2> QED
    BY <1>2, <1>3, <2>1
<1>6. s \o t = u
  BY <1>1, <1>2, <1>3, <1>4, <1>5, JoinedSeq
<1> QED
  BY <1>6 DEF s, t, u

LEMMA SpanGrows ==
  ASSUME NEW from \in Nat, NEW m \in Nat
  PROVE  Append(Span(from, m), from + m) = Span(from, m + 1)
<1>1. /\ Span(from, m) \in Seq(Int) /\ Len(Span(from, m)) = m
      /\ \A i \in 1..m : Span(from, m)[i] = from + i - 1
  BY SpanLength
<1>2. /\ Span(from, m + 1) \in Seq(Int) /\ Len(Span(from, m + 1)) = m + 1
      /\ \A i \in 1..m + 1 : Span(from, m + 1)[i] = from + i - 1
  BY SpanLength
<1> DEFINE grown == Append(Span(from, m), from + m)
<1>3. /\ grown \in Seq(Int) /\ Len(grown) = m + 1
      /\ \A i \in 1..m : grown[i] = Span(from, m)[i]
      /\ grown[m + 1] = from + m
  BY <1>1, AppendProperties
<1> HIDE DEF grown
<1>4. \A i \in 1..m + 1 : grown[i] = Span(from, m + 1)[i]
  <2> TAKE i \in 1..m + 1
  <2>1. i \in 1..m \/ i = m + 1
    OBVIOUS
  <2> QED
    BY <1>1, <1>2, <1>3, <2>1
<1>5. grown = Span(from, m + 1)
  BY <1>2, <1>3, <1>4, SeqEqual
<1> QED
  BY <1>5 DEF grown

LEMMA SpanOfNone == ASSUME NEW from \in Int PROVE Span(from, 0) = <<>>
<1>1. Span(from, 0) \in Seq(Int) /\ Len(Span(from, 0)) = 0
  BY SpanLength
<1>2. \A seq \in Seq(Int) : seq # <<>> => Len(seq) \in Nat \ {0}
  BY EmptySeq
<1> QED
  BY <1>1, <1>2

-----------------------------------------------------------------------------
(* The buffer begins at the current position and reaches at most to the    *)
(* limit and the end of the array; where there is nothing to refresh with, *)
(* it reaches one of them.                                                 *)
LEMMA BufferReaches ==
  ASSUME Window
  PROVE  /\ CurrentPosition \in Nat /\ BufferSize \in Nat /\ size \in Int
         /\ current_limit \in Nat /\ Reach <= current_limit
         /\ BufferSize > 0 => buffer = CurrentPosition /\ Reach <= size
         /\ ~Refreshable => Reach >= current_limit \/ Reach >= size
         /\ buffer_size_after_limit > 0 => Reach = current_limit
<1> USE StreamAssumption
<1>1. size \in Int
  BY DEF Window
<1> QED
  BY <1>1 DEF Window, CurrentPosition, BufferSize, BackupBytes, Reach, Refreshable, AtLimit

(* A refresh leaves behind what was in the buffer, and if there is more it *)
(* finds at least a byte.                                                  *)
LEMMA RefreshMoves ==
  ASSUME Window, Refresh, UNCHANGED <<array, bounds>>
  PROVE  /\ CurrentPosition' = Reach
         /\ Refreshable => /\ BufferSize' \in Nat \ {0} /\ buffer' = Reach /\ Reach < size
                           /\ Reach + BufferSize' <= size
                           /\ Reach + BufferSize' <= current_limit
<1> USE StreamAssumption
<1>0. UNCHANGED <<size, block, current_limit>> /\ size \in Int
  BY DEF array, bounds, Window
<1>1. CASE RefreshStops
  BY <1>0, <1>1 DEF RefreshStops, Refreshable, Window, input, BufferSize, CurrentPosition, Reach
<1>2. CASE RefreshEnds
  BY <1>0, <1>2
  DEF RefreshEnds, Refreshable, AtLimit, Window, BufferSize, NULL, CurrentPosition, Reach
<1>3. CASE RefreshGets
  <2> DEFINE chunk == IF block <= size - position THEN block ELSE size - position
  <2>1. /\ total_bytes_read = position /\ position >= 0 /\ position < size
        /\ buffer_size_after_limit = 0 /\ total_bytes_read < current_limit
        /\ position \in Int /\ current_limit \in 0..IntMax
    BY <1>3 DEF RefreshGets, Refreshable, AtLimit, Window
  <2>2. Reach = total_bytes_read
    BY <2>1 DEF Reach, CurrentPosition, Window, BufferSize
  <2>3. Min({block, size - position}) = chunk /\ chunk \in Nat \ {0} /\ position + chunk <= size
    BY <1>0, <2>1, MinPair DEF Window
  <2> HIDE DEF chunk
  <2>4. Min({total_bytes_read + chunk, IntMax}) = position + chunk
    <3>1. total_bytes_read + chunk \in Int /\ IntMax \in Int
      BY <2>1, <2>3
    <3>2. total_bytes_read + chunk <= IntMax
      BY <1>0, <2>1, <2>3 DEF Window
    <3> QED
      BY <2>1, <3>1, <3>2, MinPair
  <2>5. /\ total_bytes_read' = position + chunk /\ buffer' = position
        /\ position + chunk - (total_bytes_read + chunk - (position + chunk)) = position + chunk
    BY <1>3, <2>1, <2>3, <2>4 DEF RefreshGets
  <2>6. LimitBuffer(position + chunk, position + chunk, current_limit)
    BY <1>3, <2>1, <2>3, <2>4, <2>5 DEF RefreshGets
  <2>7. Max({0, position + chunk - current_limit}) =
          IF position + chunk > current_limit THEN position + chunk - current_limit ELSE 0
    BY <2>1, <2>3, MaxZero
  <2>8. /\ buffer_size_after_limit' = Max({0, position + chunk - current_limit})
        /\ buffer_end' = position + chunk - Max({0, position + chunk - current_limit})
    BY <2>1, <2>3, <2>6, <2>7 DEF LimitBuffer
  <2> QED
    <3> DEFINE after == IF position + chunk > current_limit
                          THEN position + chunk - current_limit ELSE 0
    <3>1. /\ buffer_size_after_limit' = after /\ buffer_end' = position + chunk - after
          /\ after \in Nat /\ after < chunk
      BY <2>1, <2>3, <2>7, <2>8
    <3>2. position + chunk - after <= current_limit /\ position + chunk - after <= size
      BY <1>0, <2>1, <2>3
    <3> HIDE DEF after
    <3>3. BufferSize' = chunk - after
      BY <2>1, <2>3, <2>5, <3>1 DEF BufferSize
    <3>4. CurrentPosition' = position
      BY <2>1, <2>3, <2>5, <3>1, <3>3 DEF CurrentPosition
    <3> QED
      BY <1>0, <2>1, <2>2, <2>3, <2>5, <3>1, <3>2, <3>3, <3>4
<1> QED
  BY <1>1, <1>2, <1>3 DEF Refresh

-----------------------------------------------------------------------------
(* The cursor's view of the stream.                                        *)
CursorPos == IF Reading THEN start ELSE CurrentPosition

Nearest == IF current_limit < size THEN current_limit ELSE size

LEMMA CursorIs ==
  ASSUME Window, Nested
  PROVE  /\ Cursor!Limit = current_limit
         /\ Cursor!Left = IF CursorPos < Nearest THEN Nearest - CursorPos ELSE 0
<1>1. Cursor!Limit = current_limit
  <2>1. old_limits \in Seq(0..IntMax) /\ current_limit \in 0..IntMax
    BY DEF Window, Nested
  <2>2. /\ Len(Append(old_limits, current_limit)) = Len(old_limits) + 1
        /\ Append(old_limits, current_limit)[Len(old_limits) + 1] = current_limit
    BY <2>1, AppendProperties
  <2> QED
    BY <2>2 DEF Cursor!Limit
<1>2. Cursor!Smaller(Cursor!Limit, size) = Nearest
  BY <1>1 DEF Cursor!Smaller, Nearest
<1> QED
  BY <1>1, <1>2 DEF Cursor!Left, CursorPos, Reading

(* Bytes inside the buffer can be served; bytes behind it, when there is   *)
(* nothing to refresh with, cannot.                                        *)
LEMMA WithinReach ==
  ASSUME IInv, NEW n \in Nat, CursorPos \in Nat, CursorPos + n <= Reach,
         n > 0 => Reach <= size \/ CursorPos + n <= size
  PROVE  n \in 0..Cursor!Left
<1>1. Cursor!Left = IF CursorPos < Nearest THEN Nearest - CursorPos ELSE 0
  BY CursorIs DEF IInv
<1>2. CursorPos + n <= Nearest \/ n = 0
  BY BufferReaches DEF IInv, Nearest, Reach
<1>3. Nearest \in Int
  BY BufferReaches DEF IInv, Nearest
<1> QED
  BY <1>1, <1>2, <1>3

LEMMA BeyondReach ==
  ASSUME IInv, NEW n \in Nat \ {0}, CursorPos \in Nat, CursorPos + n > Reach,
         Reach >= current_limit \/ Reach >= size
  PROVE  n \notin 0..Cursor!Left
<1>1. Cursor!Left = IF CursorPos < Nearest THEN Nearest - CursorPos ELSE 0
  BY CursorIs DEF IInv
<1>2. CursorPos + n > Nearest /\ Nearest \in Int
  BY BufferReaches DEF IInv, Nearest, Reach
<1> QED
  BY <1>1, <1>2

-----------------------------------------------------------------------------
(* What the cursor sees of a step: nothing, an answer, or a failure.       *)
LEMMA CursorStutters ==
  ASSUME UNCHANGED <<array, bounds, answer>>, CursorPos' = CursorPos
  PROVE  UNCHANGED Cursor!cursor
BY DEF Cursor!cursor, CursorPos, Reading, array, bounds

LEMMA CursorServes ==
  ASSUME NEW what, NEW n, NEW bytes, NEW length, answer' = Served(what, n, bytes),
         CursorPos' = CursorPos + length, UNCHANGED <<array, bounds>>
  PROVE  Cursor!Serve(what, n, bytes, length)
BY DEF Cursor!Serve, Cursor!Served, Served, CursorPos, Reading, array, bounds

LEMMA CursorFails ==
  ASSUME IInv, NEW what, NEW n, answer' = Failed(what, n), CursorPos <= CursorPos',
         CursorPos' = CursorPos \/ CursorPos' <= current_limit, UNCHANGED <<array, bounds>>
  PROVE  Cursor!Fail(what, n)
<1>1. Cursor!Limit = current_limit
  BY CursorIs DEF IInv
<1> QED
  BY <1>1 DEF Cursor!Fail, Cursor!Failed, Failed, CursorPos, Reading, array, bounds

LEMMA CursorReads ==
  ASSUME NEW n \in 0..Cursor!Left, n \in Counts, answer' = Served("read", n, Span(CursorPos, n)),
         CursorPos' = CursorPos + n, UNCHANGED <<array, bounds>>
  PROVE  Cursor!CursorNext
<1>1. Cursor!Span(CursorPos, n) = Span(CursorPos, n)
  BY DEF Cursor!Span, Span
<1>2. Cursor!Serve("read", n, Cursor!Span(CursorPos, n), n)
  BY <1>1, CursorServes
<1>3. Cursor!CursorRead(n)
  BY <1>2 DEF Cursor!CursorRead, CursorPos, Reading
<1> QED
  BY <1>3, StreamAssumption DEF Cursor!CursorNext

LEMMA ReadsFail ==
  ASSUME IInv, NEW n \in Counts, n \notin 0..Cursor!Left, answer' = Failed("read", n),
         CursorPos <= CursorPos', CursorPos' = CursorPos \/ CursorPos' <= current_limit,
         UNCHANGED <<array, bounds>>
  PROVE  Cursor!CursorNext
<1>1. Cursor!CursorRead(n)
  BY CursorFails DEF Cursor!CursorRead
<1> QED
  BY <1>1, StreamAssumption DEF Cursor!CursorNext

(* k bytes from a position that are a varint.                              *)
Varint(from, k) == ~more[from + k] /\ \A i \in 1..k - 1 : more[from + i]

LEMMA CursorReadsVarint ==
  ASSUME NEW k \in 1..MaxVarintBytes, k <= Cursor!Left, Varint(CursorPos, k),
         answer' = Served("varint", 0, Span(CursorPos, k)),
         CursorPos' = CursorPos + k, UNCHANGED <<array, bounds>>
  PROVE  Cursor!CursorNext
<1>1. Cursor!VarintNext(k)
  BY DEF Cursor!VarintNext, Varint, CursorPos, Reading
<1>2. Cursor!Span(CursorPos, k) = Span(CursorPos, k)
  BY DEF Cursor!Span, Span
<1>3. Cursor!Serve("varint", 0, Cursor!Span(CursorPos, k), k)
  BY <1>2, CursorServes
<1>4. Cursor!CursorVarint
  BY <1>1, <1>3 DEF Cursor!CursorVarint, CursorPos, Reading
<1> QED
  BY <1>4 DEF Cursor!CursorNext

LEMMA VarintsFail ==
  ASSUME IInv, \A k \in 1..MaxVarintBytes : k > Cursor!Left \/ ~Varint(CursorPos, k),
         answer' = Failed("varint", 0),
         CursorPos <= CursorPos', CursorPos' = CursorPos \/ CursorPos' <= current_limit,
         UNCHANGED <<array, bounds>>
  PROVE  Cursor!CursorNext
<1>1. Cursor!Left \in Int
  <2>1. Nearest \in Int /\ CursorPos \in Int
    BY BufferReaches DEF IInv, Nearest, CursorPos, Answered
  <2> QED
    BY <2>1, CursorIs DEF IInv
<1>2. \A k \in 1..MaxVarintBytes : ~Cursor!VarintNext(k)
  BY <1>1 DEF Cursor!VarintNext, Varint, CursorPos, Reading
<1>3. Cursor!Fail("varint", 0)
  BY CursorFails
<1>4. Cursor!CursorVarint
  BY <1>2, <1>3 DEF Cursor!CursorVarint
<1> QED
  BY <1>4 DEF Cursor!CursorNext

-----------------------------------------------------------------------------
(* One step: what a read has copied stays right, and the cursor sees one   *)
(* of its own steps or none.                                               *)
Simulated == Copied' /\ (Cursor!CursorNext \/ UNCHANGED Cursor!cursor)

LEMMA Returns ==
  ASSUME call' \notin {"read", "varint"} PROVE Copied' /\ CursorPos' = CurrentPosition'
BY DEF Copied, Reading, CursorPos

LEMMA Advances ==
  ASSUME Window, NEW n \in 0..BufferSize, Advance(n)
  PROVE  CurrentPosition' = CurrentPosition + n
BY DEF Window, Advance, CurrentPosition, BufferSize, input

LEMMA CursorPosIsNat == IInv => CursorPos \in Nat
BY BufferReaches DEF IInv, Answered, CursorPos

(* What a read has copied, with the next bytes of the buffer.              *)
LEMMA CopiedSpan ==
  ASSUME CInv, Reading, NEW n \in 0..BufferSize
  PROVE  got \o Span(buffer, n) = Span(start, Len(got) + n)
<1>1. /\ start \in Nat /\ Len(got) \in Nat /\ buffer \in Nat /\ BufferSize \in Nat
      /\ got \in Seq(Nat)
  BY LenProperties, BufferReaches DEF CInv, IInv, Answered, Window
<1>2. got = Span(start, Len(got)) /\ start + Len(got) = CurrentPosition
  BY DEF CInv, Copied
<1>3. CASE n = 0
  BY <1>1, <1>2, <1>3, SpanOfNone, ConcatEmptySeq
<1>4. CASE n > 0
  <2>1. buffer = start + Len(got)
    BY <1>1, <1>2, <1>4, BufferReaches DEF CInv, IInv
  <2>2. /\ Len(got) \in Nat /\ n \in Nat /\ got = Span(start, Len(got))
        /\ Span(buffer, n) = Span(start + Len(got), n)
    BY <1>1, <1>2, <2>1
  <2>3. \A k \in Nat : Span(start, k) \o Span(start + k, n) = Span(start, k + n)
    BY <1>1, <2>2, SpansJoin
  <2>4. Span(start, Len(got)) \o Span(start + Len(got), n) = Span(start, Len(got) + n)
    BY <2>2, <2>3
  <2> QED
    BY <2>2, <2>4
<1> QED
  BY <1>1, <1>3, <1>4

LEMMA ConstructSimulates == ASSUME CInv, Construct PROVE Simulated
<1>1. /\ call = "construct" /\ call' = "none" /\ Refresh
      /\ UNCHANGED <<array, bounds, asked, answer>>
  BY DEF Construct
<1>2. CurrentPosition' = Reach
  BY <1>1, RefreshMoves DEF CInv, IInv
<1>3. Reach = CurrentPosition
  BY <1>1 DEF CInv, IInv, Progress, Fresh, BackupBytes, Reach, Window, BufferSize, CurrentPosition
<1>4. CursorPos' = CursorPos
  BY <1>1, <1>2, <1>3, Returns DEF CursorPos, Reading
<1> QED
  BY <1>1, <1>4, Returns, CursorStutters DEF Simulated

LEMMA BeginSimulates ==
  ASSUME CInv, Idle, NEW what \in {"read", "varint"}, NEW n \in Nat, Begin(what, n),
         what = "read" => n \in Counts, what = "varint" => n = MaxVarintBytes
  PROVE  Simulated
<1>1. /\ call' = what /\ start' = CurrentPosition /\ left' = n /\ got' = <<>>
      /\ UNCHANGED <<array, input, window, bounds, answer>>
  BY DEF Begin
<1>2. CurrentPosition' = CurrentPosition /\ CurrentPosition \in Nat
  BY <1>1, BufferReaches DEF window, CurrentPosition, BufferSize, CInv, IInv
<1>3. CursorPos' = CursorPos
  BY <1>1 DEF CursorPos, Reading, Idle
<1>4. Copied'
  BY <1>1, <1>2, SpanOfNone DEF Copied
<1> QED
  BY <1>1, <1>3, <1>4, CursorStutters DEF Simulated

LEMMA ReadSimulates == ASSUME CInv, NEW n \in Counts, Read(n) PROVE Simulated
<1> USE StreamAssumption
<1>1. CASE n < 0
  <2>1. /\ call = "none" /\ call' = "none" /\ answer' = Failed("read", n)
        /\ UNCHANGED <<array, input, window, bounds>>
    BY <1>1 DEF Read, Return, Idle
  <2>2. CursorPos' = CursorPos /\ CursorPos \in Nat
    BY <2>1, CursorPosIsNat DEF CursorPos, Reading, CurrentPosition, BufferSize, window, CInv
  <2>3. n \notin 0..Cursor!Left
    BY <1>1
  <2> QED
    BY <2>1, <2>2, <2>3, Returns, ReadsFail DEF Simulated, CInv
<1>2. CASE ~(n < 0)
  <2>1. Idle /\ Begin("read", n) /\ n \in Nat
    BY <1>2 DEF Read
  <2> QED
    BY <2>1, BeginSimulates
<1> QED
  BY <1>1, <1>2

LEMMA ReadAcrossSimulates == ASSUME CInv, ReadAcross PROVE Simulated
<1>1. /\ call = "read" /\ BufferSize < left /\ Refresh
      /\ UNCHANGED <<array, bounds>> /\ Reading
  BY DEF ReadAcross, Reading
<1>2. CurrentPosition' = Reach /\ (Refreshable => Reach < size)
  BY <1>1, RefreshMoves DEF CInv, IInv
<1>3. /\ start \in Nat /\ Len(got) \in Nat /\ left \in Nat /\ BufferSize \in Nat
      /\ start + Len(got) = CurrentPosition /\ Len(got) + left \in Counts
  BY <1>1, LenProperties, BufferReaches DEF CInv, IInv, Answered, Copied
<1>4. CASE Refreshable
  <2>1. /\ got' = got \o Span(buffer, BufferSize)
        /\ left' = left - BufferSize /\ UNCHANGED <<call, start, answer>>
    BY <1>4 DEF ReadAcross
  <2>2. got' = Span(start, Len(got) + BufferSize)
    BY <1>1, <1>3, <2>1, CopiedSpan
  <2>3. Len(got') = Len(got) + BufferSize
    BY <1>3, <2>2, SpanLength
  <2>4. /\ start' + Len(got') = CurrentPosition' /\ got' = Span(start', Len(got'))
        /\ CurrentPosition' <= size' /\ Len(got') + left' = Len(got) + left
    <3>1. CurrentPosition' <= size
      BY <1>2, <1>3, <1>4, BufferReaches DEF Reach, CInv, IInv
    <3> QED
      BY <1>1, <1>2, <1>3, <2>1, <2>2, <2>3, <3>1 DEF Reach, array
  <2>5. Copied'
    BY <1>1, <1>3, <2>1, <2>4 DEF Copied
  <2>6. CursorPos' = CursorPos
    BY <1>1, <2>1 DEF CursorPos, Reading
  <2> QED
    BY <1>1, <2>1, <2>5, <2>6, CursorStutters DEF Simulated
<1>5. CASE ~Refreshable
  <2> DEFINE n == Len(got) + left
  <2>1. call' = "none" /\ answer' = Failed("read", n)
    BY <1>5 DEF ReadAcross, Return
  <2>2. CursorPos = start /\ CursorPos' = Reach /\ start <= Reach /\ Reach <= current_limit
    BY <1>1, <1>2, <1>3, <2>1, Returns, BufferReaches DEF CursorPos, CInv, IInv, Reach
  <2>3. n \in Nat \ {0} /\ n \in Counts /\ CursorPos + n > Reach
    BY <1>1, <1>3, <2>2 DEF Reach
  <2> HIDE DEF n
  <2>4. n \notin 0..Cursor!Left
    BY <1>3, <1>5, <2>2, <2>3, BeyondReach, BufferReaches DEF CInv, IInv
  <2> QED
    BY <1>1, <2>1, <2>2, <2>3, <2>4, Returns, ReadsFail DEF Simulated, CInv
<1> QED
  BY <1>4, <1>5

LEMMA ReadInBufferSimulates == ASSUME CInv, ReadInBuffer PROVE Simulated
<1> DEFINE n == Len(got) + left
<1>1. /\ call = "read" /\ BufferSize >= left /\ Advance(left) /\ call' = "none"
      /\ answer' = Served("read", n, got \o Span(buffer, left))
      /\ UNCHANGED <<array, bounds>> /\ Reading
  BY DEF ReadInBuffer, Return, Reading
<1>2. /\ start \in Nat /\ Len(got) \in Nat /\ left \in 0..BufferSize
      /\ start + Len(got) = CurrentPosition /\ n \in Counts
      /\ Len(got) > 0 => CurrentPosition <= size
  BY <1>1, LenProperties, BufferReaches DEF CInv, IInv, Answered, Copied
<1>3. answer' = Served("read", n, Span(CursorPos, n)) /\ CursorPos = start
  BY <1>1, <1>2, CopiedSpan DEF CursorPos
<1>4. CursorPos' = CursorPos + n
  BY <1>1, <1>2, <1>3, Advances, Returns DEF CInv, IInv
<1>5. n \in 0..Cursor!Left
  <2>1. n \in Nat /\ CursorPos \in Nat /\ CursorPos + n = CurrentPosition + left
    BY <1>2, <1>3
  <2>2. CurrentPosition \in Nat /\ BufferSize \in Nat /\ size \in Int
        /\ (BufferSize > 0 => Reach <= size)
    BY BufferReaches DEF CInv, IInv
  <2>3. CursorPos + n <= Reach /\ (n > 0 => Reach <= size \/ CursorPos + n <= size)
    BY <1>2, <2>1, <2>2 DEF Reach
  <2> HIDE DEF n
  <2> QED
    BY <2>1, <2>3, WithinReach DEF CInv
<1> HIDE DEF n
<1> QED
  BY <1>1, <1>2, <1>3, <1>4, <1>5, Returns, CursorReads DEF Simulated

-----------------------------------------------------------------------------
LEMMA ReadVarintSimulates == ASSUME CInv, ReadVarint PROVE Simulated
<1>1. Idle /\ Begin("varint", MaxVarintBytes) /\ MaxVarintBytes \in Nat
  BY StreamAssumption DEF ReadVarint
<1> QED
  BY <1>1, BeginSimulates

(* The last byte of the buffer ends a varint, or the buffer is longer than *)
(* any: in both cases a varint that begins in the buffer ends in it.       *)
LEMMA ReadVarintFromArraySimulates == ASSUME CInv, ReadVarintFromArray PROVE Simulated
<1> USE StreamAssumption
<1> DEFINE Ends(k) == (\A i \in 1..k - 1 : more[buffer + i]) /\ ~more[buffer + k]
<1>1. /\ Idle /\ EndsInBuffer /\ UNCHANGED <<array, bounds>> /\ call' = "none"
      /\ \/ \E k \in 1..MaxVarintBytes :
              Ends(k) /\ Advance(k) /\ answer' = Served("varint", 0, Span(buffer, k))
         \/ /\ \A k \in 1..MaxVarintBytes : ~Ends(k)
            /\ answer' = Failed("varint", 0) /\ UNCHANGED window
  BY DEF ReadVarintFromArray, Return
<1>2. /\ BufferSize \in Nat \ {0} /\ buffer = CurrentPosition /\ CursorPos = buffer
      /\ CursorPos \in Nat /\ Reach = CursorPos + BufferSize /\ Reach <= size
      /\ buffer_end = buffer + BufferSize
  <2>1. BufferSize \in Nat \ {0} /\ buffer_end = buffer + BufferSize
    BY <1>1 DEF EndsInBuffer, CInv, IInv, Window, BufferSize
  <2> QED
    BY <1>1, <2>1, BufferReaches DEF CInv, IInv, CursorPos, Reading, Idle, Reach
<1>3. ASSUME NEW k \in 1..MaxVarintBytes PROVE Ends(k) <=> Varint(CursorPos, k)
  BY <1>2, Zenon DEF Varint
<1>4. CASE \E k \in 1..MaxVarintBytes :
              Ends(k) /\ Advance(k) /\ answer' = Served("varint", 0, Span(buffer, k))
  <2>1. PICK k \in 1..MaxVarintBytes :
              Ends(k) /\ Advance(k) /\ answer' = Served("varint", 0, Span(buffer, k))
    BY <1>4
  <2>2. k <= BufferSize
    <3>1. CASE BufferSize >= MaxVarintBytes
      BY <1>2, <3>1
    <3>2. CASE ~more[buffer_end]
      <4> SUFFICES ASSUME k > BufferSize PROVE FALSE
        BY <1>2
      <4>1. BufferSize \in 1..k - 1 /\ buffer + BufferSize = buffer_end
        BY <1>2
      <4> QED
        BY <2>1, <3>2, <4>1
    <3> QED
      BY <1>1, <3>1, <3>2 DEF EndsInBuffer
  <2>3. k \in Nat /\ k \in 0..BufferSize /\ CursorPos + k <= Reach
    BY <1>2, <2>2
  <2>4. k \in 0..Cursor!Left
    BY <1>2, <2>3, WithinReach DEF CInv
  <2>5. CursorPos' = CursorPos + k
    BY <1>1, <1>2, <2>1, <2>3, Advances, Returns DEF CInv, IInv
  <2>6. Cursor!CursorNext
    <3>1. k <= Cursor!Left
      BY <2>4
    <3> QED
      BY <1>1, <1>2, <1>3, <2>1, <2>5, <3>1, CursorReadsVarint
  <2> QED
    BY <1>1, <2>6, Returns DEF Simulated
<1>5. CASE /\ \A k \in 1..MaxVarintBytes : ~Ends(k)
           /\ answer' = Failed("varint", 0) /\ UNCHANGED window
  <2>1. CursorPos' = CursorPos
    BY <1>1, <1>5, Returns DEF CursorPos, Reading, Idle, window, CurrentPosition, BufferSize
  <2> QED
    BY <1>1, <1>2, <1>3, <1>5, <2>1, Returns, VarintsFail DEF Simulated, CInv
<1> QED
  BY <1>1, <1>4, <1>5

(* No varint ends among the bytes a read has passed.                       *)
LEMMA PassedGoOn ==
  ASSUME CInv, call = "varint"
  PROVE  /\ CursorPos = start /\ start \in Nat /\ Len(got) \in Nat /\ left \in Nat
         /\ start + Len(got) = CurrentPosition /\ Len(got) + left = MaxVarintBytes
         /\ \A k \in 1..Len(got) : more[start + k] /\ ~Varint(CursorPos, k)
BY LenProperties DEF CInv, IInv, Answered, Copied, Reading, CursorPos, Varint

LEMMA VarintTooLongSimulates == ASSUME CInv, VarintTooLong PROVE Simulated
<1>1. /\ call = "varint" /\ left = 0 /\ call' = "none" /\ answer' = Failed("varint", 0)
      /\ UNCHANGED <<array, window, bounds>>
  BY DEF VarintTooLong, Return
<1>2. /\ Len(got) = MaxVarintBytes /\ CursorPos \in Nat
      /\ CursorPos <= CursorPos' /\ CursorPos' <= current_limit
  <2>1. CurrentPosition' = CurrentPosition /\ CursorPos' = CurrentPosition'
    BY <1>1, Returns DEF window, CurrentPosition, BufferSize
  <2>2. CurrentPosition \in Nat /\ CurrentPosition <= current_limit
    BY BufferReaches DEF CInv, IInv, Reach
  <2> QED
    BY <1>1, <2>1, <2>2, PassedGoOn
<1> QED
  BY <1>1, <1>2, PassedGoOn, Returns, VarintsFail DEF Simulated, CInv

LEMMA VarintAcrossSimulates == ASSUME CInv, VarintAcross PROVE Simulated
<1>1. /\ call = "varint" /\ left > 0 /\ BufferSize = 0 /\ Refresh
      /\ UNCHANGED <<array, bounds>>
  BY DEF VarintAcross
<1>2. /\ CurrentPosition' = Reach /\ Reach = CurrentPosition /\ CurrentPosition \in Nat
      /\ Reach <= current_limit /\ CursorPos \in Nat /\ CursorPos <= Reach
  BY <1>1, RefreshMoves, BufferReaches, PassedGoOn DEF CInv, IInv, Reach
<1>3. CASE Refreshable
  <2>1. UNCHANGED <<call, start, left, got, answer>>
    BY <1>3 DEF VarintAcross, asked
  <2>2. Copied' /\ CursorPos' = CursorPos
    BY <1>1, <1>2, <2>1 DEF CInv, Copied, Reading, CursorPos, array
  <2> QED
    BY <1>1, <2>1, <2>2, CursorStutters DEF Simulated
<1>4. CASE ~Refreshable
  <2>1. call' = "none" /\ answer' = Failed("varint", 0)
    BY <1>4 DEF VarintAcross, Return
  <2>2. ASSUME NEW k \in 1..MaxVarintBytes PROVE k > Cursor!Left \/ ~Varint(CursorPos, k)
    <3>1. CASE k <= Len(got)
      BY <1>1, <3>1, PassedGoOn
    <3>2. CASE k > Len(got)
      <4>1. k \in Nat \ {0} /\ CursorPos + k > Reach
        BY <1>1, <1>2, <3>2, PassedGoOn
      <4>2. k \notin 0..Cursor!Left
        BY <1>2, <1>4, <4>1, BeyondReach, BufferReaches DEF CInv, IInv
      <4>3. Cursor!Left \in Int
        BY <1>2, CursorIs, BufferReaches DEF CInv, IInv, Nearest
      <4> QED
        BY <4>1, <4>2, <4>3
    <3> QED
      BY <1>1, <3>1, <3>2, PassedGoOn
  <2> QED
    BY <1>1, <1>2, <2>1, <2>2, Returns, VarintsFail DEF Simulated, CInv
<1> QED
  BY <1>3, <1>4

LEMMA VarintByteSimulates == ASSUME CInv, VarintByte PROVE Simulated
<1>1. /\ call = "varint" /\ left > 0 /\ BufferSize > 0 /\ Advance(1)
      /\ UNCHANGED <<array, bounds>>
  BY DEF VarintByte
<1>2. /\ buffer = start + Len(got) /\ 1 \in 0..BufferSize
      /\ CurrentPosition' = CurrentPosition + 1 /\ CurrentPosition + 1 <= Reach
      /\ Reach <= size
  <2>1. 1 \in 0..BufferSize
    BY <1>1, BufferReaches DEF CInv, IInv
  <2> QED
    BY <1>1, <2>1, Advances, BufferReaches, PassedGoOn DEF CInv, IInv, Reach
<1> DEFINE k == Len(got) + 1
<1>3. /\ Append(got, buffer) = Span(start, k) /\ k \in 1..MaxVarintBytes
      /\ Len(Append(got, buffer)) = k
  <2>1. got = Span(start, Len(got))
    BY <1>1 DEF CInv, Copied, Reading
  <2>2. Append(Span(start, Len(got)), start + Len(got)) = Span(start, Len(got) + 1)
    BY <1>1, PassedGoOn, SpanGrows
  <2>3. Append(got, buffer) = Span(start, k)
    BY <1>2, <2>1, <2>2
  <2>4. k \in 1..MaxVarintBytes
    BY <1>1, PassedGoOn, StreamAssumption
  <2> QED
    BY <1>1, <2>3, <2>4, PassedGoOn, SpanLength
<1>4. buffer + 1 = start + k
  BY <1>1, <1>2, PassedGoOn
<1>5. CASE more[buffer + 1]
  <2>1. got' = Append(got, buffer) /\ left' = left - 1 /\ UNCHANGED <<call, start, answer>>
    BY <1>5 DEF VarintByte
  <2>2. got' = Span(start, k) /\ Len(got') = k
    BY <1>3, <2>1
  <2>3. /\ start' + Len(got') = CurrentPosition' /\ Len(got') + left' = MaxVarintBytes
        /\ CurrentPosition' <= size'
    <3>1. CurrentPosition' <= size
      BY <1>2, BufferReaches DEF CInv, IInv, Reach
    <3>2. size' = size /\ start' = start /\ Len(got') = Len(got) + 1 /\ left' = left - 1
      BY <1>1, <2>1, <2>2 DEF array
    <3> QED
      BY <1>1, <1>2, <3>1, <3>2, PassedGoOn
  <2>4. \A i \in 1..Len(got') : more'[start' + i]
    <3> TAKE i \in 1..Len(got')
    <3>1. i \in 1..Len(got) \/ i = k
      BY <1>1, <2>2, PassedGoOn
    <3> QED
      BY <1>1, <1>4, <1>5, <2>1, <3>1, PassedGoOn DEF array
  <2>5. Copied'
    BY <1>1, <2>1, <2>2, <2>3, <2>4 DEF Copied, Reading
  <2>6. CursorPos' = CursorPos
    BY <1>1, <2>1 DEF CursorPos, Reading
  <2> QED
    BY <1>1, <2>1, <2>5, <2>6, CursorStutters DEF Simulated
<1>6. CASE ~more[buffer + 1]
  <2>1. call' = "none" /\ answer' = Served("varint", 0, Span(CursorPos, k))
    BY <1>1, <1>3, <1>6, PassedGoOn DEF VarintByte, Return
  <2>2. CursorPos' = CursorPos + k /\ CursorPos + k <= Reach
    BY <1>1, <1>2, <2>1, PassedGoOn, Returns
  <2>3. Varint(CursorPos, k)
    <3>1. \A i \in 1..k - 1 : more[CursorPos + i]
      BY <1>1, <1>3, PassedGoOn
    <3>2. ~more[CursorPos + k]
      BY <1>1, <1>4, <1>6, PassedGoOn
    <3> QED
      BY <3>1, <3>2 DEF Varint
  <2> HIDE DEF k
  <2>4. k \in 0..Cursor!Left
    BY <1>1, <1>2, <1>3, <2>2, PassedGoOn, WithinReach DEF CInv
  <2>5. k <= Cursor!Left
    BY <2>4
  <2>6. Cursor!CursorNext
    BY <1>1, <1>3, <2>1, <2>2, <2>3, <2>5, CursorReadsVarint
  <2> QED
    BY <2>1, <2>6, Returns DEF Simulated
<1> QED
  BY <1>5, <1>6

-----------------------------------------------------------------------------
LEMMA CursorSkips ==
  ASSUME NEW n \in 0..Cursor!Left, n \in Counts, answer' = Served("skip", n, <<>>),
         CursorPos' = CursorPos + n, UNCHANGED <<array, bounds>>
  PROVE  Cursor!CursorNext
<1>1. Cursor!CursorSkip(n)
  BY CursorServes DEF Cursor!CursorSkip
<1> QED
  BY <1>1, StreamAssumption DEF Cursor!CursorNext

LEMMA SkipsFail ==
  ASSUME IInv, NEW n \in Counts, n \notin 0..Cursor!Left, answer' = Failed("skip", n),
         CursorPos <= CursorPos', CursorPos' = CursorPos \/ CursorPos' <= current_limit,
         UNCHANGED <<array, bounds>>
  PROVE  Cursor!CursorNext
<1>1. Cursor!CursorSkip(n)
  BY CursorFails DEF Cursor!CursorSkip
<1> QED
  BY <1>1, StreamAssumption DEF Cursor!CursorNext

LEMMA IdleCursor ==
  ASSUME IInv, Idle
  PROVE  CursorPos = CurrentPosition /\ CursorPos \in Nat /\ Reach = CursorPos + BufferSize
BY BufferReaches DEF IInv, Idle, CursorPos, Reading, Reach

LEMMA SkipInBufferSimulates == ASSUME CInv, NEW n \in Counts, SkipInBuffer(n) PROVE Simulated
<1>1. /\ Idle /\ n \in 0..BufferSize /\ n \in Nat /\ Advance(n) /\ call' = "none"
      /\ answer' = Served("skip", n, <<>>) /\ UNCHANGED <<array, bounds>>
  BY DEF SkipInBuffer, Return
<1>2. CursorPos' = CursorPos + n
  BY <1>1, Advances, Returns, IdleCursor DEF CInv, IInv
<1>3. CursorPos + n <= Reach /\ (n > 0 => Reach <= size)
  BY <1>1, IdleCursor, BufferReaches DEF CInv, IInv
<1>4. n \in 0..Cursor!Left
  BY <1>1, <1>3, IdleCursor, WithinReach DEF CInv
<1> QED
  BY <1>1, <1>2, <1>4, Returns, CursorSkips DEF Simulated

LEMMA SkipToLimitSimulates == ASSUME CInv, NEW n \in Counts, SkipToLimit(n) PROVE Simulated
<1>1. /\ Idle /\ n > BufferSize /\ buffer_size_after_limit > 0 /\ Advance(BufferSize)
      /\ call' = "none" /\ answer' = Failed("skip", n) /\ UNCHANGED <<array, bounds>>
  BY DEF SkipToLimit, Return
<1>2. /\ n \in Nat \ {0} /\ Reach = current_limit /\ BufferSize \in 0..BufferSize
      /\ CursorPos + n > Reach /\ CursorPos \in Nat /\ current_limit \in Nat
  BY <1>1, IdleCursor, BufferReaches, StreamAssumption DEF CInv, IInv
<1>3. CursorPos' = Reach /\ CursorPos <= Reach
  BY <1>1, <1>2, Advances, Returns, IdleCursor DEF CInv, IInv
<1>4. n \notin 0..Cursor!Left
  BY <1>2, BeyondReach DEF CInv
<1> QED
  BY <1>1, <1>2, <1>3, <1>4, Returns, SkipsFail DEF Simulated, CInv

LEMMA EmptyBuffer ==
  ASSUME buffer' = 0, buffer_end' = 0, buffer_size_after_limit' = 0,
         NEW read \in Int, total_bytes_read' = read
  PROVE  CurrentPosition' = read
BY DEF CurrentPosition, BufferSize

LEMMA SkipBehindSimulates == ASSUME CInv, NEW n \in Counts, SkipBehind(n) PROVE Simulated
<1> USE StreamAssumption
<1> DEFINE rest  == n - BufferSize
           until == current_limit - total_bytes_read
<1>1. /\ Idle /\ rest > 0 /\ buffer_size_after_limit = 0 /\ buffer' = NULL
      /\ buffer_end' = NULL /\ call' = "none"
      /\ UNCHANGED <<array, bounds, buffer_size_after_limit>>
  BY DEF SkipBehind, Return
<1>2. /\ Reach = total_bytes_read /\ CursorPos \in Nat /\ BufferSize \in Nat
      /\ Reach = CursorPos + BufferSize /\ n \in Nat \ {0} /\ rest \in Nat \ {0}
      /\ until \in Nat /\ CursorPos + n = Reach + rest /\ current_limit \in Nat
      /\ size \in Int /\ Reach <= current_limit /\ total_bytes_read \in Nat
  BY <1>1, IdleCursor, BufferReaches
  DEF CInv, IInv, Window, CurrentPosition, BufferSize
<1>3. CursorPos' = total_bytes_read'
  <2>1. total_bytes_read' \in Int
    BY SkipBehindKeeps DEF CInv, IInv, Window
  <2>2. CursorPos' = CurrentPosition'
    BY <1>1, Returns
  <2>3. PICK read \in Int : read = total_bytes_read'
    BY <2>1
  <2>4. buffer' = 0 /\ buffer_end' = 0 /\ buffer_size_after_limit' = 0
    BY <1>1 DEF NULL
  <2>5. CurrentPosition' = read
    BY <2>3, <2>4, EmptyBuffer
  <2> QED
    BY <2>2, <2>3, <2>5
<1>4. Cursor!Left = IF CursorPos < Nearest THEN Nearest - CursorPos ELSE 0
  BY CursorIs DEF CInv, IInv
<1>5. CASE until < rest
  <2>1. /\ total_bytes_read' = Max({total_bytes_read, current_limit})
        /\ answer' = Failed("skip", n)
    BY <1>5 DEF SkipBehind, Return
  <2>2. CursorPos' = current_limit
    <3>1. Max({total_bytes_read, current_limit}) = current_limit
      BY <1>2, MaxPair
    <3> QED
      BY <1>3, <2>1, <3>1
  <2>3. n \notin 0..Cursor!Left
    BY <1>2, <1>4, <1>5 DEF Nearest
  <2> QED
    BY <1>1, <1>2, <2>1, <2>2, <2>3, Returns, SkipsFail DEF Simulated, CInv
<1>6. CASE ~(until < rest)
  <2>1. /\ total_bytes_read' = total_bytes_read + rest
        /\ answer' = IF rest > size - position THEN Failed("skip", n)
                                               ELSE Served("skip", n, <<>>)
    BY <1>6 DEF SkipBehind, Return
  <2>2. CursorPos' = CursorPos + n /\ CursorPos + n <= current_limit
    <3>1. total_bytes_read' = Reach + rest /\ rest <= until
      <4>1. total_bytes_read' = total_bytes_read + rest
        BY <2>1
      <4>2. rest \in Nat /\ until \in Nat /\ Reach = total_bytes_read
        BY <1>2
      <4> HIDE DEF rest, until
      <4>3. rest <= until
        BY <1>6, <4>2
      <4> QED
        BY <4>1, <4>2, <4>3
    <3> QED
      BY <1>2, <1>3, <3>1
  <2>3. /\ position \in Int
        /\ \/ Reach = position
           \/ position = size /\ Reach > size
    BY <1>2 DEF CInv, IInv, Window
  <2>4. CASE rest > size - position
    <3>1. n \notin 0..Cursor!Left
      BY <1>2, <1>4, <2>3, <2>4 DEF Nearest
    <3> QED
      BY <1>1, <1>2, <2>1, <2>2, <2>4, <3>1, Returns, SkipsFail DEF Simulated, CInv
  <2>5. CASE ~(rest > size - position)
    <3>1. n \in 0..Cursor!Left
      BY <1>2, <1>4, <2>2, <2>3, <2>5 DEF Nearest
    <3> QED
      BY <1>1, <2>1, <2>2, <2>5, <3>1, Returns, CursorSkips DEF Simulated
  <2> QED
    BY <2>4, <2>5
<1> QED
  BY <1>5, <1>6

LEMMA SkipSimulates == ASSUME CInv, NEW n \in Counts, Skip(n) PROVE Simulated
<1>1. CASE SkipRefused(n)
  <2>1. /\ Idle /\ n < 0 /\ call' = "none" /\ answer' = Failed("skip", n)
        /\ UNCHANGED <<array, window, bounds>>
    BY <1>1 DEF SkipRefused, Return
  <2>2. CursorPos' = CursorPos /\ CursorPos \in Nat
    BY <2>1, IdleCursor, Returns DEF CInv, window, CurrentPosition, BufferSize
  <2>3. n \notin 0..Cursor!Left
    BY <2>1, StreamAssumption
  <2> QED
    BY <2>1, <2>2, <2>3, Returns, SkipsFail DEF Simulated, CInv
<1> QED
  BY <1>1, SkipInBufferSimulates, SkipToLimitSimulates, SkipBehindSimulates DEF Skip

-----------------------------------------------------------------------------
LEMMA GetDirectBufferPointerSimulates == ASSUME CInv, GetDirectBufferPointer PROVE Simulated
<1>1. /\ Idle /\ call' = "none" /\ UNCHANGED <<array, bounds>>
      /\ IF BufferSize > 0 THEN UNCHANGED <<input, window>> ELSE Refresh
      /\ answer' = IF BufferSize > 0 \/ Refreshable
                     THEN Served("peek", 0, Span(buffer', BufferSize')) ELSE Failed("peek", 0)
  BY DEF GetDirectBufferPointer, Return, BufferSize
<1>2. BufferSize \in Nat /\ CursorPos \in Nat /\ Reach = CursorPos + BufferSize
  BY <1>1, IdleCursor, BufferReaches DEF CInv, IInv
<1>3. CursorPos' = CursorPos
  <2>1. CASE BufferSize > 0
    BY <1>1, <2>1, IdleCursor, Returns DEF CInv, window, CurrentPosition, BufferSize
  <2>2. CASE BufferSize = 0
    <3>1. CursorPos' = Reach
      BY <1>1, <2>2, RefreshMoves, Returns DEF CInv, IInv
    <3> QED
      BY <1>2, <2>2, <3>1
  <2> QED
    BY <1>2, <2>1, <2>2
<1>4. Cursor!Left = IF CursorPos < Nearest THEN Nearest - CursorPos ELSE 0
  BY CursorIs DEF CInv, IInv
<1>5. CASE BufferSize > 0 \/ Refreshable
  <2> DEFINE n == BufferSize'
  <2>1. /\ n \in Nat \ {0} /\ buffer' = CursorPos /\ CursorPos + n <= current_limit
        /\ CursorPos + n <= size
    <3>1. CASE BufferSize > 0
      <4>1. n = BufferSize /\ buffer' = buffer
        BY <1>1, <3>1 DEF window, BufferSize
      <4> QED
        BY <1>1, <1>2, <3>1, <4>1, IdleCursor, BufferReaches DEF CInv, IInv
    <3>2. CASE BufferSize = 0
      <4>1. Reach = CursorPos
        BY <1>2, <3>2
      <4>2. /\ BufferSize' \in Nat \ {0} /\ buffer' = Reach /\ Reach + BufferSize' <= size
            /\ Reach + BufferSize' <= current_limit
        BY <1>1, <1>5, <3>2, RefreshMoves DEF CInv, IInv
      <4> QED
        BY <4>1, <4>2
    <3> QED
      BY <1>2, <3>1, <3>2
  <2>2. answer' = Served("peek", 0, Span(CursorPos, n))
    BY <1>1, <1>5, <2>1
  <2> HIDE DEF n
  <2>3. n \in 1..Cursor!Left /\ Cursor!Left > 0
    BY <1>2, <1>4, <2>1, BufferReaches DEF Nearest, CInv, IInv
  <2>4. Cursor!Span(CursorPos, n) = Span(CursorPos, n)
    BY DEF Cursor!Span, Span
  <2>5. Cursor!Serve("peek", 0, Cursor!Span(CursorPos, n), 0)
    BY <1>1, <1>2, <1>3, <2>2, <2>4, CursorServes
  <2>6. Cursor!CursorPeek
    BY <2>3, <2>5 DEF Cursor!CursorPeek, CursorPos, Reading
  <2> QED
    BY <1>1, <2>6, Returns DEF Simulated, Cursor!CursorNext
<1>6. CASE ~(BufferSize > 0 \/ Refreshable)
  <2>1. answer' = Failed("peek", 0) /\ BufferSize = 0
    BY <1>1, <1>2, <1>6
  <2>2. Cursor!Left = 0
    BY <1>2, <1>4, <1>6, <2>1, BufferReaches DEF Nearest, CInv, IInv
  <2>3. Cursor!Fail("peek", 0)
    BY <1>1, <1>2, <1>3, <2>1, CursorFails DEF CInv
  <2>4. Cursor!CursorPeek
    BY <1>3, <2>2, <2>3 DEF Cursor!CursorPeek, CursorPos, Reading
  <2> QED
    BY <1>1, <2>4, Returns DEF Simulated, Cursor!CursorNext
<1> QED
  BY <1>5, <1>6

-----------------------------------------------------------------------------
(* A limit moves bytes into the buffer or out of it; the current position  *)
(* stays.                                                                  *)
LEMMA LimitKeepsPosition ==
  ASSUME Window, NEW limit \in 0..IntMax,
         LimitBuffer(buffer_end + buffer_size_after_limit, total_bytes_read, limit),
         UNCHANGED <<buffer, total_bytes_read>>
  PROVE  CurrentPosition' = CurrentPosition
<1>1. /\ buffer_end \in Int /\ buffer_size_after_limit \in Int
      /\ buffer \in Int /\ total_bytes_read \in Int /\ limit \in Int
  BY StreamAssumption DEF Window
<1> DEFINE after == IF total_bytes_read - limit > 0 THEN total_bytes_read - limit ELSE 0
<1>2. Max({0, total_bytes_read - limit}) = after /\ after \in Int
  BY <1>1, MaxZero
<1> HIDE DEF after
<1>3. /\ buffer_size_after_limit' = after
      /\ buffer_end' = buffer_end + buffer_size_after_limit - after
  BY <1>1, <1>2 DEF LimitBuffer
<1> QED
  BY <1>1, <1>2, <1>3 DEF CurrentPosition, BufferSize

LEMMA PushLimitSimulates == ASSUME CInv, NEW n \in Counts, PushLimit(n) PROVE Simulated
<1> USE StreamAssumption
<1> DEFINE wanted == IF n >= 0 /\ n <= IntMax - CurrentPosition
                       THEN CurrentPosition + n ELSE IntMax
<1>1. /\ Idle /\ old_limits' = Append(old_limits, current_limit)
      /\ current_limit' = Min({wanted, current_limit})
      /\ LimitBuffer(buffer_end + buffer_size_after_limit, total_bytes_read, current_limit')
      /\ UNCHANGED <<array, buffer, total_bytes_read, call, asked, answer>>
  BY DEF PushLimit
<1>2. /\ CurrentPosition \in Nat /\ current_limit \in 0..IntMax /\ wanted \in 0..IntMax
      /\ CursorPos = CurrentPosition
  BY <1>1, BufferReaches, IdleCursor DEF CInv, IInv, Window
<1>3. /\ current_limit' = IF wanted < current_limit THEN wanted ELSE current_limit
      /\ current_limit' \in 0..IntMax
  BY <1>1, <1>2, MinPair
<1>4. CursorPos' = CursorPos /\ call' \notin {"read", "varint"}
  <2>1. CurrentPosition' = CurrentPosition
    BY <1>1, <1>3, LimitKeepsPosition DEF CInv, IInv
  <2> QED
    BY <1>1, <1>2, <2>1, Returns DEF Idle
<1>5. Cursor!Smaller(wanted, Cursor!Limit) = current_limit'
  BY <1>3, CursorIs DEF CInv, IInv, Cursor!Smaller
<1>6. wanted = IF n \in 0..IntMax - CursorPos THEN CursorPos + n ELSE IntMax
  BY <1>2
<1> HIDE DEF wanted
<1>7. Cursor!CursorPush(n)
  BY <1>1, <1>4, <1>5, <1>6 DEF Cursor!CursorPush, CursorPos, Reading, array
<1> QED
  BY <1>4, <1>7, Returns DEF Simulated, Cursor!CursorNext

LEMMA PopLimitSimulates == ASSUME CInv, PopLimit PROVE Simulated
<1> USE StreamAssumption
<1> DEFINE last  == old_limits[Len(old_limits)]
           front == SubSeq(old_limits, 1, Len(old_limits) - 1)
           limits == Append(old_limits, current_limit)
<1>1. /\ Idle /\ old_limits # <<>> /\ current_limit' = last /\ old_limits' = front
      /\ LimitBuffer(buffer_end + buffer_size_after_limit, total_bytes_read, current_limit')
      /\ UNCHANGED <<array, buffer, total_bytes_read, call, asked, answer>>
  BY DEF PopLimit, Last, Front
<1>2. /\ old_limits \in Seq(0..IntMax) /\ current_limit \in 0..IntMax
      /\ Len(old_limits) \in Nat \ {0}
      /\ \A i \in 1..Len(old_limits) : old_limits[i] \in 0..IntMax
  BY <1>1, EmptySeq, LenProperties, ElementOfSeq DEF CInv, IInv, Window, Nested
<1>3. CursorPos' = CursorPos /\ call' \notin {"read", "varint"}
  <2>1. last \in 0..IntMax
    BY <1>2
  <2>2. CurrentPosition' = CurrentPosition
    BY <1>1, <2>1, LimitKeepsPosition DEF CInv, IInv
  <2> QED
    BY <1>1, <2>2, Returns, IdleCursor DEF Idle, CInv
<1>4. /\ limits \in Seq(0..IntMax) /\ Len(limits) = Len(old_limits) + 1
      /\ \A i \in 1..Len(old_limits) : limits[i] = old_limits[i]
  BY <1>2, AppendProperties
<1>5. /\ front \in Seq(0..IntMax) /\ Len(front) = Len(old_limits) - 1
      /\ \A i \in 1..Len(old_limits) - 1 : front[i] = old_limits[i]
  <2> DEFINE m == Len(old_limits) - 1
  <2>1. m \in Nat /\ \A i \in 1..m : old_limits[i] \in 0..IntMax
    BY <1>2
  <2> HIDE DEF m
  <2>2. /\ SubSeq(old_limits, 1, m) \in Seq(0..IntMax) /\ Len(SubSeq(old_limits, 1, m)) = m
        /\ \A i \in 1..m : SubSeq(old_limits, 1, m)[i] = old_limits[i]
    BY <2>1, SubSeqProperties
  <2> QED
    BY <2>2 DEF m
<1>6. Append(front, last) = SubSeq(limits, 1, Len(limits) - 1)
  <2> DEFINE m == Len(old_limits)
             popped == SubSeq(limits, 1, m)
             kept == Append(front, last)
  <2>1. m \in Nat \ {0} /\ \A i \in 1..m : limits[i] \in 0..IntMax
    BY <1>2, <1>4
  <2> HIDE DEF m, limits, front, last
  <2>2. /\ popped \in Seq(0..IntMax) /\ Len(popped) = m
        /\ \A i \in 1..m : popped[i] = limits[i]
    BY <2>1, SubSeqProperties
  <2>3. last \in 0..IntMax /\ last = old_limits[m]
    BY <1>2 DEF last, m
  <2>4. /\ kept \in Seq(0..IntMax) /\ Len(kept) = m /\ kept[m] = last
        /\ \A i \in 1..m - 1 : kept[i] = front[i]
    <3>1. Len(front) = m - 1 /\ Len(front) + 1 = m
      BY <1>5, <2>1 DEF m
    <3> QED
      BY <1>5, <2>3, <3>1, AppendProperties
  <2> HIDE DEF popped, kept
  <2>5. \A i \in 1..m : kept[i] = popped[i]
    <3> TAKE i \in 1..m
    <3>1. i \in 1..m - 1 \/ i = m
      BY <2>1
    <3> QED
      BY <1>4, <1>5, <2>1, <2>2, <2>3, <2>4, <3>1 DEF m
  <2>6. kept = popped
    BY <2>2, <2>4, <2>5, SeqEqual
  <2>7. Len(limits) - 1 = m
    BY <1>4, <2>1 DEF m
  <2> QED
    BY <2>6, <2>7 DEF kept, popped
<1>7. Len(limits) > 1
  BY <1>2, <1>4
<1>8. Append(old_limits', current_limit') = SubSeq(limits, 1, Len(limits) - 1)
  BY <1>1, <1>6
<1> HIDE DEF last, front
<1>9. Cursor!CursorPop
  BY <1>1, <1>3, <1>7, <1>8 DEF Cursor!CursorPop, CursorPos, Reading, array
<1> QED
  BY <1>3, <1>9, Returns DEF Simulated, Cursor!CursorNext

(* The destructor gives bytes back, which the cursor does not see.         *)
LEMMA DestroySimulates == ASSUME CInv, Destroy PROVE Simulated
<1>1. Idle /\ UNCHANGED <<array, bounds, answer>>
  BY DEF Destroy
<1>2. CASE BackupBytes > 0
  <2>1. /\ call' \in {"gone", "aborted"} /\ buffer_end' = buffer
        /\ buffer_size_after_limit' = 0 /\ UNCHANGED buffer
        /\ total_bytes_read' = total_bytes_read - (BufferSize + buffer_size_after_limit)
    BY <1>2 DEF Destroy
  <2>2. CurrentPosition' = CurrentPosition
    <3>1. total_bytes_read' = CurrentPosition /\ CurrentPosition \in Nat /\ buffer \in Nat
      BY <2>1, BufferReaches DEF CurrentPosition, CInv, IInv, Window
    <3> QED
      BY <2>1, <3>1 DEF CurrentPosition, BufferSize
  <2>3. CursorPos' = CursorPos
    BY <1>1, <2>1, <2>2, IdleCursor, Returns DEF CInv
  <2> QED
    BY <1>1, <2>1, <2>3, Returns, CursorStutters DEF Simulated
<1>3. CASE ~(BackupBytes > 0)
  <2>1. call' = "gone" /\ UNCHANGED window
    BY <1>3 DEF Destroy
  <2>2. CurrentPosition' = CurrentPosition
    BY <2>1 DEF window, CurrentPosition, BufferSize
  <2>3. CursorPos' = CursorPos
    BY <1>1, <2>1, <2>2, IdleCursor, Returns DEF CInv
  <2> QED
    BY <1>1, <2>1, <2>3, Returns, CursorStutters DEF Simulated
<1> QED
  BY <1>2, <1>3

LEMMA StutterSimulates == CInv /\ UNCHANGED vars => Simulated
BY DEF vars, array, window, bounds, asked, CInv, Copied, Reading, CurrentPosition,
       BufferSize, Simulated, Cursor!cursor

LEMMA NextSimulates == CInv /\ [Next]_vars => Simulated
<1> SUFFICES ASSUME CInv, [Next]_vars PROVE Simulated
  OBVIOUS
<1>1. CASE Gone \/ UNCHANGED vars
  BY <1>1, StutterSimulates DEF Gone
<1> QED
  BY <1>1, ConstructSimulates, ReadSimulates, ReadAcrossSimulates, ReadInBufferSimulates,
     ReadVarintSimulates, ReadVarintFromArraySimulates, VarintTooLongSimulates,
     VarintAcrossSimulates, VarintByteSimulates, SkipSimulates,
     GetDirectBufferPointerSimulates, PushLimitSimulates, PopLimitSimulates,
     DestroySimulates
  DEF Next

LEMMA InitCInv == Init => CInv /\ Cursor!CursorInit
<1> SUFFICES ASSUME Init PROVE CInv /\ Cursor!CursorInit
  OBVIOUS
<1>1. CInv
  BY InitIInv DEF Init, CInv, Copied, Reading
<1>2. Append(old_limits, current_limit) = <<IntMax>>
  BY DEF Init
<1> QED
  BY <1>1, <1>2
  DEF Init, Cursor!CursorInit, Cursor!Failed, Failed, CurrentPosition, BufferSize, NULL

(* Whatever the length of the array and of its blocks, and whatever was    *)
(* read, skipped and limited before: every call of CodedInputStream is     *)
(* answered with the bytes that come next, or fails because the limit or   *)
(* the end of the array is in the way.                                     *)
THEOREM ImplementsByteCursor == Spec => IsByteCursor
<1>1. CInv /\ [Next]_vars => CInv' /\ [Cursor!CursorNext]_Cursor!cursor
  BY NextKeeps, NextSimulates DEF CInv, Simulated
<1> QED
  BY InitCInv, <1>1, PTL DEF Spec, IsByteCursor, Cursor!CursorSpec
=============================================================================
