----------------------------- MODULE CodedStream -----------------------------
(***************************************************************************)
(* CodedInputStream over an ArrayInputStream, the two streams PacketProcess *)
(* makes of the receive buffer and of every payload.  The array is handed  *)
(* out in blocks; a call that needs more than the block at hand copies     *)
(* what there is and refreshes.                                            *)
(*                                                                         *)
(* Pointers are offsets into the array, and NULL is 0: buffer_ is never    *)
(* looked at when it is buffer_end_.  The bytes are ByteCursor's.          *)
(* total_bytes_limit_ is never set and stays INT_MAX.                      *)
(***************************************************************************)
EXTENDS Integers, Sequences, SequencesExt

CONSTANTS
    IntMax, MaxVarintBytes,     \* as in ByteCursor
    Sizes,          \* the lengths of the array; a payload's may be negative
    BlockSizes,     \* the lengths of its blocks; 0 is none, the whole array
    Counts,         \* what the calls are asked for
    MaxLimits       \* bound: how many limits are pushed at a time

ASSUME StreamAssumption ==
    /\ IntMax \in Nat /\ MaxVarintBytes \in Nat \ {0} /\ MaxLimits \in Nat
    /\ Sizes \subseteq -IntMax..IntMax /\ Counts \subseteq -IntMax..IntMax
    /\ BlockSizes \subseteq Nat

VARIABLES
    size, block, more,                      \* the array
    position, last_returned_size,           \* ArrayInputStream
    buffer, buffer_end, total_bytes_read,   \* CodedInputStream
    buffer_size_after_limit, overflow_bytes, current_limit,
    old_limits,     \* the limits PushLimit returned, which the callers keep
    call,           \* what is being done
    start, left,    \* of a read: where it began and what it still needs
    got,            \* the bytes it has copied
    answer          \* the last call and what it returned

array  == <<size, block, more>>
input  == <<position, last_returned_size>>
window == <<buffer, buffer_end, total_bytes_read, buffer_size_after_limit, overflow_bytes>>
bounds == <<current_limit, old_limits>>
asked  == <<start, left, got>>
vars   == <<array, input, window, bounds, call, asked, answer>>

NULL == 0

Span(from, n) == [i \in 1..n |-> from + i - 1]
Served(what, n, bytes) == [call |-> what, n |-> n, ok |-> TRUE, bytes |-> bytes]
Failed(what, n) == [call |-> what, n |-> n, ok |-> FALSE, bytes |-> <<>>]

Init ==
    /\ size \in Sizes
    /\ block \in {IF b > 0 THEN b ELSE size : b \in BlockSizes}
    /\ more \in [1..size -> BOOLEAN]
    /\ position = 0 /\ last_returned_size = 0
    /\ buffer = NULL /\ buffer_end = NULL /\ total_bytes_read = 0
    /\ buffer_size_after_limit = 0 /\ overflow_bytes = 0
    /\ current_limit = IntMax /\ old_limits = <<>>
    /\ call = "construct" /\ start = 0 /\ left = 0 /\ got = <<>>
    /\ answer = Failed("none", 0)

-----------------------------------------------------------------------------
BufferSize == buffer_end - buffer

CurrentPosition == total_bytes_read - (BufferSize + buffer_size_after_limit)

Idle == call = "none"

Return(result) ==
    /\ call' = "none" /\ answer' = result
    /\ start' = 0 /\ left' = 0 /\ got' = <<>>

(* RecomputeBufferLimits, for a buffer that ends at end, limit or not.     *)
LimitBuffer(end, total, limit) ==
    /\ buffer_size_after_limit' = Max({0, total - limit})
    /\ buffer_end' = end - Max({0, total - limit})

(* Refresh.  At a limit nothing happens; at the end of the array the       *)
(* buffer is lost; else there is a block.                                  *)
AtLimit ==
    buffer_size_after_limit > 0 \/ overflow_bytes > 0 \/ total_bytes_read = current_limit

Refreshable == ~AtLimit /\ position < size

RefreshStops ==
    /\ AtLimit
    /\ buffer' = buffer_end
    /\ UNCHANGED <<input, buffer_end, total_bytes_read, buffer_size_after_limit,
                   overflow_bytes>>

RefreshEnds ==
    /\ ~AtLimit /\ position >= size
    /\ last_returned_size' = 0
    /\ buffer' = NULL /\ buffer_end' = NULL
    /\ UNCHANGED <<position, total_bytes_read, buffer_size_after_limit, overflow_bytes>>

RefreshGets ==
    LET chunk == Min({block, size - position})
        total == Min({total_bytes_read + chunk, IntMax})
        over  == total_bytes_read + chunk - total
    IN  /\ Refreshable
        /\ position' = position + chunk /\ last_returned_size' = chunk
        /\ buffer' = position
        /\ total_bytes_read' = total /\ overflow_bytes' = over
        /\ LimitBuffer(position + chunk - over, total, current_limit)

Refresh == RefreshStops \/ RefreshEnds \/ RefreshGets

Construct ==
    /\ call = "construct"
    /\ Refresh
    /\ call' = "none"
    /\ UNCHANGED <<array, bounds, asked, answer>>

-----------------------------------------------------------------------------
Advance(n) ==
    /\ buffer' = buffer + n
    /\ UNCHANGED <<input, buffer_end, total_bytes_read, buffer_size_after_limit,
                   overflow_bytes>>

Begin(what, n) ==
    /\ call' = what /\ start' = CurrentPosition /\ left' = n /\ got' = <<>>
    /\ UNCHANGED <<array, input, window, bounds, answer>>

(* ReadRaw and ReadString, which refuses a negative length (the lengths    *)
(* given to ReadRaw are constants).                                        *)
Read(n) ==
    /\ Idle
    /\ IF n < 0 THEN Return(Failed("read", n)) /\ UNCHANGED <<array, input, window, bounds>>
                ELSE Begin("read", n)

(* Mutant: what is in the buffer is not copied before the refresh.         *)
ReadAcrossNoCopy ==
    /\ call = "read" /\ BufferSize < left
    /\ Refresh
    /\ IF Refreshable
         THEN /\ left' = left - BufferSize /\ UNCHANGED <<call, start, got, answer>>
         ELSE Return(Failed("read", Len(got) + left))
    /\ UNCHANGED <<array, bounds>>

(* The end of the buffer: copy what it has, then refresh.                  *)
ReadAcross ==
    /\ call = "read" /\ BufferSize < left
    /\ Refresh
    /\ IF Refreshable
         THEN /\ got' = got \o Span(buffer, BufferSize)
              /\ left' = left - BufferSize
              /\ UNCHANGED <<call, start, answer>>
         ELSE Return(Failed("read", Len(got) + left))
    /\ UNCHANGED <<array, bounds>>

ReadInBuffer ==
    /\ call = "read" /\ BufferSize >= left
    /\ Advance(left)
    /\ Return(Served("read", Len(got) + left, got \o Span(buffer, left)))
    /\ UNCHANGED <<array, bounds>>

-----------------------------------------------------------------------------
(* ReadVarint: from the array, without a look at the end, if the varint    *)
(* must end in the buffer; and else byte by byte.                          *)
EndsInBuffer ==
    BufferSize >= MaxVarintBytes \/ (BufferSize > 0 /\ ~more[buffer_end])

ReadVarint ==
    /\ Idle /\ ~EndsInBuffer
    /\ Begin("varint", MaxVarintBytes)

ReadVarintFromArray ==
    /\ Idle /\ EndsInBuffer
    /\ LET Ends(k) == (\A i \in 1..k - 1 : more[buffer + i]) /\ ~more[buffer + k]
       IN  \/ \E k \in 1..MaxVarintBytes :
                Ends(k) /\ Advance(k) /\ Return(Served("varint", 0, Span(buffer, k)))
           \/ /\ \A k \in 1..MaxVarintBytes : ~Ends(k)
              /\ Return(Failed("varint", 0)) /\ UNCHANGED <<input, window>>
    /\ UNCHANGED <<array, bounds>>

(* ReadVarint64Slow: left counts down from kMaxVarintBytes.                *)
VarintTooLong ==
    /\ call = "varint" /\ left = 0
    /\ Return(Failed("varint", 0))
    /\ UNCHANGED <<array, input, window, bounds>>

VarintAcross ==
    /\ call = "varint" /\ left > 0 /\ BufferSize = 0
    /\ Refresh
    /\ IF Refreshable THEN UNCHANGED <<call, asked, answer>> ELSE Return(Failed("varint", 0))
    /\ UNCHANGED <<array, bounds>>

VarintByte ==
    /\ call = "varint" /\ left > 0 /\ BufferSize > 0
    /\ Advance(1)
    /\ IF more[buffer + 1]
         THEN /\ got' = Append(got, buffer) /\ left' = left - 1
              /\ UNCHANGED <<call, start, answer>>
         ELSE Return(Served("varint", 0, Append(got, buffer)))
    /\ UNCHANGED <<array, bounds>>

-----------------------------------------------------------------------------
SkipRefused(n) ==
    /\ Idle /\ n < 0
    /\ Return(Failed("skip", n))
    /\ UNCHANGED <<array, input, window, bounds>>

SkipInBuffer(n) ==
    /\ Idle /\ n \in 0..BufferSize
    /\ Advance(n)
    /\ Return(Served("skip", n, <<>>))
    /\ UNCHANGED <<array, bounds>>

SkipToLimit(n) ==
    /\ Idle /\ n > BufferSize /\ buffer_size_after_limit > 0
    /\ Advance(BufferSize)
    /\ Return(Failed("skip", n))
    /\ UNCHANGED <<array, bounds>>

(* ArrayInputStream::Skip                                                  *)
SkipInput(n) ==
    /\ last_returned_size' = 0
    /\ position' = IF n > size - position THEN size ELSE position + n

(* Mutant: the buffer is kept when the input is skipped.                   *)
SkipBehindKeepsBuffer(n) ==
    LET rest  == n - BufferSize
        until == current_limit - total_bytes_read
    IN  /\ Idle /\ rest > 0 /\ buffer_size_after_limit = 0
        /\ IF until < rest
             THEN /\ IF until > 0 THEN SkipInput(until) ELSE UNCHANGED input
                  /\ total_bytes_read' = Max({total_bytes_read, current_limit})
                  /\ Return(Failed("skip", n))
             ELSE /\ SkipInput(rest)
                  /\ total_bytes_read' = total_bytes_read + rest
                  /\ Return(IF rest > size - position THEN Failed("skip", n)
                                                  ELSE Served("skip", n, <<>>))
        /\ UNCHANGED <<array, bounds, buffer, buffer_end, buffer_size_after_limit,
                       overflow_bytes>>

(* Past the buffer: the input is skipped, but not past the limit.          *)
SkipBehind(n) ==
    LET rest  == n - BufferSize
        until == current_limit - total_bytes_read
    IN  /\ Idle /\ rest > 0 /\ buffer_size_after_limit = 0
        /\ buffer' = NULL /\ buffer_end' = NULL
        /\ IF until < rest
             THEN /\ IF until > 0 THEN SkipInput(until) ELSE UNCHANGED input
                  /\ total_bytes_read' = Max({total_bytes_read, current_limit})
                  /\ Return(Failed("skip", n))
             ELSE /\ SkipInput(rest)
                  /\ total_bytes_read' = total_bytes_read + rest
                  /\ Return(IF rest > size - position THEN Failed("skip", n)
                                                  ELSE Served("skip", n, <<>>))
        /\ UNCHANGED <<array, bounds, buffer_size_after_limit, overflow_bytes>>

Skip(n) == SkipRefused(n) \/ SkipInBuffer(n) \/ SkipToLimit(n) \/ SkipBehind(n)

GetDirectBufferPointer ==
    /\ Idle
    /\ IF BufferSize > 0 THEN UNCHANGED <<input, window>> ELSE Refresh
    /\ Return(IF BufferSize > 0 \/ Refreshable
                THEN Served("peek", 0, Span(buffer', buffer_end' - buffer'))
                ELSE Failed("peek", 0))
    /\ UNCHANGED <<array, bounds>>

-----------------------------------------------------------------------------
PushLimit(n) ==
    LET wanted == IF n >= 0 /\ n <= IntMax - CurrentPosition
                    THEN CurrentPosition + n ELSE IntMax
    IN  /\ Idle /\ Len(old_limits) < MaxLimits
        /\ old_limits' = Append(old_limits, current_limit)
        /\ current_limit' = Min({wanted, current_limit})
        /\ LimitBuffer(buffer_end + buffer_size_after_limit, total_bytes_read,
                       current_limit')
        /\ UNCHANGED <<array, input, buffer, total_bytes_read, overflow_bytes,
                       call, asked, answer>>

(* Mutant: the part of the buffer behind the limit is not given back.      *)
PopLimitOnly ==
    /\ Idle /\ old_limits # <<>>
    /\ current_limit' = Last(old_limits) /\ old_limits' = Front(old_limits)
    /\ UNCHANGED <<array, input, window, call, asked, answer>>

PopLimit ==
    /\ Idle /\ old_limits # <<>>
    /\ current_limit' = Last(old_limits) /\ old_limits' = Front(old_limits)
    /\ LimitBuffer(buffer_end + buffer_size_after_limit, total_bytes_read,
                   current_limit')
    /\ UNCHANGED <<array, input, buffer, total_bytes_read, overflow_bytes,
                   call, asked, answer>>

(* Mutant: what lies behind the limit is not backed up over.               *)
BackupUpToLimit == BufferSize + overflow_bytes

(* BackUpInputToCurrentPosition.                                           *)
BackupBytes == BufferSize + buffer_size_after_limit + overflow_bytes

(* The GOOGLE_CHECKs of ArrayInputStream::BackUp end the process.          *)
MayBackUp(n) == 0 < last_returned_size /\ n \in 0..last_returned_size

Destroy ==
    /\ Idle
    /\ IF BackupBytes > 0
         THEN /\ call' = IF MayBackUp(BackupBytes) THEN "gone" ELSE "aborted"
              /\ position' = position - BackupBytes /\ last_returned_size' = 0
              /\ total_bytes_read' =
                   total_bytes_read - (BufferSize + buffer_size_after_limit)
              /\ buffer_end' = buffer /\ buffer_size_after_limit' = 0
              /\ overflow_bytes' = 0
              /\ UNCHANGED buffer
         ELSE call' = "gone" /\ UNCHANGED <<input, window>>
    /\ UNCHANGED <<array, bounds, asked, answer>>

Gone == call \in {"gone", "aborted"} /\ UNCHANGED vars

Next ==
    \/ Construct \/ ReadAcross \/ ReadInBuffer
    \/ ReadVarint \/ ReadVarintFromArray
    \/ VarintTooLong \/ VarintAcross \/ VarintByte
    \/ \E n \in Counts : Read(n) \/ Skip(n) \/ PushLimit(n)
    \/ GetDirectBufferPointer \/ PopLimit \/ Destroy \/ Gone

Spec == Init /\ [][Next]_vars

-----------------------------------------------------------------------------
(* The types; and what is in the buffer, with what lies behind the limit,  *)
(* is the last of what the array has handed out.                           *)
TypeOK ==
    /\ size \in Int /\ block \in Int /\ more \in [1..size -> BOOLEAN]
    /\ position \in Int /\ last_returned_size \in Nat
    /\ buffer \in Nat /\ buffer_end \in Nat /\ buffer <= buffer_end
    /\ total_bytes_read \in 0..IntMax
    /\ buffer_size_after_limit \in Nat /\ overflow_bytes \in Nat
    /\ BackupBytes > 0 => buffer + BackupBytes = position
    /\ current_limit \in 0..IntMax /\ old_limits \in Seq(0..IntMax)
    /\ call \in {"construct", "none", "read", "varint", "gone", "aborted"}
    /\ start \in Nat /\ left \in Nat /\ got \in Seq(Nat)
    /\ answer \in [call : {"none", "read", "varint", "skip", "peek"}, n : Int,
                   ok : BOOLEAN, bytes : Seq(Nat)]

(* "BackUp() can only be called after a successful Next()", and not by     *)
(* more than that returned: whatever was read, skipped and limited, the    *)
(* destructor keeps to it and the process goes on.                         *)
NeverAborts == call # "aborted"

(* "Destroy the CodedInputStream and position the underlying stream at the *)
(* first unread byte", unless a skip has gone past the end of the array.   *)
LeavesFirstUnread ==
    call = "gone" => \/ position = CurrentPosition
                     \/ position = size /\ CurrentPosition > size

(* An array that is one block, as PacketProcess's are, is in the buffer up *)
(* to its end or the limit: the remaining length PacketProcess is told is  *)
(* all that remains.                                                       *)
OneBlockIsAll ==
    Idle /\ block = size
      => BufferSize = Max({0, Min({current_limit, size}) - CurrentPosition})

(* The blocks, the buffer and its limits together are a ByteCursor: every  *)
(* call answers with the next bytes, across blocks too, or fails if the    *)
(* limit or the end of the array is in the way.                            *)
Cursor == INSTANCE ByteCursor WITH
    pos    <- IF call \in {"read", "varint"} THEN start ELSE CurrentPosition,
    limits <- Append(old_limits, current_limit)

IsByteCursor == Cursor!CursorSpec
=============================================================================
