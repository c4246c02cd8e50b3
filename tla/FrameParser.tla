----------------------------- MODULE FrameParser -----------------------------
(***************************************************************************)
(* PacketProcess: one pass over the receive buffer.  A frame is a header,  *)
(* type and size, and size bytes of payload.  The pass reads a header,     *)
(* gives up if what is left of the buffer is shorter than size, and else   *)
(* hands the payload to the handler of the type and skips over it.         *)
(*                                                                         *)
(* The buffer is a function from positions to numbers.  A cell stands for  *)
(* one 4 byte field of the header and size counts cells, so the arithmetic *)
(* is that of the code on a smaller scale: a header is 2 cells (8 bytes),  *)
(* BufSize stands for 1024 bytes and Wrap for 2^32.  What the handlers do  *)
(* is ChatSession's; here a dispatch is recorded with its payload's span.  *)
(***************************************************************************)
EXTENDS Integers, Sequences

CONSTANTS
    BufSize,    \* the length of recv_buffer
    Wrap,       \* sizes are unsigned numbers below Wrap
    Handled     \* the message types PacketProcess has a case for

ASSUME ParserAssumption ==
    /\ BufSize \in Nat
    /\ Wrap \in Nat \ {0}
    /\ Handled \subseteq 0..Wrap - 1

VARIABLES
    recv_buffer,
    pos,        \* how much of the buffer the stream has consumed
    parsing,    \* PacketProcess is in its loop
    dispatched  \* the messages handed to a handler by this pass

parser == <<recv_buffer, pos, parsing, dispatched>>

MessageHeaderSize == 2
Cells == 0..Wrap - 1

(* The cast of an unsigned size to signed, or its conversion to int.       *)
Signed(v) == IF 2 * v < Wrap THEN v ELSE v - Wrap

Header == [type |-> recv_buffer[pos + 1], size |-> recv_buffer[pos + 2]]

HeaderFits == pos + MessageHeaderSize <= BufSize

(* GetDirectBufferPointer, after the header has been read.                 *)
RemainSize == BufSize - (pos + MessageHeaderSize)

(* Skip refuses a negative count, and an array stream of negative length   *)
(* is at its end: the message is parsed from nothing.                      *)
SpanOf(size) == IF size < 0 THEN 0 ELSE size

Starts ==
    pos = 0 /\ parsing = TRUE /\ dispatched = <<>>

(* The buffer may hold anything: recv_buffer is never initialised.         *)
Init == recv_buffer \in [1..BufSize -> Cells] /\ Starts

-----------------------------------------------------------------------------
(* ReadRaw takes what is left, which is no header, and fails.              *)
NoHeader ==
    /\ parsing /\ ~HeaderFits
    /\ parsing' = FALSE /\ pos' = BufSize
    /\ UNCHANGED <<recv_buffer, dispatched>>

(* Mutant: the pass goes on behind the header.                             *)
CutMessageGoesOn ==
    /\ parsing /\ HeaderFits /\ RemainSize < Signed(Header.size)
    /\ pos' = pos + MessageHeaderSize
    /\ UNCHANGED <<recv_buffer, parsing, dispatched>>

(* The rest of the message is not in the buffer: break.                    *)
CutMessage ==
    /\ parsing /\ HeaderFits /\ RemainSize < Signed(Header.size)
    /\ parsing' = FALSE /\ pos' = pos + MessageHeaderSize
    /\ UNCHANGED <<recv_buffer, dispatched>>

Handle(header) ==
    dispatched' =
      IF header.type \in Handled
        THEN Append(dispatched,
                    [type |-> header.type,
                     from |-> pos + MessageHeaderSize,
                     to   |-> pos + MessageHeaderSize + SpanOf(Signed(header.size))])
        ELSE dispatched

(* Mutant: the header's own length is not subtracted.                      *)
DispatchPastHeader ==
    /\ parsing /\ HeaderFits /\ BufSize - pos >= Signed(Header.size)
    /\ Handle(Header)
    /\ pos' = pos + MessageHeaderSize + SpanOf(Signed(Header.size))
    /\ UNCHANGED <<recv_buffer, parsing>>

(* Mutant: a negative size moves the stream backwards.                     *)
DispatchBackwards ==
    /\ parsing /\ HeaderFits /\ RemainSize >= Signed(Header.size)
    /\ Handle(Header)
    /\ pos' = IF pos + MessageHeaderSize + Signed(Header.size) < 0 THEN 0
              ELSE pos + MessageHeaderSize + Signed(Header.size)
    /\ UNCHANGED <<recv_buffer, parsing>>

(* Mutant: only the payload is skipped, not the header.                    *)
DispatchNoSkip ==
    /\ parsing /\ HeaderFits /\ RemainSize >= Signed(Header.size)
    /\ Handle(Header)
    /\ pos' = pos + MessageHeaderSize
    /\ UNCHANGED <<recv_buffer, parsing>>

DispatchMessage ==
    /\ parsing /\ HeaderFits /\ RemainSize >= Signed(Header.size)
    /\ Handle(Header)
    /\ pos' = pos + MessageHeaderSize + SpanOf(Signed(Header.size))
    /\ UNCHANGED <<recv_buffer, parsing>>

ParseStep == NoHeader \/ CutMessage \/ DispatchMessage

(* The pass over the buffer has ended.                                     *)
Parsed == ~parsing /\ UNCHANGED parser

Next == ParseStep \/ Parsed

Spec == Init /\ [][Next]_parser

-----------------------------------------------------------------------------
(* The types; the stream that PacketProcess reads never leaves the buffer. *)
TypeOK ==
    /\ recv_buffer \in [1..BufSize -> Cells]
    /\ pos \in 0..BufSize /\ parsing \in BOOLEAN
    /\ dispatched \in Seq([type : Handled, from : Nat, to : Nat])

(* Whatever the buffer holds, sizes above the signed range included, a     *)
(* handler is given bytes of the buffer only, and the messages of one pass *)
(* lie behind one another with a header between them.                      *)
PayloadsApart ==
    /\ \A i \in 1..Len(dispatched) :
         /\ MessageHeaderSize <= dispatched[i].from
         /\ dispatched[i].from <= dispatched[i].to /\ dispatched[i].to <= pos
    /\ \A i, j \in 1..Len(dispatched) :
         i < j => dispatched[i].to + MessageHeaderSize <= dispatched[j].from

(* Every pass ends, so the receive thread gets back to the socket.         *)
PassEnds == parsing ~> ~parsing
=============================================================================
