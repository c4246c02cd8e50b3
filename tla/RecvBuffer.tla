----------------------------- MODULE RecvBuffer ------------------------------
(***************************************************************************)
(* RecvThread over a byte stream: the server's messages arrive as one      *)
(* stream of cells, WSARecv puts any non-empty part of it at the start of  *)
(* recv_buffer, and PacketProcess (FrameParser) parses the whole buffer.   *)
(* How much was received is not looked at, and what a pass did not consume *)
(* is not kept for the next one.                                           *)
(*                                                                         *)
(* A cell is 4 bytes, as in FrameParser: no read is modelled that splits a *)
(* header field.                                                           *)
(*                                                                         *)
(* The server's code is not in the repository, and what is disagrees about *)
(* header.size: every sender of the client counts the header into it (line *)
(* 370 and its siblings), PacketProcess takes it for the body alone.  Both *)
(* kinds of server are modelled.                                           *)
(***************************************************************************)
EXTENDS FrameParser

CONSTANTS
    Messages,       \* what the server may send: records of type and body
    MaxMessages,    \* bound: how many messages it sends
    MaxReads,       \* bound: how often the client reads
    Fill            \* what recv_buffer may hold before the first read: it is
                    \* never initialised

ASSUME StreamAssumption ==
    /\ MaxMessages \in Nat /\ MaxReads \in Nat
    /\ Messages \subseteq [type : Cells, body : Seq(Cells)]
    /\ \A message \in Messages :                               \* as an int
         2 * (Len(message.body) + MessageHeaderSize) < Wrap
    /\ Fill \subseteq [1..BufSize -> Cells]

VARIABLES
    counted,    \* the server counts the header into header.size
    stream,     \* the cells in flight to the client
    sent,       \* the messages sent: type, and the span of the stream they fill
    first,      \* where in the stream the last read began
    iobyte,     \* how much it read
    reads,      \* how often the client has read
    eof         \* the server has closed its side

source == <<counted, stream, sent, eof>>
lastRead == <<first, iobyte, reads>>
streamVars == <<parser, source, lastRead>>

StreamInit ==
    /\ recv_buffer \in Fill
    /\ pos = 0 /\ parsing = FALSE /\ dispatched = <<>>
    /\ counted \in BOOLEAN /\ stream = <<>> /\ sent = <<>> /\ eof = FALSE
    /\ first = 0 /\ iobyte = 0 /\ reads = 0

-----------------------------------------------------------------------------
(* By how much header.size exceeds the body.                               *)
Over == IF counted THEN MessageHeaderSize ELSE 0

Frame(message) == <<message.type, Len(message.body) + Over>> \o message.body

StreamEnd == IF sent = <<>> THEN 0 ELSE sent[Len(sent)].to

ServerSends ==
    /\ ~eof /\ Len(sent) < MaxMessages
    /\ \E message \in Messages :
         /\ stream' = stream \o Frame(message)
         /\ sent' = Append(sent, [type |-> message.type, from |-> StreamEnd,
                                  to |-> StreamEnd + Len(Frame(message))])
    /\ UNCHANGED <<counted, eof, parser, lastRead>>

ServerCloses ==
    /\ ~eof /\ eof' = TRUE
    /\ UNCHANGED <<counted, stream, sent, parser, lastRead>>

(* A new pass over the buffer, from its start.                             *)
BeginPass ==
    /\ pos' = 0 /\ parsing' = TRUE /\ dispatched' = <<>>
    /\ first' = first + iobyte
    /\ reads < MaxReads /\ reads' = reads + 1

(* Mutant: what is received goes behind what the last read left.           *)
WSARecvBehind ==
    /\ ~parsing
    /\ \E n \in 1..Len(stream) :
         /\ n <= BufSize
         /\ recv_buffer' = [i \in 1..BufSize |->
              IF i <= iobyte \/ i > iobyte + n THEN recv_buffer[i]
                                               ELSE stream[i - iobyte]]
         /\ stream' = SubSeq(stream, n + 1, Len(stream))
         /\ iobyte' = n
    /\ BeginPass
    /\ UNCHANGED <<counted, sent, eof>>

WSARecv ==
    /\ ~parsing
    /\ \E n \in 1..Len(stream) :
         /\ n <= BufSize
         /\ recv_buffer' = [i \in 1..BufSize |->
                              IF i <= n THEN stream[i] ELSE recv_buffer[i]]
         /\ stream' = SubSeq(stream, n + 1, Len(stream))
         /\ iobyte' = n
    /\ BeginPass
    /\ UNCHANGED <<counted, sent, eof>>

(* The end of the stream is reported as a read of nothing, which is not an *)
(* error: the buffer is parsed once more.                                  *)
WSARecvZero ==
    /\ ~parsing /\ eof /\ stream = <<>>
    /\ iobyte' = 0
    /\ BeginPass
    /\ UNCHANGED <<recv_buffer, source>>

Parse == ParseStep /\ UNCHANGED <<source, lastRead>>

(* The bounds, or a server that sends nothing, may stop everything.        *)
Idle == ~parsing /\ UNCHANGED streamVars

StreamNext == ServerSends \/ ServerCloses \/ WSARecv \/ WSARecvZero \/ Parse \/ Idle

StreamSpec == StreamInit /\ [][StreamNext]_streamVars

(* The receive thread is scheduled; the rest may stop.                     *)
StreamFairSpec == StreamSpec /\ WF_streamVars(Parse)

-----------------------------------------------------------------------------
Boundaries == {0} \union {sent[i].to : i \in 1..Len(sent)}

(* The read began with the header of a message.                            *)
Aligned == first \in Boundaries

(* Where a message ends as its header has it, and whether a pass over a    *)
(* read that begins with a message comes to it in step: a server that      *)
(* counts the header in puts the pass out of step with the first.          *)
End(message) == message.to + Over

Met(message) == /\ first <= message.from
                /\ counted => message.from = first

(* The messages of the last read that are met and lie in it as a whole,    *)
(* and of them those that have a handler.                                  *)
Whole(message) == Met(message) /\ End(message) <= first + iobyte

Due == {i \in 1..Len(sent) : Whole(sent[i]) /\ sent[i].type \in Handled}

(* What its handler is given of a message, and where it lies in the buffer. *)
Payload(message) ==
    [type |-> message.type, from |-> message.from - first + MessageHeaderSize,
     to   |-> End(message) - first]

(* The first n messages handed out are those due, in the order they lie in *)
(* the stream.                                                             *)
Delivered(n) ==
    /\ {dispatched[k] : k \in 1..n} = {Payload(sent[i]) : i \in Due}
    /\ \A k, l \in 1..n : k < l => dispatched[k].to < dispatched[l].from

(* A read that begins with a message delivers the messages it contains as  *)
(* a whole, all of them, each once and in the order they were sent, before *)
(* anything else the pass may find in the buffer, if the server counts the *)
(* body alone; the first of them and no other in its place, if it counts   *)
(* the header in, and that one with what lies behind it.                   *)
WholeMessagesFirst ==
    ~parsing /\ Aligned => \E n \in 0..Len(dispatched) : Delivered(n)

(* A message met whose header was received, but not all its header claims. *)
Cut(message) ==
    /\ Met(message) /\ message.from + MessageHeaderSize <= first + iobyte
    /\ first + iobyte < End(message)

(* And a message that is cut by the end of such a read is, next and in its *)
(* full length, completed with the old bytes behind it if the buffer has   *)
(* room for it, and dropped with the rest of the pass if not: no old byte  *)
(* of its body is ever taken for a header.                                 *)
CutMessageIsOne ==
    ~parsing /\ Aligned =>
      \A i \in 1..Len(sent) :
        Cut(sent[i]) /\ sent[i].type \in Handled =>
          \E n \in 0..Len(dispatched) :
            /\ Delivered(n)
            /\ IF End(sent[i]) <= first + BufSize
                 THEN n < Len(dispatched) /\ dispatched[n + 1] = Payload(sent[i])
                 ELSE n = Len(dispatched)

(* "The remaining length" bounds the messages of a pass by what has been   *)
(* received: a read of whole messages delivers these and no others, if the *)
(* size of a message is what PacketProcess takes it for.                   *)
OnlyWhatWasReceived ==
    ~counted /\ Aligned /\ first + iobyte \in Boundaries
      => \A i \in 1..Len(dispatched) : dispatched[i].to <= iobyte
=============================================================================
