----------------------------- MODULE ByteCursor ------------------------------
(***************************************************************************)
(* What CodedInputStream promises to those who parse with it: a cursor on  *)
(* an array of bytes that moves over what it has returned, and never past  *)
(* a limit that was pushed.  A call that can be served is served; a call   *)
(* that cannot be served fails, and leaves the cursor anywhere between     *)
(* where it was and the limit.  The answer says which call it answers, so  *)
(* that no call may fail in the place of another one.                      *)
(*                                                                         *)
(* A byte is known by its offset, and by whether a varint goes on behind   *)
(* it.                                                                     *)
(***************************************************************************)
EXTENDS Integers, Sequences

CONSTANTS
    IntMax,             \* INT_MAX: also, as a limit, no limit
    MaxVarintBytes      \* kMaxVarintBytes

VARIABLES
    size, more,         \* the array: its length, and which bytes have the
                        \* continuation bit
    pos,                \* the offset of the first unread byte
    limits,             \* the limits pushed and not popped; the last counts
    answer              \* the last call and what it returned

cursor == <<size, more, pos, limits, answer>>

Smaller(m, n) == IF m < n THEN m ELSE n

Span(from, n) == [i \in 1..n |-> from + i - 1]

Served(what, n, bytes) == [call |-> what, n |-> n, ok |-> TRUE, bytes |-> bytes]
Failed(what, n) == [call |-> what, n |-> n, ok |-> FALSE, bytes |-> <<>>]

Limit == limits[Len(limits)]

(* How much is left.  The length may be negative, and a skip that failed   *)
(* may have gone past the end.                                             *)
Left == IF pos < Smaller(Limit, size) THEN Smaller(Limit, size) - pos ELSE 0

CursorInit == pos = 0 /\ limits = <<IntMax>> /\ answer = Failed("none", 0)

Fail(what, n) ==
    /\ answer' = Failed(what, n) /\ pos <= pos' /\ (pos' = pos \/ pos' <= Limit)
    /\ UNCHANGED <<size, more, limits>>

Serve(what, n, bytes, length) ==
    /\ answer' = Served(what, n, bytes) /\ pos' = pos + length
    /\ UNCHANGED <<size, more, limits>>

(* A varint of k bytes is next.                                            *)
VarintNext(k) ==
    k <= Left /\ ~more[pos + k] /\ \A i \in 1..k - 1 : more[pos + i]

CursorRead(n) ==
    IF n \in 0..Left THEN Serve("read", n, Span(pos, n), n) ELSE Fail("read", n)

CursorVarint ==
    IF \E k \in 1..MaxVarintBytes : VarintNext(k)
      THEN \E k \in 1..MaxVarintBytes :
             VarintNext(k) /\ Serve("varint", 0, Span(pos, k), k)
      ELSE Fail("varint", 0)

CursorSkip(n) ==
    IF n \in 0..Left THEN Serve("skip", n, <<>>, n) ELSE Fail("skip", n)

(* A look at bytes that are next, at least at one.                         *)
CursorPeek ==
    IF Left > 0 THEN \E n \in 1..Left : Serve("peek", 0, Span(pos, n), 0)
                ELSE Fail("peek", 0) /\ UNCHANGED pos

CursorPush(n) ==
    LET wanted == IF n \in 0..IntMax - pos THEN pos + n ELSE IntMax
    IN  /\ limits' = Append(limits, Smaller(wanted, Limit))
        /\ UNCHANGED <<size, more, pos, answer>>

CursorPop ==
    /\ Len(limits) > 1
    /\ limits' = SubSeq(limits, 1, Len(limits) - 1)
    /\ UNCHANGED <<size, more, pos, answer>>

CursorNext ==
    \/ \E n \in -IntMax..IntMax : CursorRead(n) \/ CursorSkip(n) \/ CursorPush(n)
    \/ CursorVarint \/ CursorPeek \/ CursorPop

CursorSpec == CursorInit /\ [][CursorNext]_cursor
=============================================================================
