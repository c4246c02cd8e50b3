----------------------------- MODULE PacketLog ------------------------------
(***************************************************************************)
(* What the eight Send*Packet members promise together: every call puts    *)
(* its own packet on the connection, once, whole, and behind the packets   *)
(* the same thread sent before.  The packets of different threads may come *)
(* in any order.                                                           *)
(***************************************************************************)
EXTENDS Integers, Sequences

CONSTANTS Threads, Sizes

VARIABLES log,      \* what the connection was given: a packet and a length
          count     \* how many packets each thread has put there

logged == <<log, count>>

Packet == [by : Threads, nth : Nat, size : Sizes]

LogInit == log = <<>> /\ count = [t \in Threads |-> 0]

PutPacket(t) ==
    /\ count' = [count EXCEPT ![t] = @ + 1]
    /\ \E size \in Sizes :
         LET packet == [by |-> t, nth |-> count[t] + 1, size |-> size]
         IN  log' = Append(log, [packet |-> packet, len |-> size])

LogNext == \E t \in Threads : PutPacket(t)

LogSpec == LogInit /\ [][LogNext]_logged

=============================================================================
