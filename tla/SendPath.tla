------------------------------ MODULE SendPath ------------------------------
(***************************************************************************)
(* The way of a packet from a Send*Packet member to the connection.  Each  *)
(* of them builds the packet in a buffer of its own, stores the buffer and *)
(* the length into the global send_wsabuf and calls WSASend, which reads   *)
(* the two fields again.  The menu thread and the receive thread both do   *)
(* this, with nothing between them.                                        *)
(*                                                                         *)
(* The stores and the reads of the two fields are steps of their own, and  *)
(* as nothing orders them, either field may come first.  The buffers are   *)
(* never freed, so what send_wsabuf.buf points to is always a packet, once *)
(* the first one has been stored.                                          *)
(***************************************************************************)
EXTENDS Integers, Sequences

CONSTANTS
    Threads,    \* the threads that send
    Sizes,      \* the lengths packets have
    Unset,      \* the send_buffer the constructor points send_wsabuf at
    MaxCalls    \* bound: how many packets a thread sends

ASSUME SendAssumption ==
    /\ Sizes \subseteq Nat /\ Unset \notin [by : Threads, nth : Nat, size : Sizes]
    /\ MaxCalls \in Nat

VARIABLES
    alone,          \* a thread begins to send only when no other one does
    send_wsabuf,    \* the global: buf, a packet, and len
    pc,             \* what each thread does in its Send*Packet
    left,           \* which fields of send_wsabuf it has yet to access
    packet,         \* the packet it has built
    got,            \* what WSASend has read of send_wsabuf
    calls,          \* how many packets it has built
    met,            \* the packets of the calls that meet this one, its own too
    wire,           \* what the connection was given
    taken,          \* how many transfers of each thread it took
    connected

path == <<send_wsabuf, pc, left, packet, got, calls, met>>
vars == <<alone, path, wire, taken, connected>>

Fields == {"buf", "len"}
Packet == [by : Threads, nth : Nat, size : Sizes]
Buffer == Packet \union {Unset}

Busy(t) == pc[t] # "idle"

Sending == {t \in Threads : Busy(t)}

Init ==
    /\ alone \in BOOLEAN
    /\ send_wsabuf \in [buf : {Unset}, len : Sizes]
    /\ pc = [t \in Threads |-> "idle"] /\ left = [t \in Threads |-> {}]
    /\ packet = [t \in Threads |-> Unset]
    /\ got = [t \in Threads |-> send_wsabuf]
    /\ calls = [t \in Threads |-> 0] /\ met = [t \in Threads |-> {}]
    /\ wire = <<>> /\ taken = [t \in Threads |-> 0] /\ connected = TRUE

-----------------------------------------------------------------------------
(* The packet is serialised and copied behind its header, in new memory.   *)
Build(t) ==
    /\ pc[t] = "idle" /\ calls[t] < MaxCalls
    /\ alone => Sending = {}
    /\ \E size \in Sizes :
         LET new == [by |-> t, nth |-> calls[t] + 1, size |-> size]
         IN  /\ packet' = [packet EXCEPT ![t] = new]
             /\ met' = [u \in Threads |->
                          IF u = t THEN {new} \union {packet[v] : v \in Sending}
                          ELSE IF Busy(u) THEN met[u] \union {new} ELSE met[u]]
    /\ calls' = [calls EXCEPT ![t] = @ + 1]
    /\ pc' = [pc EXCEPT ![t] = "store"] /\ left' = [left EXCEPT ![t] = Fields]
    /\ UNCHANGED <<alone, send_wsabuf, got, wire, taken, connected>>

(* Mutant: the thread does not wait for the other field once len is done.  *)
DoneAtOnce(t, field, next) ==
    /\ pc' = [pc EXCEPT ![t] = IF field = "buf" THEN @ ELSE next]
    /\ left' = [left EXCEPT ![t] =
                  IF field = "buf" THEN @ \ {field}
                  ELSE IF next = "fetch" THEN Fields ELSE {}]

(* A field is done; behind the last one the thread goes on.                *)
Done(t, field, next) ==
    IF left[t] = {field}
      THEN /\ pc' = [pc EXCEPT ![t] = next]
           /\ left' = [left EXCEPT ![t] = IF next = "fetch" THEN Fields ELSE {}]
      ELSE /\ left' = [left EXCEPT ![t] = @ \ {field}]
           /\ UNCHANGED pc

Store(t, field) ==
    /\ pc[t] = "store" /\ field \in left[t]
    /\ send_wsabuf' = [send_wsabuf EXCEPT ![field] =
                         IF field = "buf" THEN packet[t] ELSE packet[t].size]
    /\ Done(t, field, "fetch")
    /\ UNCHANGED <<alone, packet, got, calls, met, wire, taken, connected>>

(* WSASend is given the address of send_wsabuf.                            *)
Fetch(t, field) ==
    /\ pc[t] = "fetch" /\ field \in left[t]
    /\ got' = [got EXCEPT ![t][field] = send_wsabuf[field]]
    /\ Done(t, field, "send")
    /\ UNCHANGED <<alone, send_wsabuf, packet, calls, met, wire, taken, connected>>

(* Mutant: the connection is given one byte more than the packet has.      *)
GiveLonger(t) ==
    IF connected
      THEN /\ wire' = Append(wire, [packet |-> got[t].buf, len |-> got[t].len + 1])
           /\ taken' = [taken EXCEPT ![t] = @ + 1]
      ELSE UNCHANGED <<wire, taken>>

(* The blocking send ends when all of it is taken; an error is only shown. *)
Give(t) ==
    IF connected
      THEN /\ wire' = Append(wire, [packet |-> got[t].buf, len |-> got[t].len])
           /\ taken' = [taken EXCEPT ![t] = @ + 1]
      ELSE UNCHANGED <<wire, taken>>

Transfer(t) ==
    /\ pc[t] = "send"
    /\ Give(t)
    /\ pc' = [pc EXCEPT ![t] = "idle"]
    /\ met' = [met EXCEPT ![t] = {}]
    /\ UNCHANGED <<alone, send_wsabuf, left, packet, got, calls, connected>>

(* A connection that has failed stays failed.                              *)
Disconnect ==
    /\ connected /\ connected' = FALSE
    /\ UNCHANGED <<alone, path, wire, taken>>

ThreadStep(t) ==
    \/ Build(t) \/ Transfer(t)
    \/ \E field \in Fields : Store(t, field) \/ Fetch(t, field)

(* Every thread has sent all that the bound lets it send.                  *)
AllSent ==
    /\ \A t \in Threads : ~Busy(t) /\ calls[t] = MaxCalls
    /\ UNCHANGED vars

Next == (\E t \in Threads : ThreadStep(t)) \/ Disconnect \/ AllSent

Spec == Init /\ [][Next]_vars

-----------------------------------------------------------------------------
TypeOK ==
    /\ alone \in BOOLEAN
    /\ send_wsabuf \in [buf : Buffer, len : Sizes]
    /\ pc \in [Threads -> {"idle", "store", "fetch", "send"}]
    /\ left \in [Threads -> SUBSET Fields]
    /\ packet \in [Threads -> Buffer]
    /\ got \in [Threads -> [buf : Buffer, len : Sizes]]
    /\ calls \in [Threads -> Nat] /\ met \in [Threads -> SUBSET Packet]
    /\ wire \in Seq([packet : Buffer, len : Sizes])
    /\ taken \in [Threads -> Nat] /\ connected \in BOOLEAN

(* A call of Send*Packet during which no other thread was in one hands the *)
(* connection its own packet and that packet's length, whatever the calls  *)
(* before it left in send_wsabuf.                                          *)
UndisturbedIsWhole ==
    \A t \in Threads :
      pc[t] = "send" /\ met[t] = {packet[t]}
        => got[t] = [buf |-> packet[t], len |-> packet[t].size]

(* Calls that cross may take each other's fields, and one may pair the     *)
(* packet of one with the length of another.  But nothing older than the   *)
(* call is left: both fields come from calls that were under way with it,  *)
(* never from one that was over, nor from the constructor.                 *)
NothingStale ==
    \A t \in Threads :
      pc[t] = "send" =>
        /\ got[t].buf \in met[t]
        /\ \E other \in met[t] : got[t].len = other.size

(* Threads that do not send at the same time deliver every packet once,    *)
(* whole and in its thread's order, until the connection fails.            *)
Log == INSTANCE PacketLog WITH
         log   <- IF alone THEN wire ELSE <<>>,
         count <- IF alone THEN taken ELSE [t \in Threads |-> 0]

KeepsPacketLog == Log!LogSpec
=============================================================================
