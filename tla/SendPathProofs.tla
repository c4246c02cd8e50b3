--------------------------- MODULE SendPathProofs ---------------------------
(***************************************************************************)
(* What SendPath's run checks for two threads and two packets each, proved *)
(* for any threads and any number of packets: the invariants, and that     *)
(* threads whose calls never meet implement PacketLog.                     *)
(***************************************************************************)
EXTENDS SendPath, TLAPS

(* A thread has stored a field of send_wsabuf; WSASend has fetched one.    *)
Stored(t, field) ==
    pc[t] \in {"fetch", "send"} \/ (pc[t] = "store" /\ field \notin left[t])

Fetched(t, field) ==
    pc[t] = "send" \/ (pc[t] = "fetch" /\ field \notin left[t])

(* Who is in a call has built a packet, and calls that overlap have met.   *)
PacketsBuilt ==
    \A t \in Threads : Busy(t) =>
      /\ packet[t] \in Packet /\ packet[t].by = t /\ packet[t].nth = calls[t]
      /\ \A u \in Threads : Busy(u) => packet[u] \in met[t]

(* From a call's first store on, what a field holds comes from a call it   *)
(* has met; and so does what WSASend fetches of it.                        *)
Fresh(t) ==
    /\ Stored(t, "buf")  => send_wsabuf.buf \in met[t]
    /\ Stored(t, "len")  => \E other \in met[t] : send_wsabuf.len = other.size
    /\ Fetched(t, "buf") => got[t].buf \in met[t]
    /\ Fetched(t, "len") => \E other \in met[t] : got[t].len = other.size

(* Threads whose calls never meet, and how many packets the connection has *)
(* taken of each.                                                          *)
Apart ==
    alone =>
      /\ \A t, u \in Threads : Busy(t) /\ Busy(u) => t = u
      /\ \A t \in Threads : Busy(t) => met[t] = {packet[t]}
      /\ connected => \A t \in Threads :
                        taken[t] = IF Busy(t) THEN calls[t] - 1 ELSE calls[t]

IInv == TypeOK /\ PacketsBuilt /\ (\A t \in Threads : Fresh(t)) /\ Apart

-----------------------------------------------------------------------------
LEMMA InitIInv == Init => IInv
<1> SUFFICES ASSUME Init PROVE IInv
  OBVIOUS
<1> USE SendAssumption
<1>1. TypeOK
  BY DEF Init, TypeOK, Buffer, Fields
<1>2. PacketsBuilt /\ Apart /\ \A t \in Threads : Fresh(t)
  BY DEF Init, PacketsBuilt, Apart, Fresh, Stored, Fetched, Busy
<1> QED
  BY <1>1, <1>2 DEF IInv

LEMMA BuildKeeps ==
  ASSUME IInv, NEW t \in Threads, Build(t) PROVE IInv'
<1> USE SendAssumption
<1>0. PICK size \in Sizes :
        LET new == [by |-> t, nth |-> calls[t] + 1, size |-> size]
        IN  /\ packet' = [packet EXCEPT ![t] = new]
            /\ met' = [u \in Threads |->
                         IF u = t THEN {new} \union {packet[v] : v \in Sending}
                         ELSE IF Busy(u) THEN met[u] \union {new} ELSE met[u]]
  BY DEF Build
<1> DEFINE new == [by |-> t, nth |-> calls[t] + 1, size |-> size]
<1>1. /\ new \in Packet /\ new.by = t /\ new.nth = calls[t] + 1
      /\ packet' = [packet EXCEPT ![t] = new]
      /\ met' = [u \in Threads |->
                   IF u = t THEN {new} \union {packet[v] : v \in Sending}
                   ELSE IF Busy(u) THEN met[u] \union {new} ELSE met[u]]
  BY <1>0 DEF IInv, TypeOK, Packet
<1> HIDE DEF new
<1>2. /\ pc[t] = "idle" /\ ~Busy(t)
      /\ calls' = [calls EXCEPT ![t] = @ + 1]
      /\ pc' = [pc EXCEPT ![t] = "store"] /\ left' = [left EXCEPT ![t] = Fields]
      /\ UNCHANGED <<alone, send_wsabuf, got, wire, taken, connected>>
      /\ alone => \A u \in Threads : ~Busy(u)
  BY DEF Build, Busy, Sending
<1>3. /\ \A u \in Threads : Busy(u)' <=> Busy(u) \/ u = t
      /\ packet'[t] = new /\ calls'[t] = calls[t] + 1
      /\ \A u \in Threads \ {t} : packet'[u] = packet[u] /\ calls'[u] = calls[u]
      /\ \A u \in Threads : Busy(u) => new \in met'[u] /\ met[u] \subseteq met'[u]
      /\ new \in met'[t] /\ \A u \in Threads : Busy(u) => packet[u] \in met'[t]
  BY <1>1, <1>2 DEF IInv, TypeOK, Busy, Sending
<1>4. TypeOK'
  <2>1. packet' \in [Threads -> Buffer]
    BY <1>1 DEF IInv, TypeOK, Buffer
  <2>2. met' \in [Threads -> SUBSET Packet]
    <3>1. \A v \in Sending : packet[v] \in Packet
      BY DEF IInv, PacketsBuilt, Sending
    <3> QED
      BY <1>1, <3>1 DEF IInv, TypeOK
  <2>3. /\ pc' \in [Threads -> {"idle", "store", "fetch", "send"}]
        /\ left' \in [Threads -> SUBSET Fields]
        /\ calls' \in [Threads -> Nat]
    BY <1>2 DEF IInv, TypeOK, Fields
  <2> QED
    BY <1>2, <2>1, <2>2, <2>3 DEF IInv, TypeOK
<1>5. PacketsBuilt'
  BY <1>1, <1>3 DEF IInv, PacketsBuilt
<1>6. ASSUME NEW u \in Threads PROVE Fresh(u)'
  <2>1. \A f \in Fields : /\ Stored(u, f)' => Stored(u, f) /\ Busy(u)
                          /\ Fetched(u, f)' => Fetched(u, f) /\ Busy(u)
    BY <1>2 DEF IInv, TypeOK, Stored, Fetched, Busy
  <2>2. Fresh(u)
    BY DEF IInv
  <2> QED
    BY <1>2, <1>3, <2>1, <2>2 DEF Fresh, Fields
<1>7. Apart'
  <2> SUFFICES ASSUME alone PROVE Apart'
    BY <1>2 DEF Apart
  <2>1. Sending = {} /\ \A u \in Threads : Busy(u)' <=> u = t
    BY <1>2, <1>3 DEF Sending
  <2>2. met'[t] = {packet'[t]}
    BY <1>1, <1>3, <2>1
  <2>3. connected => \A u \in Threads :
           taken'[u] = IF Busy(u)' THEN calls'[u] - 1 ELSE calls'[u]
    BY <1>2, <1>3, <2>1 DEF IInv, TypeOK, Apart
  <2> QED
    BY <1>2, <2>1, <2>2, <2>3 DEF Apart
<1> QED
  BY <1>4, <1>5, <1>6, <1>7 DEF IInv

LEMMA StoreKeeps ==
  ASSUME IInv, NEW t \in Threads, NEW field \in Fields, Store(t, field) PROVE IInv'
<1> USE SendAssumption
<1>1. /\ pc[t] = "store" /\ field \in left[t] /\ Busy(t)
      /\ \A u \in Threads : Busy(u)' <=> Busy(u)
      /\ UNCHANGED <<alone, packet, got, calls, met, wire, taken, connected>>
  BY DEF IInv, TypeOK, Store, Done, Busy
<1>2. /\ packet[t] \in Packet /\ packet[t].size \in Sizes
      /\ \A u \in Threads : Busy(u) => packet[t] \in met[u]
  BY <1>1 DEF IInv, PacketsBuilt, Packet
<1>3. /\ field = "buf" => /\ send_wsabuf'.buf = packet[t]
                          /\ send_wsabuf'.len = send_wsabuf.len
      /\ field = "len" => /\ send_wsabuf'.len = packet[t].size
                          /\ send_wsabuf'.buf = send_wsabuf.buf
      /\ send_wsabuf' \in [buf : Buffer, len : Sizes]
  BY <1>2 DEF IInv, TypeOK, Store, Fields, Buffer
<1>4. /\ pc' \in [Threads -> {"idle", "store", "fetch", "send"}]
      /\ left' \in [Threads -> SUBSET Fields]
  <2>1. /\ pc \in [Threads -> {"idle", "store", "fetch", "send"}]
        /\ left \in [Threads -> SUBSET Fields]
    BY DEF IInv, TypeOK
  <2>2. /\ pc' = pc \/ pc' = [pc EXCEPT ![t] = "fetch"]
        /\ \E rest \in SUBSET Fields : left' = [left EXCEPT ![t] = rest]
    BY <2>1 DEF Store, Done
  <2> QED
    BY <2>1, <2>2
<1>5. \A u \in Threads, f \in Fields :
        /\ Stored(u, f)' => Stored(u, f) \/ (u = t /\ f = field)
        /\ Fetched(u, f)' => Fetched(u, f)
        /\ Stored(u, f) => Busy(u)
  BY DEF IInv, TypeOK, Store, Done, Fields, Stored, Fetched, Busy
<1>6. TypeOK'
  BY <1>1, <1>3, <1>4 DEF IInv, TypeOK
<1>7. PacketsBuilt' /\ Apart'
  BY <1>1 DEF IInv, PacketsBuilt, Apart
<1>8. ASSUME NEW u \in Threads PROVE Fresh(u)'
  <2>1. \A f \in Fields : Stored(u, f)' => Busy(u)
    BY <1>1, <1>5
  <2>2. Fresh(u)
    BY DEF IInv
  <2>3. CASE field = "buf"
    BY <1>1, <1>2, <1>3, <1>5, <2>1, <2>2, <2>3 DEF Fresh, Fields
  <2>4. CASE field = "len"
    BY <1>1, <1>2, <1>3, <1>5, <2>1, <2>2, <2>4 DEF Fresh, Fields
  <2> QED
    BY <2>3, <2>4 DEF Fields
<1> QED
  BY <1>6, <1>7, <1>8 DEF IInv

LEMMA FetchKeeps ==
  ASSUME IInv, NEW t \in Threads, NEW field \in Fields, Fetch(t, field) PROVE IInv'
<1> USE SendAssumption
<1>1. /\ pc[t] = "fetch" /\ field \in left[t] /\ Busy(t)
      /\ \A u \in Threads : Busy(u)' <=> Busy(u)
      /\ UNCHANGED <<alone, send_wsabuf, packet, calls, met, wire, taken, connected>>
  BY DEF IInv, TypeOK, Fetch, Done, Busy
<1>2. /\ field = "buf" => /\ got'[t].buf = send_wsabuf.buf
                          /\ got'[t].len = got[t].len
      /\ field = "len" => /\ got'[t].len = send_wsabuf.len
                          /\ got'[t].buf = got[t].buf
      /\ got' \in [Threads -> [buf : Buffer, len : Sizes]]
      /\ \A u \in Threads \ {t} : got'[u] = got[u]
  BY DEF IInv, TypeOK, Fetch, Fields
<1>3. /\ pc' \in [Threads -> {"idle", "store", "fetch", "send"}]
      /\ left' \in [Threads -> SUBSET Fields]
  <2>1. /\ pc \in [Threads -> {"idle", "store", "fetch", "send"}]
        /\ left \in [Threads -> SUBSET Fields]
    BY DEF IInv, TypeOK
  <2>2. /\ pc' = pc \/ pc' = [pc EXCEPT ![t] = "send"]
        /\ \E rest \in SUBSET Fields : left' = [left EXCEPT ![t] = rest]
    BY <2>1 DEF Fetch, Done
  <2> QED
    BY <2>1, <2>2
<1>4. \A u \in Threads, f \in Fields :
        /\ Stored(u, f)' => Stored(u, f)
        /\ Fetched(u, f)' => Fetched(u, f) \/ (u = t /\ f = field)
  BY DEF IInv, TypeOK, Fetch, Done, Fields, Stored, Fetched
<1>5. \A f \in Fields : Stored(t, f)
  BY <1>1 DEF Stored
<1>6. TypeOK'
  BY <1>1, <1>2, <1>3 DEF IInv, TypeOK
<1>7. PacketsBuilt' /\ Apart'
  BY <1>1 DEF IInv, PacketsBuilt, Apart
<1>8. ASSUME NEW u \in Threads PROVE Fresh(u)'
  <2>1. Fresh(u)
    BY DEF IInv
  <2>2. CASE field = "buf"
    BY <1>1, <1>2, <1>4, <1>5, <2>1, <2>2 DEF Fresh, Fields
  <2>3. CASE field = "len"
    BY <1>1, <1>2, <1>4, <1>5, <2>1, <2>3 DEF Fresh, Fields
  <2> QED
    BY <2>2, <2>3 DEF Fields
<1> QED
  BY <1>6, <1>7, <1>8 DEF IInv

LEMMA TransferKeeps ==
  ASSUME IInv, NEW t \in Threads, Transfer(t) PROVE IInv'
<1> USE SendAssumption
<1>1. /\ pc[t] = "send" /\ Busy(t)
      /\ \A u \in Threads : Busy(u)' <=> Busy(u) /\ u # t
      /\ \A u \in Threads, f \in Fields :
           /\ Stored(u, f)' => Stored(u, f) /\ u # t
           /\ Fetched(u, f)' => Fetched(u, f) /\ u # t
      /\ \A u \in Threads \ {t} : met'[u] = met[u]
      /\ UNCHANGED <<alone, send_wsabuf, packet, calls, got, left, connected>>
  BY DEF IInv, TypeOK, Transfer, Busy, Stored, Fetched
<1>2. \/ UNCHANGED <<wire, taken>>
      \/ /\ wire' = Append(wire, [packet |-> got[t].buf, len |-> got[t].len])
         /\ taken' = [taken EXCEPT ![t] = @ + 1]
  BY DEF Transfer, Give
<1>3. TypeOK'
  <2>1. /\ pc' \in [Threads -> {"idle", "store", "fetch", "send"}]
        /\ met' \in [Threads -> SUBSET Packet]
    BY DEF IInv, TypeOK, Transfer
  <2>2. wire' \in Seq([packet : Buffer, len : Sizes]) /\ taken' \in [Threads -> Nat]
    <3>1. [packet |-> got[t].buf, len |-> got[t].len] \in [packet : Buffer, len : Sizes]
      BY DEF IInv, TypeOK
    <3>2. /\ wire \in Seq([packet : Buffer, len : Sizes])
          /\ taken \in [Threads -> Nat]
      BY DEF IInv, TypeOK
    <3>3. ASSUME NEW Given, NEW log \in Seq(Given), NEW given \in Given
          PROVE  Append(log, given) \in Seq(Given)
      OBVIOUS
    <3>4. Append(wire, [packet |-> got[t].buf, len |-> got[t].len])
            \in Seq([packet : Buffer, len : Sizes])
      BY <3>1, <3>2, <3>3
    <3>5. taken' = [taken EXCEPT ![t] = @ + 1] => taken' \in [Threads -> Nat]
      BY <3>2
    <3>6. wire' \in {wire, Append(wire, [packet |-> got[t].buf, len |-> got[t].len])}
      BY <1>2
    <3> QED
      BY <1>2, <3>2, <3>4, <3>5, <3>6, Zenon
  <2> QED
    BY <1>1, <2>1, <2>2 DEF IInv, TypeOK
<1>4. PacketsBuilt'
  BY <1>1 DEF IInv, PacketsBuilt
<1>5. \A u \in Threads : Fresh(u)'
  BY <1>1 DEF IInv, Fresh, Fields
<1>6. Apart'
  <2>1. connected => taken' = [taken EXCEPT ![t] = @ + 1]
    BY DEF Transfer, Give
  <2> QED
    BY <1>1, <2>1 DEF IInv, TypeOK, Apart
<1> QED
  BY <1>3, <1>4, <1>5, <1>6 DEF IInv

LEMMA NextKeeps == IInv /\ [Next]_vars => IInv'
<1> SUFFICES ASSUME IInv, [Next]_vars PROVE IInv'
  OBVIOUS
<1>1. CASE \E t \in Threads : ThreadStep(t)
  BY <1>1, BuildKeeps, StoreKeeps, FetchKeeps, TransferKeeps DEF ThreadStep
<1>2. CASE Disconnect
  BY <1>2 DEF IInv, TypeOK, PacketsBuilt, Fresh, Apart,
              Disconnect, path, Busy, Stored, Fetched
<1>3. CASE AllSent \/ UNCHANGED vars
  <2>1. UNCHANGED <<alone, send_wsabuf, pc, left, packet, got, calls, met, wire, taken, connected>>
    BY <1>3 DEF AllSent, vars, path
  <2>2. TypeOK' /\ PacketsBuilt' /\ Apart'
    BY <2>1 DEF IInv, TypeOK, PacketsBuilt, Apart, Busy
  <2>3. \A t \in Threads : Fresh(t)'
    BY <2>1 DEF IInv, Fresh, Stored, Fetched
  <2> QED
    BY <2>2, <2>3 DEF IInv
<1> QED
  BY <1>1, <1>2, <1>3 DEF Next

LEMMA Inductive == Spec => []IInv
BY InitIInv, NextKeeps, PTL DEF Spec

-----------------------------------------------------------------------------
(* The types of send_wsabuf, of what each thread has and of the wire.      *)
THEOREM SendTypeCorrect == Spec => []TypeOK
BY Inductive, PTL DEF IInv

(* A call of Send*Packet that no other thread's call met sends its own     *)
(* packet with its own length, for any number of threads.                  *)
THEOREM UndisturbedSendsItsOwn == Spec => []UndisturbedIsWhole
<1>1. IInv => UndisturbedIsWhole
  <2> SUFFICES ASSUME IInv, NEW t \in Threads, pc[t] = "send", met[t] = {packet[t]}
               PROVE  got[t] = [buf |-> packet[t], len |-> packet[t].size]
    BY DEF UndisturbedIsWhole
  <2>1. got[t].buf = packet[t] /\ got[t].len = packet[t].size
    BY DEF IInv, Fresh, Fetched
  <2>2. got[t] \in [buf : Buffer, len : Sizes]
    BY DEF IInv, TypeOK
  <2> QED
    BY <2>1, <2>2
<1> QED
  BY <1>1, Inductive, PTL

(* However the threads cross, the connection is given the packet of a call *)
(* that was under way and the length of one, if not of the same.           *)
THEOREM NothingOldIsSent == Spec => []NothingStale
<1>1. IInv => NothingStale
  BY DEF IInv, Fresh, Fetched, NothingStale
<1> QED
  BY <1>1, Inductive, PTL

(* Threads whose calls never meet implement PacketLog: every packet once,  *)
(* whole, and in its thread's order.                                       *)
THEOREM ImplementsPacketLog == Spec => KeepsPacketLog
<1>1. Init => Log!LogInit
  BY DEF Init, Log!LogInit
<1>2. ASSUME IInv, [Next]_vars PROVE [Log!LogNext]_Log!logged
  <2>1. CASE \E t \in Threads : Transfer(t)
    <3>1. PICK t \in Threads : Transfer(t)
      BY <2>1
    <3>2. alone' = alone
      BY <3>1 DEF Transfer
    <3>3. CASE alone /\ connected
      <4>1. /\ pc[t] = "send" /\ Busy(t) /\ met[t] = {packet[t]}
            /\ taken[t] = calls[t] - 1
            /\ taken' = [taken EXCEPT ![t] = @ + 1]
            /\ wire' = Append(wire, [packet |-> got[t].buf, len |-> got[t].len])
        BY <1>2, <3>1, <3>3 DEF IInv, Apart, Transfer, Give, Busy
      <4>2. /\ got[t].buf = packet[t] /\ got[t].len = packet[t].size
            /\ packet[t] \in Packet /\ packet[t].by = t /\ packet[t].nth = calls[t]
        BY <1>2, <4>1 DEF IInv, Fresh, PacketsBuilt, Fetched
      <4>3. taken[t] + 1 = calls[t]
        BY <1>2, <4>1 DEF IInv, TypeOK
      <4>4. packet[t] = [by |-> t, nth |-> taken[t] + 1, size |-> packet[t].size]
        BY <4>2, <4>3 DEF Packet
      <4>5. packet[t].size \in Sizes
        BY <4>2 DEF Packet
      <4>6. wire' = Append(wire, [packet |-> [by |-> t, nth |-> taken[t] + 1,
                                              size |-> packet[t].size],
                                  len |-> packet[t].size])
        BY <4>1, <4>2, <4>4
      <4>7. Log!PutPacket(t)
        BY <3>2, <3>3, <4>1, <4>5, <4>6 DEF Log!PutPacket
      <4> QED
        BY <4>7 DEF Log!LogNext
    <3>4. CASE ~(alone /\ connected)
      <4>1. CASE ~alone
        <5>1. Log!logged' = Log!logged
          BY <3>2, <4>1 DEF Log!logged
        <5> QED
          BY <5>1
      <4>2. CASE ~connected
        <5>1. UNCHANGED <<alone, wire, taken>>
          BY <3>1, <3>2, <4>2 DEF Transfer, Give
        <5> QED
          BY <5>1 DEF Log!logged
      <4> QED
        BY <3>4, <4>1, <4>2
    <3> QED
      BY <3>3, <3>4
  <2>2. CASE \E t \in Threads : Build(t) \/ \E field \in Fields : Store(t, field) \/ Fetch(t, field)
    <3>1. UNCHANGED <<alone, wire, taken>>
      BY <2>2 DEF Build, Store, Fetch
    <3> QED
      BY <3>1 DEF Log!logged
  <2>3. CASE Disconnect \/ AllSent \/ UNCHANGED vars
    BY <2>3 DEF Disconnect, AllSent, vars, Log!logged
  <2> QED
    BY <1>2, <2>1, <2>2, <2>3 DEF Next, ThreadStep
<1> QED
  BY <1>1, <1>2, Inductive, PTL DEF Spec, KeepsPacketLog, Log!LogSpec
=============================================================================
