--------------------------- MODULE OnceInitProofs ---------------------------
(***************************************************************************)
(* Proofs about OnceInit, for any threads, message classes and numbers of  *)
(* calls.  The argument: one thread at most is between the compare and     *)
(* swap and the store of a once object, and a closure goes on only when    *)
(* the object it asked for is done.                                        *)
(***************************************************************************)
EXTENDS OnceInit, TLAPS

Executing(t, o) == at[t][o] \in {"run", "store"}

(* The compare and swap lets one thread in, and only from the first state. *)
OneExecutor ==
    \A o \in Onces :
      /\ \A t \in Threads : Executing(t, o) => once[o] = EXECUTING_CLOSURE
      /\ \A t, u \in Threads : Executing(t, o) /\ Executing(u, o) => t = u
      /\ runs[o] = IF once[o] = UNINITIALIZED THEN 0 ELSE 1

(* What is waited for has been claimed; what has not been claimed has gone *)
(* through nothing; what a running closure has got back is done.           *)
ClosuresInOrder ==
    \A o \in Onces :
      /\ once[o] = UNINITIALIZED => called[o] = {}
      /\ \A t \in Threads : at[t][o] = "wait" => once[o] # UNINITIALIZED
      /\ \A t \in Threads, c \in Onces :
           at[t][o] = "run" /\ c \in called[o] /\ at[t][c] = "out" => once[c] = DONE

(* An object is built before it is done, and what it needs before that.    *)
BuiltInOrder ==
    \A o \in Onces :
      /\ once[o] = DONE => o \in built
      /\ \A t \in Threads : at[t][o] = "store" => o \in built
      /\ o \in built => Needs(o) \subseteq built

IInv == TypeOK /\ OneExecutor /\ ClosuresInOrder /\ BuiltInOrder

-----------------------------------------------------------------------------
LEMMA NeedsWhat ==
    /\ \A o \in Onces : Needs(o) \subseteq Onces
    /\ Needs(AddDescriptors) = Messages
    /\ \A m \in Messages : EmptyString \in Needs(m)
BY OnceAssumption DEF Needs, Onces, Library, ConstructorCalls, EmptyString,
                      AddDescriptors, AssignDescriptors

LEMMA InitIInv == Init => IInv
<1> SUFFICES ASSUME Init PROVE IInv
    OBVIOUS
<1> USE DEF Init
<1>1. TypeOK
    BY OnceAssumption DEF TypeOK, Places, UNINITIALIZED, EXECUTING_CLOSURE, DONE
<1>2. \A t \in Threads, o \in Onces : at[t][o] \in {"out", "check"}
    OBVIOUS
<1>3. OneExecutor
    BY <1>2 DEF OneExecutor, Executing, UNINITIALIZED
<1>4. ClosuresInOrder
    BY <1>2 DEF ClosuresInOrder
<1>5. BuiltInOrder
    BY <1>2 DEF BuiltInOrder, UNINITIALIZED, DONE
<1>6. QED
    BY <1>1, <1>3, <1>4, <1>5 DEF IInv

LEMMA NextTypeOK == TypeOK /\ [Next]_vars => TypeOK'
<1> SUFFICES ASSUME TypeOK, [Next]_vars PROVE TypeOK'
    OBVIOUS
<1> USE DEF TypeOK, Places, Goto, UNINITIALIZED, EXECUTING_CLOSURE, DONE
<1>1. CASE EnterMain
    BY <1>1 DEF EnterMain
<1>2. CASE AllCalled \/ UNCHANGED vars
    BY <1>2 DEF AllCalled, vars
<1>3. ASSUME NEW t \in Threads, NEW o \in Onces, Begin(t, o) PROVE TypeOK'
    BY <1>3 DEF Begin
<1>4. ASSUME NEW t \in Threads, NEW o \in Onces, OnceStep(t, o) PROVE TypeOK'
    <2>1. CASE Check(t, o)
        BY <2>1 DEF Check
    <2>2. CASE Swap(t, o)
        <3>1. CASE once[o] = UNINITIALIZED
            <4>1. at' \in [Threads -> [Onces -> Places]]
                BY <2>2, <3>1 DEF Swap
            <4>2. once' \in [Onces -> 0..2] /\ runs' \in [Onces -> Nat]
                BY <2>2, <3>1 DEF Swap
            <4>3. UNCHANGED <<called, built, inMain, calls>>
                BY <2>2 DEF Swap
            <4>4. QED
                BY <4>1, <4>2, <4>3
        <3>2. CASE once[o] # UNINITIALIZED
            BY <2>2, <3>2 DEF Swap
        <3>3. QED
            BY <3>1, <3>2
    <2>3. CASE Build(t, o)
        BY <2>3 DEF Build
    <2>4. CASE Store(t, o)
        BY <2>4 DEF Store
    <2>5. CASE Wait(t, o)
        BY <2>5 DEF Wait
    <2>6. ASSUME NEW other \in Onces, Nest(t, o, other) PROVE TypeOK'
        BY <2>6, NeedsWhat DEF Nest
    <2>7. QED
        BY <1>4, <2>1, <2>2, <2>3, <2>4, <2>5, <2>6 DEF OnceStep
<1>5. QED
    BY <1>1, <1>2, <1>3, <1>4 DEF Next

LEMMA NextIInv == IInv /\ [Next]_vars => IInv'
<1> SUFFICES ASSUME IInv, [Next]_vars PROVE IInv'
    OBVIOUS
<1>t. TypeOK /\ TypeOK'
    BY NextTypeOK DEF IInv
<1> USE DEF Goto, UNINITIALIZED, EXECUTING_CLOSURE, DONE
<1>1. CASE EnterMain
    BY <1>1, <1>t DEF EnterMain, IInv, OneExecutor, ClosuresInOrder, BuiltInOrder, Executing
<1>2. CASE AllCalled \/ UNCHANGED vars
    BY <1>2, <1>t DEF AllCalled, vars, IInv, OneExecutor, ClosuresInOrder,
                      BuiltInOrder, Executing
<1>3. ASSUME NEW t \in Threads, NEW o \in Onces, Begin(t, o) PROVE IInv'
    BY <1>3, <1>t DEF Begin, Quiet, IInv, OneExecutor, ClosuresInOrder,
                      BuiltInOrder, Executing, TypeOK
<1>4. ASSUME NEW t \in Threads, NEW o \in Onces, OnceStep(t, o) PROVE IInv'
    <2> SUFFICES OneExecutor' /\ ClosuresInOrder' /\ BuiltInOrder'
        BY <1>t DEF IInv
    <2>1. CASE Check(t, o)
        <3>1. PICK place \in {"out", "impl", "swap"} :
                /\ Goto(t, o, place)
                /\ place = "out" => once[o] = DONE
                /\ UNCHANGED <<once, called, runs, built, inMain, calls>>
            BY <2>1 DEF Check
        <3>2. at[t][o] \in {"check", "impl"}
            BY <2>1 DEF Check
        <3>3. \A u \in Threads, p \in Onces :
                at'[u][p] = IF u = t /\ p = o THEN place ELSE at[u][p]
            BY <3>1, <1>t DEF TypeOK
        <3>4. OneExecutor'
            BY <3>1, <3>3, <1>t DEF IInv, OneExecutor, Executing
        <3>5. ClosuresInOrder'
            BY <3>1, <3>2, <3>3, <1>t DEF IInv, ClosuresInOrder
        <3>6. BuiltInOrder'
            BY <3>1, <3>3, <1>t DEF IInv, BuiltInOrder
        <3>7. QED
            BY <3>4, <3>5, <3>6
    <2>2. CASE Swap(t, o)
        <3>1. CASE once[o] = UNINITIALIZED
            <4>1. /\ \A u \in Threads, p \in Onces :
                       at'[u][p] = IF u = t /\ p = o THEN "run" ELSE at[u][p]
                  /\ \A p \in Onces :
                       /\ once'[p] = IF p = o THEN EXECUTING_CLOSURE ELSE once[p]
                       /\ runs'[p] = IF p = o THEN runs[o] + 1 ELSE runs[p]
                  /\ called' = called /\ built' = built
                BY <2>2, <3>1, <1>t DEF Swap, TypeOK
            <4>2. OneExecutor'
                BY <3>1, <4>1 DEF IInv, OneExecutor, Executing
            <4>3. ClosuresInOrder'
                BY <3>1, <4>1 DEF IInv, ClosuresInOrder
            <4>4. BuiltInOrder'
                BY <4>1 DEF IInv, BuiltInOrder
            <4>5. QED
                BY <4>2, <4>3, <4>4
        <3>2. CASE once[o] # UNINITIALIZED
            <4>1. PICK place \in {"out", "wait"} :
                    /\ Goto(t, o, place)
                    /\ place = "out" => once[o] = DONE
                    /\ UNCHANGED <<once, called, runs, built>>
                BY <2>2, <3>2 DEF Swap
            <4>2. \A u \in Threads, p \in Onces :
                    at'[u][p] = IF u = t /\ p = o THEN place ELSE at[u][p]
                BY <4>1, <1>t DEF TypeOK
            <4>3. OneExecutor'
                BY <4>1, <4>2 DEF IInv, OneExecutor, Executing
            <4>4. ClosuresInOrder'
                BY <3>2, <4>1, <4>2 DEF IInv, ClosuresInOrder
            <4>5. BuiltInOrder'
                BY <4>1, <4>2 DEF IInv, BuiltInOrder
            <4>6. QED
                BY <4>3, <4>4, <4>5
        <3>3. QED
            BY <3>1, <3>2
    <2>3. CASE Build(t, o)
        <3>1. OneExecutor' /\ ClosuresInOrder'
            BY <2>3, <1>t DEF Build, IInv, OneExecutor, ClosuresInOrder, Executing, TypeOK
        <3>2. Needs(o) \subseteq built
            BY <2>3, <1>t, NeedsWhat DEF Build, IInv, ClosuresInOrder, BuiltInOrder, TypeOK
        <3>3. BuiltInOrder'
            BY <2>3, <3>2, <1>t DEF Build, IInv, BuiltInOrder, TypeOK
        <3>4. QED
            BY <3>1, <3>3
    <2>4. CASE Store(t, o)
        <3>1. OneExecutor'
            BY <2>4, <1>t DEF Store, IInv, OneExecutor, Executing, TypeOK
        <3>2. ClosuresInOrder'
            BY <2>4, <1>t DEF Store, IInv, ClosuresInOrder, OneExecutor, Executing, TypeOK
        <3>3. BuiltInOrder'
            BY <2>4, <1>t DEF Store, IInv, BuiltInOrder, TypeOK
        <3>4. QED
            BY <3>1, <3>2, <3>3
    <2>5. CASE Wait(t, o)
        BY <2>5, <1>t DEF Wait, IInv, OneExecutor, ClosuresInOrder, BuiltInOrder,
                          Executing, TypeOK
    <2>6. ASSUME NEW other \in Onces, Nest(t, o, other)
          PROVE OneExecutor' /\ ClosuresInOrder' /\ BuiltInOrder'
        <3>1. OneExecutor'
            BY <2>6, <1>t DEF Nest, IInv, OneExecutor, Executing, TypeOK
        <3>2. ClosuresInOrder'
            BY <2>6, <1>t DEF Nest, IInv, ClosuresInOrder, OneExecutor, Executing, TypeOK
        <3>3. BuiltInOrder'
            BY <2>6, <1>t DEF Nest, IInv, BuiltInOrder, TypeOK
        <3>4. QED
            BY <3>1, <3>2, <3>3
    <2>7. QED
        BY <1>4, <2>1, <2>2, <2>3, <2>4, <2>5, <2>6 DEF OnceStep
<1>5. QED
    BY <1>1, <1>2, <1>3, <1>4 DEF Next

LEMMA InvariantHolds == Spec => []IInv
<1>1. QED
    BY InitIInv, NextIInv, PTL DEF Spec

-----------------------------------------------------------------------------
(* The places, the states and the counters keep their types.               *)
THEOREM OnceTypeCorrect == Spec => []TypeOK
<1>1. IInv => TypeOK
    BY DEF IInv
<1>2. QED
    BY InvariantHolds, <1>1, PTL

(* GoogleOnceInit runs a closure at most once, for any threads and nesting.*)
THEOREM ConstructedOnce == Spec => []RunsOnce
<1>1. IInv => RunsOnce
    BY DEF IInv, OneExecutor, RunsOnce
<1>2. QED
    BY InvariantHolds, <1>1, PTL

(* No call of GoogleOnceInit returns before the object and what its        *)
(* closure went through are complete.                                      *)
THEOREM CompleteOnReturn == Spec => ReadyOnReturn
<1> DEFINE Ready(t, o) ==
      at[t][o] # "out" /\ at'[t][o] = "out" => {o} \union Needs(o) \subseteq built'
<1>1. ASSUME IInv, [Next]_vars, NEW t \in Threads, NEW o \in Onces PROVE Ready(t, o)
    <2> USE DEF Goto, IInv, TypeOK
    <2>1. built \subseteq built' \/ built' = built
        BY <1>1 DEF Next, OnceStep, EnterMain, AllCalled, Begin, Check, Swap, Nest,
                    Build, Store, Wait, vars
    <2>2. SUFFICES ASSUME at[t][o] # "out", at'[t][o] = "out" PROVE o \in built
        BY <1>1, <2>1, <2>2 DEF BuiltInOrder
    <2>3. PICK u \in Threads, p \in Onces : OnceStep(u, p) \/ Begin(u, p)
        BY <1>1, <2>2 DEF Next, EnterMain, AllCalled, vars
    <2>4. CASE Begin(u, p)
        BY <2>2, <2>4 DEF Begin
    <2>5. CASE Check(u, p)
        BY <1>1, <2>2, <2>5 DEF Check, BuiltInOrder
    <2>6. CASE Swap(u, p)
        <3>1. CASE once[p] = UNINITIALIZED
            BY <1>1, <2>2, <2>6, <3>1 DEF Swap
        <3>2. CASE once[p] # UNINITIALIZED
            <4>1. at'[t][o] = "out" => t = u /\ o = p /\ once[p] = DONE
                BY <1>1, <2>2, <2>6, <3>2 DEF Swap
            <4>2. QED
                BY <1>1, <2>2, <4>1 DEF BuiltInOrder
        <3>3. QED
            BY <3>1, <3>2
    <2>7. CASE Build(u, p)
        BY <1>1, <2>2, <2>7 DEF Build
    <2>8. CASE Store(u, p)
        BY <1>1, <2>2, <2>8 DEF Store, BuiltInOrder
    <2>9. CASE Wait(u, p)
        BY <1>1, <2>2, <2>9 DEF Wait, BuiltInOrder, ClosuresInOrder,
                                UNINITIALIZED, EXECUTING_CLOSURE, DONE
    <2>10. ASSUME NEW other \in Onces, Nest(u, p, other) PROVE o \in built
        BY <1>1, <2>2, <2>10 DEF Nest
    <2>11. QED
        BY <2>3, <2>4, <2>5, <2>6, <2>7, <2>8, <2>9, <2>10 DEF OnceStep
<1>2. IInv /\ [Next]_vars
        => [\A t \in Threads, o \in Onces : Ready(t, o)]_vars
    BY <1>1
<1>3. QED
    BY InvariantHolds, <1>2, PTL DEF Spec, ReadyOnReturn

-----------------------------------------------------------------------------
(* What a complete object needs says itself that it is complete; and Main  *)
(* does not leave the static initialiser before AddDescriptors is done.    *)
DoneInOrder ==
    \A o \in Onces :
      once[o] = DONE \/ (\E t \in Threads : at[t][o] = "store")
        => \A c \in Needs(o) : once[c] = DONE

StaticFirst ==
    inMain \/ at[Main][AddDescriptors] = "out" => once[AddDescriptors] = DONE

LEMMA InitStaticFirst == Init => DoneInOrder /\ StaticFirst
<1> SUFFICES ASSUME Init PROVE DoneInOrder /\ StaticFirst
    OBVIOUS
<1>1. \A t \in Threads, o \in Onces : at[t][o] \in {"out", "check"} /\ once[o] # DONE
    BY DEF Init, UNINITIALIZED, DONE
<1>2. Main \in Threads /\ AddDescriptors \in Onces
    BY OnceAssumption DEF Onces, Library
<1>3. at[Main][AddDescriptors] # "out" /\ ~inMain
    BY <1>2 DEF Init
<1>4. DoneInOrder
    BY <1>1, <1>2 DEF DoneInOrder
<1>5. StaticFirst
    BY <1>3 DEF StaticFirst
<1>6. QED
    BY <1>4, <1>5

LEMMA NextStaticFirst ==
    ASSUME IInv, DoneInOrder, StaticFirst, [Next]_vars
    PROVE  DoneInOrder' /\ StaticFirst'
<1> USE DEF Goto, UNINITIALIZED, EXECUTING_CLOSURE, DONE
<1>o. AddDescriptors \in Onces /\ Main \in Threads /\ \A o \in Onces : Needs(o) \subseteq Onces
    BY OnceAssumption, NeedsWhat DEF Onces, Library
<1>t. TypeOK /\ TypeOK'
    BY NextTypeOK DEF IInv
<1>1. CASE EnterMain
    BY <1>1, <1>o DEF EnterMain, Quiet, DoneInOrder, StaticFirst
<1>2. CASE AllCalled \/ UNCHANGED vars
    BY <1>2 DEF AllCalled, vars, DoneInOrder, StaticFirst
<1>3. ASSUME NEW t \in Threads, NEW o \in Onces, Begin(t, o)
      PROVE  DoneInOrder' /\ StaticFirst'
    <2>1. once' = once /\ inMain' = inMain
        BY <1>3 DEF Begin
    <2>2. \A u \in Threads, p \in Onces : at'[u][p] = at[u][p] \/ at'[u][p] = "check"
        BY <1>3, <1>t DEF Begin, TypeOK
    <2>3. QED
        BY <1>o, <2>1, <2>2 DEF DoneInOrder, StaticFirst
<1>4. ASSUME NEW t \in Threads, NEW o \in Onces, OnceStep(t, o)
      PROVE  DoneInOrder' /\ StaticFirst'
    <2>1. inMain' = inMain /\ \A p \in Onces : once[p] = DONE => once'[p] = DONE
        BY <1>4, <1>t DEF OnceStep, Check, Swap, Nest, Build, Store, Wait, TypeOK
    <2>2. \A p \in Onces :
            at[t][p] # "out" /\ at'[t][p] = "out" => once'[p] = DONE
        <3>1. CASE Check(t, o)
            BY <3>1, <1>t DEF Check, TypeOK
        <3>2. CASE Swap(t, o)
            <4>1. CASE once[o] = UNINITIALIZED
                BY <3>2, <4>1, <1>t DEF Swap, TypeOK
            <4>2. CASE once[o] # UNINITIALIZED
                BY <3>2, <4>2, <1>t DEF Swap, TypeOK
            <4>3. QED
                BY <4>1, <4>2
        <3>3. CASE Build(t, o)
            BY <3>3, <1>t DEF Build, TypeOK
        <3>4. CASE Store(t, o)
            BY <3>4, <1>t DEF Store, TypeOK
        <3>5. CASE Wait(t, o)
            BY <3>5, <1>t DEF Wait, TypeOK, IInv, ClosuresInOrder
        <3>6. ASSUME NEW other \in Onces, Nest(t, o, other)
              PROVE  \A p \in Onces : at[t][p] # "out" /\ at'[t][p] = "out" => once'[p] = DONE
            BY <3>6, <1>t DEF Nest, TypeOK
        <3>7. QED
            BY <1>4, <3>1, <3>2, <3>3, <3>4, <3>5, <3>6 DEF OnceStep
    <2>7. \A u \in Threads, p \in Onces : u # t => at'[u][p] = at[u][p]
        BY <1>4, <1>t DEF OnceStep, Check, Swap, Nest, Build, Store, Wait, TypeOK
    <2>3. StaticFirst'
        BY <1>o, <2>1, <2>2, <2>7 DEF StaticFirst
    <2>4. CASE Build(t, o)
        <3>1. \A c \in Needs(o) : once[c] = DONE
            BY <2>4, <1>o DEF Build, IInv, ClosuresInOrder
        <3>2. \A u \in Threads, p \in Onces :
                once' = once /\ (at'[u][p] = "store" => at[u][p] = "store" \/ p = o)
            BY <2>4, <1>t DEF Build, TypeOK
        <3>3. DoneInOrder'
            BY <1>o, <3>1, <3>2 DEF DoneInOrder
        <3>4. QED
            BY <2>3, <3>3
    <2>5. CASE ~Build(t, o)
        <3>1. \A u \in Threads, p \in Onces : at'[u][p] = "store" => at[u][p] = "store"
            BY <1>4, <2>5, <1>t DEF OnceStep, Check, Swap, Nest, Store, Wait, TypeOK
        <3>2. \A p \in Onces :
                once'[p] = DONE => once[p] = DONE \/ \E u \in Threads : at[u][p] = "store"
            BY <1>4, <2>5, <1>t DEF OnceStep, Check, Swap, Nest, Store, Wait, TypeOK
        <3>3. DoneInOrder'
            BY <1>o, <2>1, <3>1, <3>2 DEF DoneInOrder
        <3>4. QED
            BY <2>3, <3>3
    <2>6. QED
        BY <2>4, <2>5
<1>5. QED
    BY <1>1, <1>2, <1>3, <1>4 DEF Next

(* Whatever threads run before main, and whatever they have begun: in main *)
(* every default instance is complete and nobody constructs or waits.      *)
THEOREM ReadyBeforeMain == Spec => []MessagesReadyInMain
<1>1. IInv /\ DoneInOrder /\ StaticFirst => MessagesReadyInMain
    <2> SUFFICES ASSUME IInv, DoneInOrder, StaticFirst, inMain PROVE MessagesReadyInMain
        BY DEF MessagesReadyInMain
    <2>1. /\ AddDescriptors \in Onces /\ EmptyString \in Onces /\ Messages \subseteq Onces
          /\ Messages # {}
        BY OnceAssumption DEF Onces, Library
    <2>2. \A m \in Messages : once[m] = DONE
        BY <2>1, NeedsWhat DEF StaticFirst, DoneInOrder
    <2>3. once[EmptyString] = DONE
        BY <2>1, <2>2, NeedsWhat DEF DoneInOrder
    <2>4. QED
        BY <2>1, <2>2, <2>3 DEF MessagesReadyInMain, IInv, OneExecutor, Executing,
                                BuiltInOrder, EXECUTING_CLOSURE, DONE
<1>2. IInv /\ DoneInOrder /\ StaticFirst /\ [Next]_vars => DoneInOrder' /\ StaticFirst'
    BY NextStaticFirst
<1>3. QED
    BY InvariantHolds, InitStaticFirst, <1>1, <1>2, PTL DEF Spec
=============================================================================
