------------------------------ MODULE OnceInit ------------------------------
(***************************************************************************)
(* The default instances of the generated message classes and the objects  *)
(* of the library they rest on, each built by a closure that               *)
(* GoogleOnceInit runs.  A closure may go through other ones:              *)
(*                                                                         *)
(*   AssignDescriptors   calls AddDescriptors                              *)
(*   AddDescriptors      calls InitDefaults, that is every message's one   *)
(*   a message's one     calls InitProtobufDefaults, which makes the empty *)
(*                       string, and constructs the message, whose         *)
(*                       constructor would call the message's one again if *)
(*                       it did not know the default instance              *)
(*                                                                         *)
(* The static initialiser of Protocols.pb.cc calls AddDescriptors before   *)
(* main begins.  From then on the menu thread and the receive thread       *)
(* construct messages whenever they send or parse one.                     *)
(*                                                                         *)
(* A thread's calls are nested; at[t][o] is the place it has reached in    *)
(* its call for o, and "out" if it is in none.  Every load, compare and    *)
(* swap, and store of a once object is a step.                             *)
(***************************************************************************)
EXTENDS Integers

CONSTANTS
    Threads, Main,  \* the threads, and the one that runs main
    Messages,       \* the message classes
    Early,          \* the other threads run before main has begun
    MaxCalls        \* bound: how many calls a thread makes

EmptyString == "GetEmptyString"
AddDescriptors == "AddDescriptors"
AssignDescriptors == "AssignDescriptors"
Library == {EmptyString, AddDescriptors, AssignDescriptors}

ASSUME OnceAssumption ==
    /\ Main \in Threads
    /\ Messages # {} /\ Messages \intersect Library = {}
    /\ Early \in BOOLEAN /\ MaxCalls \in Nat

VARIABLES
    once,       \* the state of every once object
    at,         \* how far each thread is in its call for it
    called,     \* the once objects its closure has gone through so far
    runs,       \* how often its closure has been started
    built,      \* the objects that are complete
    inMain,     \* main has begun
    calls       \* how many calls each thread has made from outside

vars == <<once, at, called, runs, built, inMain, calls>>

Onces == Messages \union Library

UNINITIALIZED == 0
EXECUTING_CLOSURE == 1
DONE == 2

(* Mutant: the constructor does not ask for which instance it runs.        *)
ConstructorAlwaysCalls(m, isDefault) == {m}

(* What a message's constructor goes through.                              *)
ConstructorCalls(m, isDefault) == IF isDefault THEN {} ELSE {m}

(* Mutant: the descriptors are added and no default instance is made.      *)
NeedsLazily(o) ==
    CASE o \in Messages        -> {EmptyString} \union ConstructorCalls(o, TRUE)
      [] o = AssignDescriptors -> {AddDescriptors}
      [] o \in {AddDescriptors, EmptyString} -> {}

(* What the closure of o goes through.                                     *)
Needs(o) ==
    CASE o \in Messages        -> {EmptyString} \union ConstructorCalls(o, TRUE)
      [] o = AddDescriptors    -> Messages
      [] o = AssignDescriptors -> {AddDescriptors}
      [] o = EmptyString       -> {}

(* What a thread calls from outside: it constructs a message, asks for the *)
(* metadata of one, or for the empty string.                               *)
Entries ==
    UNION {ConstructorCalls(m, FALSE) : m \in Messages}
      \union {AssignDescriptors, EmptyString}

Quiet(t) == \A o \in Onces : at[t][o] = "out"

(* Only the static initialiser has been called.                            *)
Init ==
    /\ once = [o \in Onces |-> UNINITIALIZED]
    /\ at = [t \in Threads |-> [o \in Onces |->
               IF t = Main /\ o = AddDescriptors THEN "check" ELSE "out"]]
    /\ called = [o \in Onces |-> {}] /\ runs = [o \in Onces |-> 0]
    /\ built = {} /\ inMain = FALSE /\ calls = [t \in Threads |-> 0]

-----------------------------------------------------------------------------
Goto(t, o, place) == at' = [at EXCEPT ![t][o] = place]

EnterMain ==
    /\ ~inMain /\ Quiet(Main)
    /\ inMain' = TRUE
    /\ UNCHANGED <<once, at, called, runs, built, calls>>

Begin(t, o) ==
    /\ inMain \/ (Early /\ t # Main)
    /\ Quiet(t) /\ calls[t] < MaxCalls
    /\ o \in Entries
    /\ Goto(t, o, "check")
    /\ calls' = [calls EXCEPT ![t] = @ + 1]
    /\ UNCHANGED <<once, called, runs, built, inMain>>

(* GoogleOnceInit loads the state, and GoogleOnceInitImpl loads it again.  *)
Check(t, o) ==
    /\ at[t][o] \in {"check", "impl"}
    /\ IF once[o] = DONE THEN Goto(t, o, "out")
       ELSE Goto(t, o, IF at[t][o] = "check" THEN "impl" ELSE "swap")
    /\ UNCHANGED <<once, called, runs, built, inMain, calls>>

(* Mutant: the object is claimed whatever its state is.                    *)
SwapBlindly(t, o) ==
    /\ at[t][o] = "swap"
    /\ once' = [once EXCEPT ![o] = EXECUTING_CLOSURE]
    /\ runs' = [runs EXCEPT ![o] = @ + 1]
    /\ Goto(t, o, "run")
    /\ UNCHANGED <<called, built, inMain, calls>>

(* Mutant: the state is raised by one where it should be compared first.   *)
SwapByIncrement(t, o) ==
    /\ at[t][o] = "swap"
    /\ once' = [once EXCEPT ![o] = @ + 1]
    /\ runs' = [runs EXCEPT ![o] = IF once[o] = UNINITIALIZED THEN @ + 1 ELSE @]
    /\ Goto(t, o, IF once[o] = UNINITIALIZED THEN "run" ELSE "wait")
    /\ UNCHANGED <<called, built, inMain, calls>>

(* Acquire_CompareAndSwap: one thread claims the object, the others wait.  *)
Swap(t, o) ==
    /\ at[t][o] = "swap"
    /\ IF once[o] = UNINITIALIZED
         THEN /\ once' = [once EXCEPT ![o] = EXECUTING_CLOSURE]
              /\ runs' = [runs EXCEPT ![o] = @ + 1]
              /\ Goto(t, o, "run")
         ELSE /\ Goto(t, o, IF once[o] = DONE THEN "out" ELSE "wait")
              /\ UNCHANGED <<once, runs>>
    /\ UNCHANGED <<called, built, inMain, calls>>

(* The closure calls another one, when the one before has returned.        *)
Nest(t, o, other) ==
    /\ at[t][o] = "run"
    /\ other \in Needs(o) \ called[o]
    /\ \A c \in called[o] : at[t][c] = "out"
    /\ called' = [called EXCEPT ![o] = @ \union {other}]
    /\ Goto(t, other, "check")
    /\ UNCHANGED <<once, runs, built, inMain, calls>>

(* Mutant: the object is said to be done before it is.                     *)
BuildLate(t, o) ==
    /\ at[t][o] = "run" /\ called[o] = Needs(o)
    /\ once' = [once EXCEPT ![o] = DONE]
    /\ Goto(t, o, "store")
    /\ UNCHANGED <<called, runs, built, inMain, calls>>

(* The closure makes its object and returns.                               *)
Build(t, o) ==
    /\ at[t][o] = "run" /\ called[o] = Needs(o)
    /\ \A c \in called[o] : at[t][c] = "out"
    /\ built' = built \union {o}
    /\ Goto(t, o, "store")
    /\ UNCHANGED <<once, called, runs, inMain, calls>>

(* Release_Store.                                                          *)
Store(t, o) ==
    /\ at[t][o] = "store"
    /\ once' = [once EXCEPT ![o] = DONE]
    /\ Goto(t, o, "out")
    /\ UNCHANGED <<called, runs, built, inMain, calls>>

(* SchedYield and Acquire_Load until the other thread is done.             *)
Wait(t, o) ==
    /\ at[t][o] = "wait"
    /\ Goto(t, o, IF once[o] = EXECUTING_CLOSURE THEN "wait" ELSE "out")
    /\ UNCHANGED <<once, called, runs, built, inMain, calls>>

OnceStep(t, o) ==
    \/ Check(t, o) \/ Swap(t, o) \/ Build(t, o) \/ Store(t, o) \/ Wait(t, o)
    \/ \E other \in Onces : Nest(t, o, other)

AllCalled ==
    /\ inMain /\ \A t \in Threads : Quiet(t) /\ calls[t] = MaxCalls
    /\ UNCHANGED vars

Next ==
    \/ EnterMain \/ AllCalled
    \/ \E t \in Threads, o \in Onces : Begin(t, o) \/ OnceStep(t, o)

Spec == Init /\ [][Next]_vars

(* Every thread is scheduled.                                              *)
FairSpec == Spec /\ \A t \in Threads : WF_vars(\E o \in Onces : OnceStep(t, o))

-----------------------------------------------------------------------------
Places == {"out", "check", "impl", "swap", "run", "store", "wait"}

TypeOK ==
    /\ once \in [Onces -> {UNINITIALIZED, EXECUTING_CLOSURE, DONE}]
    /\ at \in [Threads -> [Onces -> Places]]
    /\ called \in [Onces -> SUBSET Onces] /\ runs \in [Onces -> Nat]
    /\ built \in SUBSET Onces /\ inMain \in BOOLEAN
    /\ calls \in [Threads -> Nat]

(* "Will invoke init_func on the first call only": whoever calls, and      *)
(* however the calls meet, a default instance is constructed once.         *)
RunsOnce == \A o \in Onces : runs[o] <= 1

(* "None of the calls return before that first call to init_func has       *)
(* finished": a thread that leaves its call finds the object complete,     *)
(* and with it what the object's closure went through.                     *)
ReadyOnReturn ==
    [][\A t \in Threads, o \in Onces :
         at[t][o] # "out" /\ at'[t][o] = "out" => {o} \union Needs(o) \subseteq built']_vars

(* In main every default instance is complete and says so, also when other *)
(* threads have begun the work: while the client sends and parses, nothing *)
(* is constructed and nobody has to wait.                                  *)
MessagesReadyInMain ==
    inMain => \A o \in Messages \union {EmptyString} :
                /\ o \in built /\ once[o] = DONE
                /\ \A t \in Threads : at[t][o] \notin {"run", "store"}

(* Every call returns: no closure waits for itself, or two for each other. *)
CallsReturn == \A t \in Threads : ~Quiet(t) ~> Quiet(t)
=============================================================================
