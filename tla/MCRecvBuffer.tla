---------------------------- MODULE MCRecvBuffer ----------------------------
(***************************************************************************)
(* The messages of a small server: two types with a handler and one        *)
(* without, bodies of one and three cells, one that begins like a header,  *)
(* and an empty one.  recv_buffer may hold any three cells again and       *)
(* again: 0 (no type, no body), 1 (a type, and a short body) and 12, which *)
(* is negative as a signed number.                                         *)
(***************************************************************************)
EXTENDS RecvBuffer

MCMessages ==
    {[type |-> 1, body |-> <<9>>], [type |-> 2, body |-> <<1, 0, 9>>],
     [type |-> 2, body |-> <<>>],  [type |-> 3, body |-> <<9>>]}

MCAnyFill ==
    {f \in [1..BufSize -> {0, 1, 12}] : \A i \in 1..BufSize - 3 : f[i + 3] = f[i]}

MCZeroFill == {[i \in 1..BufSize |-> 0]}
=============================================================================
