--------------------------- MODULE MCProtoParser ----------------------------
(***************************************************************************)
(* Values for ProtoParser: small, negative and wide numbers; texts of no,  *)
(* one and two bytes; fields no class knows, of every wire type, with a    *)
(* number of two bytes, nested, and with a known number but another wire   *)
(* type; and the bytes that tell the cases apart: tags of known and        *)
(* unknown fields and of groups, short lengths, the pieces of wide and     *)
(* negative varints, and 0.  <<18, 253, 15>> is a packed list as long as   *)
(* no limit can say, with IntBits = 12, and <<18, 251, 15>> the longest it *)
(* can.                                                                    *)
(***************************************************************************)
EXTENDS ProtoParser

MCInts  == {0, 1, -1, 300}
MCTexts == {<<>>, <<8>>, <<0, 200>>}
MCLists == {<<>>, <<1>>, <<-1, 300>>}

MCUnknowns ==
    {<<40, 129, 1>>, <<41, 1, 2, 3, 4, 5, 6, 7, 8>>, <<42, 2, 8, 9>>,
     <<43, 8, 1, 51, 52, 44>>, <<45, 1, 2, 3, 4>>, <<128, 1, 5>>, <<10, 1, 8>>}

MCLeftovers ==
    {<<>>, <<0, 0, 0>>, <<8, 1>>, <<129, 0>>, <<18, 253, 15, 24, 1>>,
     <<18, 251, 15, 24, 1>>}

MCBytes == {0, 1, 2, 8, 11, 12, 13, 14, 16, 18, 128, 253, 15, 31}
=============================================================================
