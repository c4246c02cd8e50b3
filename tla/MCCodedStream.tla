--------------------------- MODULE MCCodedStream ----------------------------
(***************************************************************************)
(* Arrays of up to four bytes and one of negative length, and calls for    *)
(* nothing, for a part of a block, for more than the array has, for as     *)
(* much as an int may be, and for less than nothing.                       *)
(***************************************************************************)
EXTENDS CodedStream

MCSizes  == {-2, 1, 4}
MCCounts == {-1, 0, 1, 3, 7}
=============================================================================
