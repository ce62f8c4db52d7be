--------------------------- MODULE MCScalarEdits ---------------------------
(***************************************************************************)
(* One SELECT with one relation.  The arguments include values that the    *)
(* setters refuse.                                                         *)
(***************************************************************************)
EXTENDS ScalarEdits

MCLimitArgs == {None, 0, 10}
MCOffsetArgs == {-1, 0, 5}
=============================================================================
