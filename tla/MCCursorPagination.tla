-------------------------- MODULE MCCursorPagination --------------------------
(***************************************************************************)
(* A small list for TLC.                                                   *)
(***************************************************************************)
EXTENDS CursorPagination
=============================================================================
