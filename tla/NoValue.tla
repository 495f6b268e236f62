------------------------------- MODULE NoValue -------------------------------
(***************************************************************************)
(* Python's None, and the empty string where the code takes it for nothing. *)
(***************************************************************************)
CONSTANT None
=============================================================================
