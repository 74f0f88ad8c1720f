------------------------------ MODULE MCPaging ------------------------------
(***************************************************************************)
(* Paging for TLC: five rows, pages of two.                                *)
(***************************************************************************)
EXTENDS Paging
=============================================================================
