---------------------------- MODULE MCPagination ----------------------------
(***************************************************************************)
(* Five rows, pages of one to three: defaulted, too large and exact limits.*)
(***************************************************************************)
EXTENDS Pagination
MCLimits == {-1, 0, 1, 3, 4}
=============================================================================
