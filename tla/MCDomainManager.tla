--------------------------- MODULE MCDomainManager ---------------------------
(***************************************************************************)
(* Model-checking instance of DomainManager: two tables of two columns,   *)
(* values {1, 2}, at most three rows per table.  Blocks hold two           *)
(* characters; the first estimate (no block processed yet) allows          *)
(* MemLimit \div (MaxBytesPerChar * BlockCapacity) = 2 blocks, as the code *)
(* does for every limit below 64 MB (capacity = limit / 32).               *)
(***************************************************************************)
EXTENDS DomainManager

=============================================================================
