----------------------------- MODULE MCDiscovery -----------------------------
(***************************************************************************)
(* Model-checking instance of Discovery: two tables of two columns over    *)
(* values {1, 2}, at most three rows each.  MCDiscovery.cfg gives a limit  *)
(* under which nothing is swapped; MCDiscoverySwap.cfg the small limit of  *)
(* MCDomainManager, under which tail partitions are swapped mid-table.     *)
(***************************************************************************)
EXTENDS Discovery

=============================================================================
