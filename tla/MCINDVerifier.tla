---------------------------- MODULE MCINDVerifier ----------------------------
(***************************************************************************)
(* Model-checking instance of INDVerifier: tables of up to three rows over *)
(* two projected tuples, given as two objects or as one object twice, and *)
(* two executions of the same verifier.  Three rows give a tuple repeated  *)
(* beside another one (a cluster of two rows next to a cluster of one) and *)
(* partial errors such as 1/2.                                             *)
(***************************************************************************)
EXTENDS INDVerifier

=============================================================================
