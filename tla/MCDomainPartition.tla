-------------------------- MODULE MCDomainPartition --------------------------
(***************************************************************************)
(* Model-checking instance of DomainPartition: up to three values of at    *)
(* most two characters.  MCDomainPartition.cfg draws them from 'a' and 'b'; *)
(* MCDomainPartitionNewline.cfg lets a value hold '\n' (code 10), as a      *)
(* quoted CSV field may.                                                   *)
(***************************************************************************)
EXTENDS DomainPartition

=============================================================================
