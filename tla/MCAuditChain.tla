---------------------------- MODULE MCAuditChain ----------------------------
(***************************************************************************)
(* Instance of AuditChain for TLC.  Replicas are interchangeable, and so   *)
(* are tenants.                                                            *)
(***************************************************************************)
EXTENDS AuditChain, TLC

Symmetry == Permutations(Replicas) \cup Permutations(Tenants)
=============================================================================
