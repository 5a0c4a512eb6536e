---------------------------- MODULE MCGrantLease ----------------------------
(***************************************************************************)
(* Instances of GrantLease for TLC.                                         *)
(***************************************************************************)
EXTENDS GrantLease

=============================================================================
