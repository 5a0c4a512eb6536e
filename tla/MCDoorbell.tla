----------------------------- MODULE MCDoorbell -----------------------------
(***************************************************************************)
(* Instances of Doorbell for TLC.                                           *)
(***************************************************************************)
EXTENDS Doorbell, TLC

=============================================================================
