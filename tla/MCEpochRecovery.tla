--------------------------- MODULE MCEpochRecovery ---------------------------
(* Instances of EpochRecovery for TLC.                                      *)
EXTENDS EpochRecovery

CONSTANTS d1, k1, b1

=============================================================================
