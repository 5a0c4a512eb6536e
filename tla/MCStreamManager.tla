--------------------------- MODULE MCStreamManager ---------------------------
(* Instances of StreamManager: one chat and a few attempts. *)
EXTENDS StreamManager

=============================================================================
