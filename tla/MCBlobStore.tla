---------------------------- MODULE MCBlobStore ----------------------------
(***************************************************************************)
(* Instances of BlobStore for TLC: two bodies, one below the floor, and a    *)
(* quota that takes both on the first id or one of them beside the records.  *)
(***************************************************************************)
EXTENDS BlobStore, TLC

CONSTANTS small, big

MCBodies == {small, big}
MCBytes == small :> 1 @@ big :> 3

Symmetry == Permutations(Requests) \cup Permutations(BlobIds)

=============================================================================
