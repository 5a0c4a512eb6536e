--------------------------- MODULE MCSyncEngine ---------------------------
(***************************************************************************)
(* Instances of SyncEngine for TLC.                                         *)
(***************************************************************************)
EXTENDS SyncEngine, TLC

CONSTANTS d1, d2, k1, k2, k3

(* One key both devices already have, none, or two.                          *)
Shared == {<<[key |-> k1, content |-> 1]>>}
SharedOrNew == Shared \cup {<<>>}
SharedPair == {<<[key |-> k1, content |-> 1], [key |-> k2, content |-> 2]>>}

(* Devices are interchangeable.                                              *)
Symmetry == Permutations(Devices)

===========================================================================
