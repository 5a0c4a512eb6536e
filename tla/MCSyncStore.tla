--------------------------- MODULE MCSyncStore ---------------------------
(***************************************************************************)
(* Instances of SyncStore for TLC.  Two blind ids, one of them a provider   *)
(* (the reusable identity), values of one and two bytes and one that is     *)
(* over MAX_RECORD_BYTES, a quota two large rows exceed.                    *)
(***************************************************************************)
EXTENDS SyncStore, TLC

CONSTANTS i1, i2, small, large, huge

MCIds == {i1, i2}
MCCollections == {"chats", "providers"}
MCVals == {small, large, huge}
MCSize == small :> 1 @@ large :> 2 @@ huge :> 3

CollectionOf(i) == IF i = i2 THEN "providers" ELSE "chats"

Upsert(i, base, val) ==
  [id |-> i, collection |-> CollectionOf(i), baseRev |-> base,
   deleted |-> FALSE, val |-> val, intact |-> TRUE]
Delete(i) == [Upsert(i, 0, small) EXCEPT !.deleted = TRUE]

(* Batches that meet every verdict: inserts and updates on the base of either *)
(* rev, deletions that the rate window may not grant, the provider repaired   *)
(* after its deletion, a row the quota has no room for, and the refusals      *)
(* (another collection, too large, corrupt) in front of a record that counts. *)
MCBatches ==
  {<<Upsert(i1, 0, large)>>,
   <<Upsert(i1, 1, small)>>,
   <<Upsert(i2, 0, small)>>,
   <<Delete(i1)>>,
   <<Delete(i2), Upsert(i2, 1, small)>>,
   <<Upsert(i1, 2, small), Upsert(i2, 0, large)>>,
   <<[Upsert(i1, 1, small) EXCEPT !.collection = "providers"], Upsert(i1, 0, huge)>>,
   <<[Upsert(i1, 0, small) EXCEPT !.intact = FALSE], Upsert(i1, 0, large)>>}

==========================================================================
