---------------------------- MODULE RecordRules ----------------------------
(***************************************************************************)
(* The per-record decision of the sync service's push path: what one record *)
(* of a batch does to the stored row of its blind id (apps/sync-service/    *)
(* src/records/store.ts, the numbered steps of applyBatch).  The decision   *)
(* is a function of the row the transaction sees, the pushed record, and    *)
(* two counters the transaction carries; the modules that use it supply     *)
(* the transaction.                                                         *)
(***************************************************************************)
EXTENDS Integers, Sequences

CONSTANTS Ids,             \* blind ids of one account
          Collections,     \* the sync collections, "providers" among them
          Vals,            \* ciphertexts, told apart only by identity and size
          NoVal,           \* the null ciphertext of a tombstone
          Size,            \* ciphertext length
          MaxRecordBytes,  \* env.MAX_RECORD_BYTES
          QuotaBytes       \* env.ACCOUNT_QUOTA_BYTES

ASSUME RulesAssumption ==
  /\ Size \in [Vals -> Nat]
  /\ NoVal \notin Vals
  /\ MaxRecordBytes \in Nat
  /\ QuotaBytes \in Nat

(* A stored row.  An id the account never wrote has the row Absent (rev 0);  *)
(* every stored row has a rev of at least 1.                                *)
Row == [rev : Nat, deleted : BOOLEAN, collection : Collections \cup {NoVal},
        val : Vals \cup {NoVal}]

Absent == [rev |-> 0, deleted |-> FALSE, collection |-> NoVal, val |-> NoVal]

Exists(row) == row.rev > 0

(* A pushed record.  `intact` is whether the ciphertext hashes to the        *)
(* ciphertextHash sent with it.                                             *)
PushRecord == [id : Ids, collection : Collections, baseRev : Nat,
               deleted : BOOLEAN, val : Vals, intact : BOOLEAN]

(* Length of the stored ciphertext; a tombstone or an absent row holds none. *)
ByteSize(row) == IF row.val \in Vals THEN Size[row.val] ELSE 0

(* Fault: the replaced ciphertext stays counted.                             *)
BytesAdded(totalBytes, row, newSize) == totalBytes + newSize

(* The account's byte count once the row is replaced.                        *)
BytesAfter(totalBytes, row, newSize) == totalBytes - ByteSize(row) + newSize

(* Fault: any tombstone the writer has seen may be written over.              *)
AnyRepair(row, rec) == rec.baseRev = row.rev

(* The one reusable identity: a provider whose tombstone the writer has seen. *)
ProviderRepair(row, rec) ==
  /\ row.collection = "providers"
  /\ rec.collection = "providers"
  /\ rec.baseRev = row.rev

(* Fault: a first push (baseRev 0) skips the comparison.                     *)
StaleUnlessInsert(row, rec) == rec.baseRev > 0 /\ row.rev # rec.baseRev

(* The compare-and-swap.  An absent row is written whatever the base: the     *)
(* server lost a record the device still holds.                             *)
StaleBase(row, rec) == Exists(row) /\ row.rev # rec.baseRev

Spent(deleteAllowance) == deleteAllowance <= 0

(* The outcome of one record, in the order the code tests for it.            *)
Verdict(row, rec, totalBytes, deleteAllowance) ==
  IF row.deleted /\ ~rec.deleted /\ ~ProviderRepair(row, rec)
    THEN "tombstoned"
  ELSE IF rec.deleted
    THEN IF row.deleted THEN "already_deleted"
         ELSE IF Spent(deleteAllowance) THEN "delete_rate_limited"
         ELSE "delete"
  ELSE IF Exists(row) /\ row.collection # rec.collection
    THEN "collection_mismatch"
  ELSE IF Size[rec.val] > MaxRecordBytes
    THEN "record_too_large"
  ELSE IF ~rec.intact
    THEN "hash_mismatch"
  ELSE IF StaleBase(row, rec)
    THEN "conflict"
  ELSE IF BytesAfter(totalBytes, row, Size[rec.val]) > QuotaBytes
    THEN "quota_exceeded"
  ELSE "write"

(* The row a delete leaves: the stored collection tag is kept when there is  *)
(* one, the ciphertext is dropped.                                          *)
Tombstone(row, rec, rev) ==
  [rev |-> rev, deleted |-> TRUE, val |-> NoVal,
   collection |-> IF Exists(row) THEN row.collection ELSE rec.collection]

(* The row an accepted insert or update leaves.                              *)
LiveRow(rec, rev) ==
  [rev |-> rev, deleted |-> FALSE, val |-> rec.val,
   collection |-> rec.collection]

=============================================================================
