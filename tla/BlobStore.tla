----------------------------- MODULE BlobStore -----------------------------
(***************************************************************************)
(* One account's blobs in the sync service: rows in Postgres that name a    *)
(* ciphertext hash and charge the account's byte count, and objects in S3   *)
(* that hold the bytes.  Nothing spans both stores, so PUT and DELETE are   *)
(* sequences of steps between which any other request may run, and at any   *)
(* of which the service may crash.                                          *)
(*                                                                         *)
(*   PUT     check - precheck - stream - lock - commit   (or fail)           *)
(*   DELETE  lock - commit - unlink                                         *)
(*   records lock - commit            a batch of SyncStore, for its bytes   *)
(*                                                                         *)
(* A body stands for a sealed blob and for its hash: sealBlob is            *)
(* deterministic, so a device that seals the same bytes under the same id    *)
(* again sends the same body.  GET and the listing only read.               *)
(***************************************************************************)
EXTENDS Integers, FiniteSets, FiniteSetsExt

CONSTANTS BlobIds,
          Bodies,      \* sealed blobs
          NoBody,      \* no row, or no object
          Garbage,     \* an object that is not what its request announced
          Bytes,       \* the Content-Length of a body
          Floor,       \* env.BLOB_QUOTA_FLOOR_BYTES
          RecordCharge,\* bytes a record batch adds or frees
          QuotaBytes,  \* env.ACCOUNT_QUOTA_BYTES
          Requests,
          Nobody

ASSUME BlobAssumption ==
  /\ IsFiniteSet(BlobIds)
  /\ NoBody \notin Bodies \cup BlobIds /\ Garbage \notin Bodies /\ NoBody # Garbage
  /\ Bytes \in [Bodies -> Nat]
  /\ Floor \in Nat /\ RecordCharge \in Nat /\ QuotaBytes \in Nat
  /\ Nobody \notin Requests

VARIABLES rows,        \* sync_blobs: the body a row names
          objects,     \* the bucket
          totalBytes,  \* sync_accounts.total_bytes
          recordBytes, \* what of it the records hold
          lock,        \* who holds the account row FOR UPDATE
          pc,          \* where a request is
          req,         \* what it asks, and totalBytes as it read it
          promised,    \* the body a PUT last reported stored, until deleted
          spoiled,     \* ids some PUT failed on after streaming, or deleted
          overlapped   \* ids two requests have been open for at once

dbVars  == <<rows, totalBytes, recordBytes>>
vars    == <<dbVars, objects, lock, pc, req, promised, spoiled, overlapped>>

Requesting(k, ids, bodies) ==
  [kind : {k}, id : ids, body : bodies, total : Int]

Request == Requesting("put", BlobIds, Bodies)
           \cup Requesting("delete", BlobIds, {NoBody})
           \cup Requesting("records", {NoBody}, {NoBody})

(* A batch of records concerns no blob; it also stands for an idle slot.     *)
Blank == [kind |-> "records", id |-> NoBody, body |-> NoBody, total |-> 0]

id(r) == req[r].id
body(r) == req[r].body
total(r) == req[r].total

Maximum(m, n) == IF m >= n THEN m ELSE n

(* flooredBytes: what a blob charges.                                        *)
Charge(b) == Maximum(Bytes[b], Floor)

Init ==
  /\ rows = [i \in BlobIds |-> NoBody]
  /\ objects = [i \in BlobIds |-> NoBody]
  /\ totalBytes = 0
  /\ recordBytes = 0
  /\ lock = Nobody
  /\ pc = [r \in Requests |-> "idle"]
  /\ req = [r \in Requests |-> Blank]
  /\ promised = [i \in BlobIds |-> NoBody]
  /\ spoiled = {}
  /\ overlapped = {}

Goto(r, to) == pc' = [pc EXCEPT ![r] = to] /\ UNCHANGED <<req, overlapped>>

Done(r) ==
  /\ pc' = [pc EXCEPT ![r] = "idle"]
  /\ req' = [req EXCEPT ![r] = Blank]
  /\ UNCHANGED overlapped

(* No open request is for blob i.                                            *)
Untouched(i) == i = NoBody \/ \A q \in Requests : id(q) # i

(* A request arrives, whatever else is open.                                 *)
Start(r, ask) ==
  /\ pc[r] = "idle"
  /\ overlapped' = IF Untouched(ask.id) THEN overlapped
                   ELSE overlapped \cup {ask.id}
  /\ req' = [req EXCEPT ![r] = ask]
  /\ pc' = [pc EXCEPT ![r] = IF ask.kind = "put" THEN "check" ELSE "lock"]
  /\ UNCHANGED <<dbVars, objects, lock, promised, spoiled>>

StartPut(r) ==
  \E i \in BlobIds, b \in Bodies :
    Start(r, [kind |-> "put", id |-> i, body |-> b, total |-> 0])

StartDelete(r) ==
  \E i \in BlobIds :
    Start(r, [kind |-> "delete", id |-> i, body |-> NoBody, total |-> 0])

StartRecords(r) == Start(r, Blank)

-----------------------------------------------------------------------------
(* PUT, before the lock.                                                     *)

Check(r) == pc[r] = "check" /\ UNCHANGED <<dbVars, objects, lock, spoiled>>

(* 200: the row is there with the same hash; nothing is stored again.        *)
AlreadyStored(r) ==
  /\ Check(r)
  /\ rows[id(r)] = body(r)
  /\ promised' = [promised EXCEPT ![id(r)] = body(r)]
  /\ Done(r)

(* 409: the row is there with another hash.                                  *)
IdTaken(r) ==
  /\ Check(r)
  /\ rows[id(r)] \notin {NoBody, body(r)}
  /\ Done(r)
  /\ UNCHANGED promised

NotYetStored(r) ==
  /\ Check(r)
  /\ rows[id(r)] = NoBody
  /\ Goto(r, "precheck")
  /\ UNCHANGED promised

(* The unlocked look at the quota: 507 at once, or on to the upload.         *)
PreCheck(r) ==
  /\ pc[r] = "precheck"
  /\ \/ totalBytes + Charge(body(r)) > QuotaBytes /\ Done(r)
     \/ totalBytes + Charge(body(r)) <= QuotaBytes /\ Goto(r, "stream")
  /\ UNCHANGED <<dbVars, objects, lock, promised, spoiled>>

Stream(r) == pc[r] = "stream" /\ UNCHANGED <<dbVars, lock,
                                             promised>>

Uploaded(r) ==
  /\ Stream(r)
  /\ objects' = [objects EXCEPT ![id(r)] = body(r)]
  /\ Goto(r, "lock")
  /\ UNCHANGED spoiled

(* Fault: an error of the object store is not looked at.                     *)
UploadErrorIgnored(r) ==
  /\ Stream(r)
  /\ Goto(r, "lock")
  /\ UNCHANGED <<objects, spoiled>>

(* putStream throws (the client stalled or overran, the store refused or its *)
(* answer was lost) with the object stored or not, or the bytes that arrived *)
(* are not the ones announced.                                              *)
UploadFailed(r) ==
  /\ Stream(r)
  /\ \E left \in {objects[id(r)], body(r), Garbage} :
       objects' = [objects EXCEPT ![id(r)] = left]
  /\ Goto(r, "fail")
  /\ spoiled' = spoiled \cup {id(r)}

(* fail(): a best-effort delete of the key, three attempts, then the error.  *)
Fail(r) ==
  /\ pc[r] = "fail"
  /\ \E left \in {objects[id(r)], NoBody} :
       objects' = [objects EXCEPT ![id(r)] = left]
  /\ Done(r)
  /\ UNCHANGED <<dbVars, lock, promised, spoiled>>

-----------------------------------------------------------------------------
(* The transactions under the account row's lock.                           *)

ReadUnder(r) ==
  /\ pc[r] = "lock"
  /\ lock' = r
  /\ req' = [req EXCEPT ![r].total = totalBytes]
  /\ pc' = [pc EXCEPT ![r] = "commit"]
  /\ UNCHANGED <<dbVars, objects, promised, spoiled, overlapped>>

(* Fault: the account row is selected without FOR UPDATE.                    *)
LockFree(r) == ReadUnder(r)

Lock(r) == lock = Nobody /\ ReadUnder(r)

Committing(r, k) ==
  /\ pc[r] = "commit"
  /\ req[r].kind = k
  /\ lock' = Nobody

(* Fault: the check made before the upload is relied on.                     *)
FitsAlready(r) == TRUE

(* The quota, asked again of the count read under the lock.                  *)
Fits(r) == total(r) + Charge(body(r)) <= QuotaBytes

(* The row describes what the request announced.                             *)
RowBody(r) == body(r)

(* commitBlob, "created": the row is new and fits, or it is already there     *)
(* with this hash and is counted.                                           *)
CommitNew(r) ==
  /\ Committing(r, "put")
  /\ rows[id(r)] = NoBody
  /\ Fits(r)
  /\ rows' = [rows EXCEPT ![id(r)] = RowBody(r)]
  /\ totalBytes' = total(r) + Charge(body(r))
  /\ promised' = [promised EXCEPT ![id(r)] = body(r)]
  /\ Done(r)
  /\ UNCHANGED <<objects, recordBytes, spoiled>>

(* Fault: any row under the id counts as the one being committed.            *)
AnyRow(r) == rows[id(r)] # NoBody

SameRow(r) == rows[id(r)] = body(r)

CommitCounted(r) ==
  /\ Committing(r, "put")
  /\ SameRow(r)
  /\ promised' = [promised EXCEPT ![id(r)] = body(r)]
  /\ Done(r)
  /\ UNCHANGED <<dbVars, objects, spoiled>>

(* Fault: the loser of the race cleans up after itself.                      *)
LoserDeletes(r) == Goto(r, "fail")

(* The loser answers 409 and leaves the object: it may be the winner's.       *)
LoserAnswers(r) == Done(r)

CommitLost(r) ==
  /\ Committing(r, "put")
  /\ rows[id(r)] \notin {NoBody, body(r)}
  /\ LoserAnswers(r)
  /\ UNCHANGED <<dbVars, objects, promised, spoiled>>

CommitOverQuota(r) ==
  /\ Committing(r, "put")
  /\ rows[id(r)] = NoBody
  /\ ~Fits(r)
  /\ Goto(r, "fail")
  /\ spoiled' = spoiled \cup {id(r)}
  /\ UNCHANGED <<dbVars, objects, promised>>

(* What is left of the count: an absent row credits nothing.                 *)
Credited(r) ==
  IF rows[id(r)] = NoBody THEN totalBytes
  ELSE Maximum(0, total(r) - Charge(rows[id(r)]))

(* deleteBlobRow.                                                            *)
CommitDelete(r) ==
  /\ Committing(r, "delete")
  /\ rows' = [rows EXCEPT ![id(r)] = NoBody]
  /\ totalBytes' = Credited(r)
  /\ promised' = [promised EXCEPT ![id(r)] = NoBody]
  /\ spoiled' = spoiled \cup {id(r)}
  /\ Goto(r, "unlink")
  /\ UNCHANGED <<objects, recordBytes>>

(* The object delete that follows, best effort.                              *)
Unlink(r) ==
  /\ pc[r] = "unlink"
  /\ \E left \in {objects[id(r)], NoBody} :
       objects' = [objects EXCEPT ![id(r)] = left]
  /\ Done(r)
  /\ UNCHANGED <<dbVars, lock, promised, spoiled>>

(* A batch of records that fits, or one that frees bytes.                     *)
CommitRecords(r) ==
  /\ Committing(r, "records")
  /\ \/ /\ total(r) + RecordCharge <= QuotaBytes
        /\ totalBytes' = total(r) + RecordCharge
        /\ recordBytes' = recordBytes + RecordCharge
     \/ /\ recordBytes >= RecordCharge
        /\ totalBytes' = total(r) - RecordCharge
        /\ recordBytes' = recordBytes - RecordCharge
     \/ UNCHANGED <<totalBytes, recordBytes>>
  /\ Done(r)
  /\ UNCHANGED <<rows, objects, promised, spoiled>>

(* The service dies, or the database connection does: an open transaction     *)
(* rolls back, the object stays as it is.                                    *)
Crash(r) ==
  /\ pc[r] # "idle"
  /\ Done(r)
  /\ lock' = IF lock = r THEN Nobody ELSE lock
  /\ UNCHANGED <<dbVars, objects, promised, spoiled>>

Put(r) ==
  \/ AlreadyStored(r) \/ IdTaken(r) \/ NotYetStored(r) \/ PreCheck(r)
  \/ Uploaded(r) \/ UploadFailed(r) \/ Fail(r)
  \/ CommitNew(r) \/ CommitCounted(r) \/ CommitLost(r) \/ CommitOverQuota(r)

Delete(r) == CommitDelete(r) \/ Unlink(r)

Next ==
  \E r \in Requests :
    \/ StartPut(r) \/ StartDelete(r) \/ StartRecords(r)
    \/ Put(r) \/ Lock(r) \/ Delete(r) \/ CommitRecords(r) \/ Crash(r)

Spec == Init /\ [][Next]_vars

-----------------------------------------------------------------------------
(* Properties.                                                               *)

(* Type correctness.                                                         *)
TypeOK ==
  /\ rows \in [BlobIds -> Bodies \cup {NoBody}]
  /\ objects \in [BlobIds -> Bodies \cup {NoBody, Garbage}]
  /\ totalBytes \in Int
  /\ recordBytes \in Nat
  /\ lock \in Requests \cup {Nobody}
  /\ pc \in [Requests -> {"idle", "check", "precheck", "stream", "fail",
                          "lock", "commit", "unlink"}]
  /\ req \in [Requests -> Request]
  /\ promised \in [BlobIds -> Bodies \cup {NoBody}]
  /\ spoiled \subseteq BlobIds
  /\ overlapped \subseteq BlobIds

(* What the stored blobs charge together.                                    *)
Stored == {i \in BlobIds : rows[i] # NoBody}
Charged == SumFunction([i \in Stored |-> Charge(rows[i])])

(* The one counter records and blobs share is exact, whoever wrote last: no  *)
(* commit works from a count read before another's.                          *)
QuotaExact == totalBytes = recordBytes + Charged

(* Two uploads that each fit but not together cannot both be committed, for  *)
(* all that both passed the unlocked check.                                  *)
WithinQuota == totalBytes <= QuotaBytes

(* A device told its blob is stored (200 or 201) can count on it until some   *)
(* device deletes it: the row names that body and no other.                  *)
PromiseKept == \A i \in BlobIds : promised[i] \in {NoBody, rows[i]}

(* The loser of a race for an id takes nothing from the winner: while no     *)
(* upload to the id failed and nobody deleted it, its row has an object with *)
(* the bytes of one of the racers.                                          *)
WinnerKeepsObject ==
  \A i \in BlobIds \ spoiled : rows[i] # NoBody => objects[i] \in Bodies

(* A row has its object, with the bytes it names, unless two requests for    *)
(* its id were ever open at once: the row is written after the object and    *)
(* goes before it, at whichever step an upload fails or the service dies.    *)
RowHasItsObject ==
  \A i \in BlobIds \ overlapped : rows[i] # NoBody => objects[i] = rows[i]

(* Not kept (README): what the client reads into a 200 ("idempotent: object  *)
(* already present with this hash"): some object is there at the answer.     *)
OkMeansPresent ==
  [][\A r \in Requests : AlreadyStored(r) => objects[id(r)] # NoBody]_vars

(* The same where no two requests for the id have overlapped: then the       *)
(* object is the one whose hash the 200 confirms.                            *)
OkMeansPresentAlone ==
  [][\A r \in Requests :
       AlreadyStored(r) /\ id(r) \notin overlapped
         => objects[id(r)] = body(r)]_vars

-----------------------------------------------------------------------------
(* The inductive invariant of the proofs (BlobStoreProofs).                  *)

(* The account row is read by its holder only, and has not changed since.    *)
LockInv ==
  \A r \in Requests :
    /\ pc[r] = "commit" <=> lock = r
    /\ lock = r => total(r) = totalBytes

Uploading == {"check", "precheck", "stream", "fail"}

KindInv ==
  \A r \in Requests :
    /\ pc[r] = "idle" => req[r] = Blank
    /\ pc[r] \in Uploading => req[r].kind = "put"
    /\ pc[r] = "unlink" => req[r].kind = "delete"

(* A PUT whose object is in the bucket and whose row is not committed yet.   *)
Ready(r) == req[r].kind = "put" /\ pc[r] \in {"lock", "commit"}

(* What an id nothing went wrong on can count on.                            *)
ObjectInv ==
  /\ \A r \in Requests : pc[r] \in {"fail", "unlink"} => id(r) \in spoiled
  /\ \A r \in Requests :
       Ready(r) /\ id(r) \notin spoiled => objects[id(r)] \in Bodies
  /\ WinnerKeepsObject

(* What a request that has its blob id to itself can count on.               *)
Alone(r) == id(r) \notin overlapped

SoloInv ==
  /\ \A q, r \in Requests : q # r /\ id(q) = id(r) => id(q) = NoBody \/ ~Alone(q)
  /\ \A r \in Requests : Ready(r) /\ Alone(r) => objects[id(r)] = body(r)
  /\ \A r \in Requests :
       /\ Alone(r)
       /\ Ready(r) \/ pc[r] \in {"precheck", "stream", "fail", "unlink"}
       => rows[id(r)] = NoBody
  /\ RowHasItsObject

IndInv ==
  /\ TypeOK
  /\ LockInv
  /\ KindInv
  /\ WithinQuota /\ QuotaExact
  /\ PromiseKept
  /\ ObjectInv
  /\ SoloInv

=============================================================================
