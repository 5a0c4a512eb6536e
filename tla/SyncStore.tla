----------------------------- MODULE SyncStore -----------------------------
(***************************************************************************)
(* One account's record store in the sync service, as the devices of the    *)
(* account use it: POST /api/v1/sync/changes (a batch is one database       *)
(* transaction under the account row's lock) and GET /api/v1/sync/changes   *)
(* (pages of records above a watermark, read without the lock).             *)
(*                                                                         *)
(* A push is several steps, because the lock, the commit, the doorbell      *)
(* publish and the answer are separate moments another request can fall     *)
(* between: Begin takes the lock and reads the account row, one step per    *)
(* record decides it against the rows the transaction sees, Commit makes    *)
(* the writes visible, Publish pokes the doorbell, Answer delivers the       *)
(* response.  The transaction may abort at any point before its commit, and *)
(* the response may be lost after it.                                       *)
(*                                                                         *)
(* A pull is a read and a delivery: the page is computed at one moment and  *)
(* applied by the device at a later one, and may be lost in between.        *)
(***************************************************************************)
EXTENDS RecordRules, FiniteSets, FiniteSetsExt

CONSTANTS Pushers,     \* concurrent push requests of the account's devices
          Pullers,     \* devices pulling with a watermark of their own
          Nobody,      \* the account lock is free
          Batches,     \* the push bodies a request may carry
          PullLimit,   \* page size, at least 1
          ByteBudget,  \* env.PULL_BYTE_BUDGET
          MaxHead      \* bound: no batch begins that could take head above it

ASSUME StoreAssumption ==
  /\ Nobody \notin Pushers
  /\ Batches \subseteq Seq(PushRecord)
  /\ IsFiniteSet(Ids)
  /\ PullLimit \in Nat \ {0}
  /\ ByteBudget \in Nat
  /\ MaxHead \in Nat

VARIABLES
  (* the database *)
  records,     \* sync_records: the committed row of every id
  head,        \* sync_accounts.head_rev
  totalBytes,  \* sync_accounts.total_bytes
  lock,        \* who holds the account row FOR UPDATE
  (* push requests *)
  pc,          \* where a request is
  todo,        \* the records of the batch not decided yet
  writes,      \* rows the open transaction wrote, Absent where it did not
  txHead, txBytes, deleteAllowance,
  accepted,    \* versions the transaction gave a fresh rev
  oks,         \* <<id, rev>> of the results that say ok
  (* pulling devices *)
  page,        \* the page in flight to the device, Absent where it has no row
  asking,      \* whether a pull is outstanding
  watermark,   \* the device's watermarkRev
  seen,        \* the rev of the row the device last applied for an id
  (* history, for the properties *)
  history,     \* every committed version, with the baseRev it was written on
  acked        \* <<id, rev>> some device was told is stored

dbVars   == <<records, head, totalBytes, lock>>
pushVars == <<pc, todo, writes, txHead, txBytes, deleteAllowance, accepted, oks>>
pullVars == <<page, asking, watermark, seen>>
vars     == <<dbVars, pushVars, pullVars, history, acked>>

Version == [id : Ids, rev : Nat, baseRev : Nat, deleted : BOOLEAN]

NoWrites == [i \in Ids |-> Absent]

EmptyPage == [i \in Ids |-> Absent]

(* The rows of the page in flight to d.                                      *)
OnPage(d) == {i \in Ids : Exists(page[d][i])}

Init ==
  /\ records = [i \in Ids |-> Absent]
  /\ head = 0
  /\ totalBytes = 0
  /\ lock = Nobody
  /\ pc = [p \in Pushers |-> "idle"]
  /\ todo = [p \in Pushers |-> <<>>]
  /\ writes = [p \in Pushers |-> NoWrites]
  /\ txHead = [p \in Pushers |-> 0]
  /\ txBytes = [p \in Pushers |-> 0]
  /\ deleteAllowance = [p \in Pushers |-> 0]
  /\ accepted = [p \in Pushers |-> {}]
  /\ oks = [p \in Pushers |-> {}]
  /\ page = [d \in Pullers |-> EmptyPage]
  /\ asking = [d \in Pullers |-> FALSE]
  /\ watermark = [d \in Pullers |-> 0]
  /\ seen = [d \in Pullers |-> [i \in Ids |-> 0]]
  /\ history = {}
  /\ acked = {}

-----------------------------------------------------------------------------
(* Push.                                                                     *)

(* The row the open transaction of p sees for an id: its own write, or the   *)
(* committed row.                                                           *)
Current(p, id) ==
  IF Exists(writes[p][id]) THEN writes[p][id] ELSE records[id]

DeletesRequested(batch) ==
  Cardinality({k \in DOMAIN batch : batch[k].deleted})

(* The transaction state a batch starts from.                                *)
Open(p, batch) ==
  /\ pc[p] = "idle"
  /\ head + Len(batch) <= MaxHead
  /\ lock' = p
  /\ pc' = [pc EXCEPT ![p] = "open"]
  /\ todo' = [todo EXCEPT ![p] = batch]
  /\ txHead' = [txHead EXCEPT ![p] = head]
  /\ txBytes' = [txBytes EXCEPT ![p] = totalBytes]
  /\ \E granted \in 0 .. DeletesRequested(batch) :
       deleteAllowance' = [deleteAllowance EXCEPT ![p] = granted]
  /\ UNCHANGED <<records, head, totalBytes, writes, accepted, oks, pullVars,
                 history, acked>>

(* Fault: the account row is read without FOR UPDATE.                        *)
BeginUnlocked(p, batch) == Open(p, batch)

(* The transaction opens: the account row is created if need be and locked,  *)
(* head and totalBytes are read under the lock, and the delete-rate window   *)
(* is asked once for the whole batch (it may grant fewer).                   *)
Begin(p, batch) == lock = Nobody /\ Open(p, batch)

(* The verdict on the next record of the batch.                              *)
NextVerdict(p) ==
  LET rec == Head(todo[p])
  IN  Verdict(Current(p, rec.id), rec, txBytes[p], deleteAllowance[p])

(* The next record gets a fresh rev and its row is written.                  *)
WriteRow(p, row) ==
  LET rec == Head(todo[p])
  IN  /\ writes' = [writes EXCEPT ![p][rec.id] = row]
      /\ txHead' = [txHead EXCEPT ![p] = row.rev]
      /\ txBytes' = [txBytes EXCEPT
                       ![p] = BytesAfter(@, Current(p, rec.id), ByteSize(row))]
      /\ accepted' = [accepted EXCEPT ![p] = @ \cup
                       {[id |-> rec.id, rev |-> row.rev,
                         baseRev |-> rec.baseRev, deleted |-> rec.deleted]}]
      /\ oks' = [oks EXCEPT ![p] = @ \cup {<<rec.id, row.rev>>}]

Deciding(p) ==
  /\ pc[p] = "open"
  /\ todo[p] # <<>>
  /\ todo' = [todo EXCEPT ![p] = Tail(@)]
  /\ UNCHANGED <<dbVars, pc, pullVars, history, acked>>

AcceptWrite(p) ==
  /\ Deciding(p)
  /\ NextVerdict(p) = "write"
  /\ WriteRow(p, LiveRow(Head(todo[p]), txHead[p] + 1))
  /\ UNCHANGED deleteAllowance

AcceptDelete(p) ==
  /\ Deciding(p)
  /\ NextVerdict(p) = "delete"
  /\ LET rec == Head(todo[p])
     IN  WriteRow(p, Tombstone(Current(p, rec.id), rec, txHead[p] + 1))
  /\ deleteAllowance' = [deleteAllowance EXCEPT ![p] = @ - 1]

(* A delete of a tombstone is answered ok with the tombstone's own rev.      *)
RepeatDelete(p) ==
  /\ Deciding(p)
  /\ NextVerdict(p) = "already_deleted"
  /\ LET rec == Head(todo[p])
     IN  oks' = [oks EXCEPT ![p] = @ \cup {<<rec.id, Current(p, rec.id).rev>>}]
  /\ UNCHANGED <<writes, txHead, txBytes, deleteAllowance, accepted>>

(* Every other verdict goes into the results and changes nothing.            *)
Refuse(p) ==
  /\ Deciding(p)
  /\ NextVerdict(p) \notin {"write", "delete", "already_deleted"}
  /\ UNCHANGED <<writes, txHead, txBytes, deleteAllowance, accepted, oks>>

(* What the transaction kept for itself is gone with it.                     *)
EndTransaction(p) ==
  /\ todo' = [todo EXCEPT ![p] = <<>>]
  /\ writes' = [writes EXCEPT ![p] = NoWrites]
  /\ txHead' = [txHead EXCEPT ![p] = 0]
  /\ txBytes' = [txBytes EXCEPT ![p] = 0]
  /\ deleteAllowance' = [deleteAllowance EXCEPT ![p] = 0]
  /\ accepted' = [accepted EXCEPT ![p] = {}]

(* The rows, head and totalBytes of the transaction become visible together  *)
(* and the lock is released.                                                *)
Commit(p) ==
  /\ pc[p] = "open"
  /\ todo[p] = <<>>
  /\ records' = [i \in Ids |-> Current(p, i)]
  /\ head' = txHead[p]
  /\ totalBytes' = txBytes[p]
  /\ lock' = Nobody
  /\ history' = history \cup accepted[p]
  /\ pc' = [pc EXCEPT ![p] = IF accepted[p] # {} THEN "committed" ELSE "answering"]
  /\ EndTransaction(p)
  /\ UNCHANGED <<oks, pullVars, acked>>

(* Fault: the failed transaction is answered with its results.               *)
AbortAnswering(p) ==
  /\ pc[p] = "open"
  /\ lock' = Nobody
  /\ pc' = [pc EXCEPT ![p] = "answering"]
  /\ EndTransaction(p)
  /\ UNCHANGED <<records, head, totalBytes, oks, pullVars, history, acked>>

(* The transaction fails before its commit: nothing of it remains and the    *)
(* request is answered with an error.                                       *)
Abort(p) ==
  /\ pc[p] = "open"
  /\ lock' = Nobody
  /\ pc' = [pc EXCEPT ![p] = "idle"]
  /\ oks' = [oks EXCEPT ![p] = {}]
  /\ EndTransaction(p)
  /\ UNCHANGED <<records, head, totalBytes, pullVars, history, acked>>

(* The doorbell publish, awaited after the commit and before the answer.     *)
Publish(p) ==
  /\ pc[p] = "committed"
  /\ pc' = [pc EXCEPT ![p] = "answering"]
  /\ UNCHANGED <<dbVars, todo, writes, txHead, txBytes, deleteAllowance,
                 accepted, oks, pullVars, history, acked>>

(* The answer reaches the device.                                            *)
Answer(p) ==
  /\ pc[p] = "answering"
  /\ pc' = [pc EXCEPT ![p] = "idle"]
  /\ acked' = acked \cup oks[p]
  /\ oks' = [oks EXCEPT ![p] = {}]
  /\ UNCHANGED <<dbVars, todo, writes, txHead, txBytes, deleteAllowance,
                 accepted, pullVars, history>>

(* The publish threw (a 500 for a batch that is committed) or the answer was *)
(* lost: the device does not learn what happened.                            *)
LoseAnswer(p) ==
  /\ pc[p] \in {"committed", "answering"}
  /\ pc' = [pc EXCEPT ![p] = "idle"]
  /\ oks' = [oks EXCEPT ![p] = {}]
  /\ UNCHANGED <<dbVars, todo, writes, txHead, txBytes, deleteAllowance,
                 accepted, pullVars, history, acked>>

-----------------------------------------------------------------------------
(* Pull.                                                                     *)

Newer(since) == {i \in Ids : records[i].rev > since}

(* The sets of ids a page may hold: the newer rows in the order of their     *)
(* revs, up to some point.                                                  *)
Prefixes(since) ==
  {S \in SUBSET Newer(since) :
     \A i \in S, j \in Newer(since) : records[j].rev < records[i].rev => j \in S}

Sizes(rows) == [i \in Ids |-> ByteSize(rows[i])]
Bytes(S) == SumFunctionOnSet(Sizes(records), S)

(* Fault: the byte budget binds the first row too.                           *)
FitsStrictly(S) == Cardinality(S) <= PullLimit /\ Bytes(S) <= ByteBudget

(* A page ends at PullLimit rows, or before the row that would take it over  *)
(* the byte budget; its first row always goes.                              *)
Fits(S) ==
  /\ Cardinality(S) <= PullLimit
  /\ Cardinality(S) > 1 => Bytes(S) <= ByteBudget

PageIds(since) ==
  {S \in Prefixes(since) :
     /\ Fits(S)
     /\ \A T \in Prefixes(since) : (S \subseteq T /\ Fits(T)) => T = S}

(* The SELECT: one statement, no transaction, committed rows only.           *)
Pull(d) ==
  /\ ~asking[d]
  /\ \E S \in PageIds(watermark[d]) :
       page' = [page EXCEPT ![d] =
         [i \in Ids |-> IF i \in S THEN records[i] ELSE Absent]]
  /\ asking' = [asking EXCEPT ![d] = TRUE]
  /\ UNCHANGED <<dbVars, pushVars, watermark, seen, history, acked>>

(* The device applies the page row by row and advances its watermark to the  *)
(* highest rev on it.                                                       *)
Deliver(d) ==
  /\ asking[d]
  /\ seen' = [seen EXCEPT ![d] =
       [i \in Ids |-> IF i \in OnPage(d) THEN page[d][i].rev ELSE @[i]]]
  /\ \/ OnPage(d) = {} /\ UNCHANGED watermark
     \/ \E last \in OnPage(d) :
          /\ \A i \in OnPage(d) : page[d][i].rev <= page[d][last].rev
          /\ watermark' = [watermark EXCEPT ![d] = page[d][last].rev]
  /\ page' = [page EXCEPT ![d] = EmptyPage]
  /\ asking' = [asking EXCEPT ![d] = FALSE]
  /\ UNCHANGED <<dbVars, pushVars, history, acked>>

(* The response is lost; the watermark stays and the device asks again.      *)
LosePage(d) ==
  /\ asking[d]
  /\ page' = [page EXCEPT ![d] = EmptyPage]
  /\ asking' = [asking EXCEPT ![d] = FALSE]
  /\ UNCHANGED <<dbVars, pushVars, watermark, seen, history, acked>>

-----------------------------------------------------------------------------
Push(p) ==
  \/ \E batch \in Batches : Begin(p, batch)
  \/ AcceptWrite(p)
  \/ AcceptDelete(p)
  \/ RepeatDelete(p)
  \/ Refuse(p)
  \/ Commit(p)
  \/ Abort(p)
  \/ Publish(p)
  \/ Answer(p)
  \/ LoseAnswer(p)

Device(d) == Pull(d) \/ Deliver(d) \/ LosePage(d)

Next == (\E p \in Pushers : Push(p)) \/ (\E d \in Pullers : Device(d))

Spec == Init /\ [][Next]_vars

(* A device keeps asking (the periodic cycle, the doorbell, focus and online *)
(* triggers), and a response that is asked for again and again eventually    *)
(* arrives.  Nothing is assumed of pushes.                                  *)
FairSpec ==
  /\ Spec
  /\ \A d \in Pullers : WF_vars(Pull(d)) /\ SF_vars(Deliver(d))

-----------------------------------------------------------------------------
(* Properties.                                                               *)

TypeOK ==
  /\ records \in [Ids -> Row]
  /\ head \in Nat
  /\ totalBytes \in Int
  /\ lock \in Pushers \cup {Nobody}
  /\ pc \in [Pushers -> {"idle", "open", "committed", "answering"}]
  /\ todo \in [Pushers -> Seq(PushRecord)]
  /\ writes \in [Pushers -> [Ids -> Row]]
  /\ txHead \in [Pushers -> Nat]
  /\ txBytes \in [Pushers -> Int]
  /\ deleteAllowance \in [Pushers -> Nat]
  /\ accepted \in [Pushers -> SUBSET Version]
  /\ oks \in [Pushers -> SUBSET (Ids \X Nat)]
  /\ page \in [Pullers -> [Ids -> Row]]
  /\ asking \in [Pullers -> BOOLEAN]
  /\ watermark \in [Pullers -> Nat]
  /\ seen \in [Pullers -> [Ids -> Nat]]
  /\ history \subseteq Version
  /\ acked \subseteq Ids \X Nat

(* No device's watermark ever passes a row it has not applied: whatever is   *)
(* committed at a rev a device has moved beyond, the device holds exactly    *)
(* that version.  This is what serialising the batches buys; with revs       *)
(* allocated outside the lock, a later rev could become visible first, the   *)
(* pull would move past it, and the earlier write would never be delivered.  *)
NoSkippedRecord ==
  \A d \in Pullers, i \in Ids :
    Exists(records[i]) /\ records[i].rev <= watermark[d]
      => seen[d][i] = records[i].rev

(* An accepted write was made by a device that had seen every version of the *)
(* record accepted before it (the compare-and-swap of step 7, across every   *)
(* interleaving of batches, retries after lost answers and duplicate ids in  *)
(* one batch).  Deletes are unconditional and exempt as the later write.     *)
NoLostUpdate ==
  \A v, w \in history :
    (v.id = w.id /\ v.rev < w.rev /\ ~w.deleted) => w.baseRev >= v.rev

(* head is the rev of some stored row (or 0): a device that pulls until its  *)
(* watermark reaches head can get there, and stops there.                    *)
HeadIsARow ==
  head > 0 => /\ \E i \in Ids : records[i].rev = head
              /\ \A i \in Ids : records[i].rev <= head

(* No two stored rows share a rev, so a page boundary never splits a rev.    *)
RevsDistinct ==
  \A i, j \in Ids :
    Exists(records[i]) /\ records[i].rev = records[j].rev => i = j

(* What a device was told is stored is stored, at that rev or a later one:   *)
(* no answer runs ahead of the commit.                                      *)
AckedIsStored == \A a \in acked : records[a[1]].rev >= a[2]

(* The account's byte counter is the sum of the ciphertexts it stores, after *)
(* any sequence of batches, updates, deletes, repairs and aborts; and it     *)
(* never exceeds the quota.                                                 *)
BytesExact ==
  /\ totalBytes = Bytes(Ids)
  /\ totalBytes <= QuotaBytes

(* A tombstone stays a tombstone, at its rev, except that a provider may be  *)
(* written again.                                                           *)
TombstoneTerminal ==
  [][\A i \in Ids :
       records[i].deleted =>
         \/ records'[i] = records[i]
         \/ records[i].collection = "providers" /\ records'[i].collection = "providers"]_records

(* The store is a change feed: the log is the versions committed, by rev.     *)
LogEntry(v, row) ==
  [id |-> v.id, collection |-> row.collection, deleted |-> v.deleted, base |-> v.baseRev]

LogOf(versions, n, rows) ==
  [r \in 1 .. n |-> LET v == CHOOSE v \in versions : v.rev = r
                   IN  LogEntry(v, rows[v.id])]

Logged == LogOf(history, head, records)

Feed == INSTANCE ChangeFeed WITH
  Readers <- Pullers, log <- Logged, cursor <- watermark, known <- seen, told <- acked

(* Whatever the requests, transactions and pages do meanwhile, the devices    *)
(* see a log: a batch is appended whole at its commit, each change of it on    *)
(* top of the last change of its id, no rev is skipped or given twice, and    *)
(* nothing that is in the log ever changes; a page takes a device onward      *)
(* through it past nothing but replaced changes; an answer names changes      *)
(* that are in it.                                                          *)
IsAFeed == Feed!Spec

(* Every rev reached by the account is eventually passed by every device,    *)
(* whatever the sizes of the rows and however many answers are lost.         *)
EveryDeviceCatchesUp ==
  \A d \in Pullers : \A n \in 1 .. MaxHead : head >= n ~> watermark[d] >= n

-----------------------------------------------------------------------------
(* The inductive invariant behind the safety properties, in parts.           *)

(* The account lock is held exactly by the request whose transaction is open, *)
(* and a request without one has written nothing.                           *)
LockInv ==
  \A p \in Pushers :
    /\ pc[p] = "open" <=> lock = p
    /\ pc[p] # "open" => writes[p] = NoWrites /\ accepted[p] = {}
    /\ pc[p] = "idle" => oks[p] = {}

(* Committed revs lie at or below head, those of the open transaction above   *)
(* it; no rev is given twice; the last rev given has a row.                  *)
RevInv ==
  /\ \A i \in Ids : records[i].rev <= head
  /\ RevsDistinct
  /\ head > 0 => \E i \in Ids : records[i].rev = head
  /\ \A p \in Pushers : pc[p] = "open" =>
       /\ head <= txHead[p]
       /\ \A i \in Ids : Exists(writes[p][i]) =>
            head < writes[p][i].rev /\ writes[p][i].rev <= txHead[p]
       /\ \A i, j \in Ids :
            Exists(writes[p][i]) /\ writes[p][i].rev = writes[p][j].rev => i = j
       /\ txHead[p] > head => \E i \in Ids : writes[p][i].rev = txHead[p]

(* A page in flight lies between its watermark and head, and every row at or  *)
(* below one of its rows is behind the watermark or on the page as it is.    *)
PageInv ==
  \A d \in Pullers :
    /\ watermark[d] <= head
    /\ \A j \in OnPage(d) :
         /\ watermark[d] < page[d][j].rev
         /\ page[d][j].rev <= head
         /\ page[d][j].rev <= records[j].rev
         /\ \A i \in Ids :
              (Exists(records[i]) /\ records[i].rev <= page[d][j].rev) =>
                \/ records[i].rev <= watermark[d]
                \/ i \in OnPage(d) /\ page[d][i].rev = records[i].rev

(* Versions never run ahead of the row they are versions of, and each was     *)
(* written on top of all earlier ones.                                      *)
HistoryInv ==
  /\ \A v \in history : 0 < v.rev /\ v.rev <= records[v.id].rev
  /\ NoLostUpdate
  /\ \A p \in Pushers : \A w \in accepted[p] :
       /\ head < w.rev /\ w.rev <= writes[p][w.id].rev
       /\ \A v \in history \cup accepted[p] :
            (v.id = w.id /\ v.rev < w.rev /\ ~w.deleted) => w.baseRev >= v.rev

(* What a request will report is what its transaction or the database holds.  *)
OksInv ==
  /\ \A p \in Pushers : \A o \in oks[p] : o[2] <= Current(p, o[1]).rev
  /\ AckedIsStored

(* The open transaction has written over a tombstone only to repair a         *)
(* provider.                                                                *)
TombstoneInv ==
  \A p \in Pushers, i \in Ids :
    (Exists(writes[p][i]) /\ records[i].deleted) =>
      records[i].collection = "providers" /\ writes[p][i].collection = "providers"

(* The open transaction's count is that of the rows it sees, and in bounds.   *)
View(p) == [i \in Ids |-> Current(p, i)]

BytesInv ==
  /\ BytesExact
  /\ \A p \in Pushers : pc[p] = "open" =>
       /\ txBytes[p] = SumFunctionOnSet(Sizes(View(p)), Ids)
       /\ txBytes[p] <= QuotaBytes

IndInv ==
  /\ LockInv /\ RevInv /\ PageInv /\ NoSkippedRecord /\ HistoryInv /\ OksInv
  /\ TombstoneInv /\ BytesInv

-----------------------------------------------------------------------------
(* What else holds of the versions, for the log to be one.                   *)

(* The revs above low up to high, each the rev of exactly one version.        *)
Dense(versions, low, high) ==
  /\ \A v \in versions : low < v.rev /\ v.rev <= high
  /\ \A r \in (low + 1) .. high : \E v \in versions : v.rev = r
  /\ \A v, w \in versions : v.rev = w.rev => v = w

Recorded(versions, i, row) ==
  \E v \in versions : v.id = i /\ v.rev = row.rev /\ v.deleted = row.deleted

(* Revs are given out one after the other, and every row is a version.        *)
VersionInv ==
  /\ Dense(history, 0, head)
  /\ \A i \in Ids :
       Exists(records[i]) \/ records[i].deleted => Recorded(history, i, records[i])
  /\ \A p \in Pushers :
       /\ pc[p] = "open" => Dense(accepted[p], head, txHead[p])
       /\ \A i \in Ids : Exists(writes[p][i]) => Recorded(accepted[p], i, writes[p][i])

(* A stored row stays in its collection.                                     *)
CollectionInv ==
  /\ \A i \in Ids : Exists(records[i]) => records[i].collection \in Collections
  /\ \A p \in Pushers, i \in Ids : Exists(writes[p][i]) =>
       /\ writes[p][i].collection \in Collections
       /\ Exists(records[i]) => writes[p][i].collection = records[i].collection

(* A version the open transaction accepted was made on the last version of    *)
(* its id below it.                                                         *)
OnTop(w, v, collection) ==
  IF w.deleted THEN ~v.deleted
  ELSE w.baseRev = v.rev /\ (v.deleted => collection = "providers")

ChainInv ==
  \A p \in Pushers : \A w \in accepted[p] : \A v \in history \cup accepted[p] :
    /\ v.id = w.id /\ v.rev < w.rev
    /\ \A u \in history \cup accepted[p] : u.id = w.id /\ u.rev < w.rev => u.rev <= v.rev
    => OnTop(w, v, writes[p][w.id].collection)

(* What is on its way to a device, as a page or an answer, is a version.      *)
AnswersInv ==
  /\ \A d \in Pullers : \A j \in OnPage(d) :
       \E v \in history : v.id = j /\ v.rev = page[d][j].rev
  /\ \A d \in Pullers, i \in Ids : seen[d][i] <= watermark[d]
  /\ \A p \in Pushers : \A o \in oks[p] :
       \E v \in history \cup accepted[p] : v.id = o[1] /\ v.rev = o[2]

FeedInv == VersionInv /\ CollectionInv /\ ChainInv /\ AnswersInv

=============================================================================
