---------------------------- MODULE EpochRecovery ----------------------------
(***************************************************************************)
(* A sync server restored from a backup, and how the devices of an account  *)
(* bring it back up to date.                                               *)
(*                                                                         *)
(* The restore takes the records back to the backup and may lose blob       *)
(* objects.  Until it is re-epoched and restarted the service announces the *)
(* old epoch over the restored records.  A device that sees an epoch other   *)
(* than its own forgets its bases, pulls everything, pushes everything,      *)
(* uploads the bytes the server lost, pushes the records that name them and *)
(* writes the new epoch down last: whatever stops it on the way, the epoch   *)
(* still differs and all of it is done again.                              *)
(*                                                                         *)
(* The engine's own steps are SyncEngine's, coarser: the server decides a    *)
(* push in one step and the device takes in the answers in another, a page   *)
(* is fetched and applied in one.  Writes of the user (and of other tabs,    *)
(* which do not know of the recovery) fall between any two steps.  A blob    *)
(* never changes: its id is the key of the row that names it.               *)
(***************************************************************************)
EXTENDS Integers, FiniteSets, FiniteSetsExt, Functions

CONSTANTS Devices,
          Keys,
          BlobKeys,      \* the keys of the collections whose rows name a blob
          StartKeys,     \* what the account holds at first: the backup
          MaxContent,    \* bound: how many contents there are to write
          PageLimit,     \* PULL_PAGE_LIMIT
          MaxRestores,   \* bound: restores of the server
          MaxMishaps,    \* bound: deletions, failures, refusals, locks
          MaxOthers,     \* bound: pushes of devices not modelled one by one
          MaxRecoveries  \* MAX_RECOVERIES_PER_HOUR

Contents == 1 .. MaxContent
Nothing  == 0            \* no row; the content of a tombstone

ASSUME RecoveryAssumption ==
  /\ IsFiniteSet(Keys) /\ BlobKeys \subseteq Keys /\ StartKeys \subseteq Keys
  /\ MaxContent \in Nat \ {0} /\ PageLimit \in Nat \ {0}
  /\ MaxRestores \in Nat /\ MaxMishaps \in Nat /\ MaxOthers \in Nat
  /\ MaxRecoveries \in Nat

VARIABLES server,   \* the sync service: its records, its bucket, its epoch
          db,       \* each device's IndexedDB
          run,      \* each device's cycle or recovery, under the sync lock
          session,  \* each device's memory: the master key, the flap counter
          skipped,  \* history: devices whose last re-upload did not look at the bucket
          torn,     \* history: devices whose pull from zero a restore came into
          minted,   \* the contents written so far
          bound     \* mishaps, restores and pushes of others so far

vars == <<server, db, run, session, skipped, torn, minted, bound>>
history == <<skipped, torn>>

Server ==
  [rev     : [Keys -> Nat],                       \* 0 for no record
   content : [Keys -> Contents \cup {Nothing}],
   head    : Nat,
   objects : SUBSET BlobKeys,
   epoch   : Nat,                                 \* what the service announces
   stale   : BOOLEAN]                             \* restored, not yet re-epoched

Entry == [seq : Nat, key : Keys, op : {"upsert", "delete"}]

Database ==
  [row       : [Keys -> Contents \cup {Nothing}],
   bytes     : SUBSET BlobKeys,                   \* rows with their bytes here
   oversize  : SUBSET BlobKeys,                   \* the sentinel of a 413
   puts      : SUBSET BlobKeys,                   \* queued blob-puts
   meta      : [Keys -> Nat],                     \* syncRows, 0 for none
   outbox    : SUBSET Entry,
   dead      : SUBSET Keys,
   watermark : Nat,
   epoch     : Nat,
   asked     : BOOLEAN]                           \* blob_reupload_threshold

(* A pushed record with its answer.                                          *)
Answered ==
  [op : {"upsert", "delete"}, seqs : SUBSET Nat, rev : Nat,
   status : {"ok", "conflict", "tombstoned"}]

Phases == {"idle", "ack", "pull",
           "clear", "pull all", "push", "ack push", "blobs", "upload",
           "push blobs", "ack blobs", "persist", "confirmed"}

Run(pushed) ==
  [pc : Phases, answers : [pushed -> Answered],
   head : Nat, told : Nat,                        \* head and epoch of the push
   pulled : Nat,                                  \* epoch of the last page
   missing : SUBSET BlobKeys, landed : BOOLEAN, forced : BOOLEAN]

Idle == [pc |-> "idle", answers |-> [k \in {} |-> Nothing], head |-> 0,
         told |-> 0, pulled |-> 0, missing |-> {}, landed |-> TRUE,
         forced |-> FALSE]

Session == [unlocked : BOOLEAN, recoveries : Nat, paused : BOOLEAN]

Fresh == [unlocked |-> TRUE, recoveries |-> 0, paused |-> FALSE]

(* The backup: every start row in its first version, under a rev of its own.  *)
Backup ==
  CHOOSE s \in [Keys -> 0 .. Cardinality(StartKeys)] :
    /\ \A k \in Keys : s[k] = 0 <=> k \notin StartKeys
    /\ \A j, k \in StartKeys : s[j] = s[k] => j = k

StartRow == [k \in Keys |-> IF k \in StartKeys THEN 1 ELSE Nothing]

Init ==
  /\ server = [rev |-> Backup, content |-> StartRow,
               head |-> Cardinality(StartKeys),
               objects |-> BlobKeys \cap StartKeys, epoch |-> 1, stale |-> FALSE]
  /\ db \in [Devices ->
       {[row |-> StartRow, bytes |-> held, oversize |-> {}, puts |-> {},
         meta |-> Backup, outbox |-> {}, dead |-> {},
         watermark |-> Cardinality(StartKeys), epoch |-> 1, asked |-> FALSE] :
            held \in SUBSET (BlobKeys \cap StartKeys)}]
  /\ run = [d \in Devices |-> Idle]
  /\ session = [d \in Devices |-> Fresh]
  /\ skipped = {} /\ torn = {}
  /\ minted = {1}
  /\ bound = [mishaps |-> 0, restores |-> 0, others |-> 0]

Mishap == bound.mishaps < MaxMishaps /\ bound' = [bound EXCEPT !.mishaps = @ + 1]

Pending(s, k) == {e \in s.outbox : e.key = k}
PendingDelete(s, k) == \E e \in Pending(s, k) : e.op = "delete"

(* Seqs count per key, from the last one queued or on the wire.               *)
FreshSeq(s, r, k) ==
  1 + Max({0} \cup {e.seq : e \in Pending(s, k)} \cup
          (IF k \in DOMAIN r.answers THEN r.answers[k].seqs ELSE {}))

Queued(s, r, keys, op) ==
  s.outbox \cup {[seq |-> FreshSeq(s, r, k), key |-> k, op |-> op] : k \in keys}

-----------------------------------------------------------------------------
(* The operator.                                                            *)

(* The backup is put back: the records, and of the objects those the bucket's *)
(* own backup still has.                                                    *)
Restore ==
  /\ bound.restores < MaxRestores /\ ~server.stale
  /\ bound' = [bound EXCEPT !.restores = @ + 1]
  /\ \E kept \in SUBSET server.objects :
       server' = [server EXCEPT !.rev = Backup, !.content = StartRow,
                                !.head = Cardinality(StartKeys),
                                !.objects = kept, !.stale = TRUE]
  /\ torn' = torn \cup {d \in Devices : run[d].pc = "pull all" /\ db[d].watermark > 0}
  /\ UNCHANGED <<db, run, session, skipped, minted>>

(* re-epoch, and the restart that makes the service announce it.             *)
ReEpoch ==
  /\ server.stale
  /\ server' = [server EXCEPT !.epoch = @ + 1, !.stale = FALSE]
  /\ UNCHANGED <<db, run, session, history, minted, bound>>

(* Another device of the account pushes whatever it holds, with its bytes.     *)
OtherPushes(k) ==
  /\ bound.others < MaxOthers
  /\ bound' = [bound EXCEPT !.others = @ + 1]
  /\ ~(server.rev[k] > 0 /\ server.content[k] = Nothing)
  /\ \E c \in (Contents \cup {Nothing}) \ {server.content[k]} :
       /\ server' = [server EXCEPT !.rev[k] = server.head + 1, !.head = @ + 1,
                                  !.content[k] = c,
                                  !.objects = IF c = Nothing THEN @
                                              ELSE @ \cup ({k} \cap BlobKeys)]
       /\ minted' = minted \cup ({c} \ {Nothing})
  /\ UNCHANGED <<db, run, session, history>>

-----------------------------------------------------------------------------
(* The user.                                                                *)

Write(d, k, c, s) ==
  /\ c \notin minted
  /\ minted' = minted \cup {c}
  /\ db' = [db EXCEPT ![d] = [s EXCEPT !.row[k] = c,
                                       !.outbox = Queued(s, run[d], {k}, "upsert")]]
  /\ UNCHANGED <<server, run, session, history, bound>>

Edit(d, k) ==
  /\ db[d].row[k] # Nothing
  /\ \E c \in Contents : Write(d, k, c, db[d])

(* A new row of a blob collection is queued behind its bytes.                *)
Create(d, k) ==
  /\ db[d].row[k] = Nothing /\ db[d].meta[k] = 0 /\ server.rev[k] = 0
  /\ k \notin db[d].dead /\ Pending(db[d], k) = {}
  /\ bound.others = 0          \* ids are random: no one else has made k
  /\ \A e \in Devices : db[e].row[k] = Nothing /\ k \notin db[e].dead
  /\ \E c \in Contents :
       Write(d, k, c, [db[d] EXCEPT !.bytes = @ \cup ({k} \cap BlobKeys),
                                    !.puts = @ \cup ({k} \cap BlobKeys)])

Delete(d, k) ==
  /\ Mishap
  /\ db[d].row[k] # Nothing
  /\ db' = [db EXCEPT ![d].row[k] = Nothing, ![d].bytes = @ \ {k},
                      ![d].puts = @ \ {k},
                      ![d].outbox = Queued(db[d], run[d], {k}, "delete")]
  /\ UNCHANGED <<server, run, session, history, minted>>

-----------------------------------------------------------------------------
(* The drain, of a cycle or of a recovery.                                   *)

LastOp(entries) ==
  (CHOOSE e \in entries : \A f \in entries : f.seq <= e.seq).op

Upserts(s, k) ==
  Pending(s, k) # {} /\ LastOp(Pending(s, k)) = "upsert" /\ s.row[k] # Nothing

Deletes(s, k) == ~Upserts(s, k) /\ PendingDelete(s, k) /\ s.meta[k] > 0

(* A record whose bytes have not landed is held back.                        *)
Sendable(s) == {k \in Keys \ s.puts : Upserts(s, k) \/ Deletes(s, k)}

(* Entries that come to nothing are dropped; those held back stay.            *)
KeptEntries(s) == {e \in s.outbox : e.key \in Sendable(s) \cup s.puts}

(* What the server makes of the record of key k.                             *)
Status(s, k) ==
  LET gone == server.rev[k] > 0 /\ server.content[k] = Nothing
  IN IF Deletes(s, k) THEN "ok"
     ELSE IF gone THEN "tombstoned"
     ELSE IF server.rev[k] \notin {0, s.meta[k]} THEN "conflict" ELSE "ok"

(* The records that change the server, and the revs they get, in any order.   *)
Changing(s) ==
  {k \in Sendable(s) :
     /\ Status(s, k) = "ok"
     /\ ~(Deletes(s, k) /\ server.rev[k] > 0 /\ server.content[k] = Nothing)}

Orders(keys) ==
  {o \in [keys -> 1 .. Cardinality(keys)] : \A j, k \in keys : o[j] = o[k] => j = k}

(* The database s of d is drained; pc waits for the answers.                  *)
Push(d, s, pc) ==
  LET sent == Sendable(s) IN
  \E o \in Orders(Changing(s)) :
       LET rev(k) == IF k \in Changing(s) THEN server.head + o[k] ELSE server.rev[k]
           head == server.head + Cardinality(Changing(s))
       IN /\ server' = [server EXCEPT
               !.rev = [k \in Keys |-> rev(k)],
               !.content = [k \in Keys |->
                  IF k \notin Changing(s) THEN @[k]
                  ELSE IF Upserts(s, k) THEN s.row[k] ELSE Nothing],
               !.head = head]
          /\ run' = [run EXCEPT
               ![d].pc = pc, ![d].head = head, ![d].told = server.epoch,
               ![d].answers = [k \in sent |->
                  [op |-> IF Upserts(s, k) THEN "upsert" ELSE "delete",
                   seqs |-> {e.seq : e \in Pending(s, k)}, rev |-> rev(k),
                   status |-> Status(s, k)]]]
          /\ db' = [db EXCEPT ![d] = [s EXCEPT !.outbox = KeptEntries(s)]]
          /\ UNCHANGED <<session, history, minted, bound>>

(* The database once the answers in a are taken in: ok, conflict (a pull will  *)
(* resolve it), tombstoned.                                                 *)
Acknowledged(s, a) ==
  LET ended == {k \in DOMAIN a : a[k].status = "tombstoned" \/
                                 (a[k].status = "ok" /\ a[k].op = "delete")}
      kept == {k \in DOMAIN a : a[k].status = "ok" /\ a[k].op = "upsert"}
  IN [s EXCEPT
        !.meta = [k \in Keys |-> IF k \in ended THEN 0
                                 ELSE IF k \in kept /\ a[k].rev > @[k] THEN a[k].rev
                                 ELSE @[k]],
        !.row = [k \in Keys |-> IF k \in ended THEN Nothing ELSE @[k]],
        !.bytes = @ \ ended, !.puts = @ \ ended,
        !.dead = @ \cup ended,
        !.outbox = {e \in @ : ~(e.key \in ended \cup kept /\ e.seq \in a[e.key].seqs)}]

PutBlob(d, k) ==
  /\ run[d].pc \in {"idle", "push", "push blobs"} /\ session[d].unlocked
  /\ ~session[d].paused
  /\ k \in db[d].puts
  /\ server' = [server EXCEPT !.objects = @ \cup {k}]
  /\ db' = [db EXCEPT ![d].puts = @ \ {k}]
  /\ UNCHANGED <<run, session, history, minted, bound>>

-----------------------------------------------------------------------------
(* The pull, of a cycle or of a recovery: one page.                          *)

(* The changes past the watermark, lowest revs first, cut by the limit.       *)
Page(s) ==
  LET news == {k \in Keys : server.rev[k] > s.watermark}
  IN {k \in news :
        Cardinality({j \in news : server.rev[j] <= server.rev[k]}) <= PageLimit}

More(s) == \E k \in Keys \ Page(s) : server.rev[k] > s.watermark

Ahead(s) == s.watermark > server.head

(* applyRecord of every record of a page.  A tombstone buries the key; a      *)
(* dead key stays dead; a queued deletion hides the row and takes its rev as  *)
(* base; else the greater content stays, and the local one is pushed again if *)
(* it is the greater.                                                        *)
TakenIn(s, r) ==
  LET page == Page(s)
      new == {k \in page : server.rev[k] > s.meta[k]}
      dying == {k \in new : server.content[k] = Nothing /\
                            (s.meta[k] > 0 \/ s.row[k] # Nothing)}
      live == {k \in new : server.content[k] # Nothing}
      absent == {k \in live : s.row[k] = Nothing /\ k \notin s.dead}
      inserted == {k \in absent : ~PendingDelete(s, k)}
      taken == {k \in live : s.row[k] # Nothing /\ server.content[k] > s.row[k]}
      again == {k \in live : s.row[k] # Nothing /\ server.content[k] < s.row[k]}
      based == absent \cup {k \in live : s.row[k] # Nothing}
  IN [s EXCEPT
        !.row = [k \in Keys |-> IF k \in dying THEN Nothing
                                ELSE IF k \in inserted \cup taken
                                THEN server.content[k] ELSE @[k]],
        !.meta = [k \in Keys |-> IF k \in dying THEN 0
                                 ELSE IF k \in based THEN server.rev[k] ELSE @[k]],
        !.bytes = @ \ dying, !.puts = @ \ dying, !.dead = @ \cup dying,
        !.outbox = {e \in Queued(s, r, again, "upsert") : e.key \notin dying},
        !.watermark = Max({@} \cup {server.rev[k] : k \in page})]

-----------------------------------------------------------------------------
(* A cycle.                                                                 *)

CanRunCycle(d) == session[d].unlocked /\ ~session[d].paused

(* runRecovery: too many in the hour pause the engine.                        *)
StartRecovery(d) ==
  LET n == session[d].recoveries + 1 IN
  /\ session' = [session EXCEPT ![d].recoveries = n,
                               ![d].paused = n > MaxRecoveries]
  /\ run' = [run EXCEPT ![d] =
       IF n > MaxRecoveries THEN Idle ELSE [Idle EXCEPT !.pc = "clear"]]

Unmoved == UNCHANGED <<minted, bound>>

StartDrain(d) ==
  /\ run[d].pc = "idle" /\ CanRunCycle(d) /\ db[d].outbox # {}
  /\ Push(d, db[d], "ack")

(* Nothing pushed is no answer, and no epoch.                                *)
NeedPull(d) ==
  LET a == run[d].answers IN
  \/ DOMAIN a = {}
  \/ \E k \in DOMAIN a : a[k].status = "conflict"
  \/ run[d].head > Max({db[d].watermark} \cup
                       {a[k].rev : k \in {j \in DOMAIN a : a[j].status = "ok"}})

EndDrain(d) ==
  /\ run[d].pc = "ack"
  /\ db' = [db EXCEPT ![d] = Acknowledged(@, run[d].answers)]
  /\ IF DOMAIN run[d].answers # {} /\ run[d].told # db[d].epoch
     THEN StartRecovery(d)
     ELSE /\ run' = [run EXCEPT ![d] =
               IF NeedPull(d) THEN [Idle EXCEPT !.pc = "pull"] ELSE Idle]
          /\ UNCHANGED session
  /\ UNCHANGED <<server, history>> /\ Unmoved

(* A page of a cycle's pull: a watermark ahead of the account's head and an   *)
(* epoch other than one's own both mean recovery.                            *)
Pull(d) ==
  /\ \/ run[d].pc = "pull"
     \/ run[d].pc = "idle" /\ CanRunCycle(d) /\ db[d].outbox = {}
  /\ IF ~session[d].unlocked
     THEN run' = [run EXCEPT ![d] = Idle] /\ UNCHANGED <<db, session>>
     ELSE IF Ahead(db[d]) \/ server.epoch # db[d].epoch
     THEN StartRecovery(d) /\ UNCHANGED db
     ELSE /\ db' = [db EXCEPT ![d] = TakenIn(@, run[d])]
          /\ run' = [run EXCEPT ![d] =
               IF More(db[d]) THEN [Idle EXCEPT !.pc = "pull"] ELSE Idle]
          /\ UNCHANGED session
  /\ UNCHANGED <<server, history>> /\ Unmoved

-----------------------------------------------------------------------------
(* The recovery: performRecovery.                                            *)

(* The device works under the epoch the records are really in.               *)
InEpoch(d) == ~server.stale /\ db[d].epoch = server.epoch

(* Fault: the bases go, the watermark stays.                                  *)
BasesForgotten(s) == [s EXCEPT !.meta = [k \in Keys |-> 0]]

Forgotten(s) == [s EXCEPT !.meta = [k \in Keys |-> 0], !.watermark = 0]

Clear(d) ==
  /\ run[d].pc = "clear"
  /\ run' = [run EXCEPT ![d].pc = "pull all"]
  /\ db' = [db EXCEPT ![d] = Forgotten(@)]
  /\ skipped' = skipped \ {d}
  /\ torn' = IF InEpoch(d) THEN torn ELSE torn \ {d}
  /\ UNCHANGED <<server, session>> /\ Unmoved

(* pullAllFromZero: a page that cannot be opened or fetched ends the recovery.*)
PullAll(d) ==
  /\ run[d].pc = "pull all"
  /\ IF Ahead(db[d]) \/ (~session[d].unlocked /\ Page(db[d]) # {})
     THEN run' = [run EXCEPT ![d] = Idle] /\ UNCHANGED db
     ELSE /\ db' = [db EXCEPT ![d] = TakenIn(@, run[d])]
          /\ run' = [run EXCEPT ![d].pulled = server.epoch,
               ![d].pc = IF More(db[d]) THEN "pull all" ELSE "push"]
  /\ UNCHANGED <<server, session, history>> /\ Unmoved

Rows(s, keys) == {k \in keys : s.row[k] # Nothing}

(* Fault: only what was queued anyway is pushed.                              *)
QueuedOnly(d, keys) == db[d]

(* enqueueFullRepush of the collections without blobs, or of those with.      *)
Requeued(d, keys) ==
  [db[d] EXCEPT !.outbox = Queued(db[d], run[d], Rows(db[d], keys), "upsert")]

(* ... and drainOutbox, which does nothing without the master key.            *)
RecoveryDrain(d, pc, keys, ack) ==
  /\ run[d].pc = pc
  /\ IF session[d].unlocked
     THEN Push(d, Requeued(d, keys), ack)
     ELSE /\ run' = [run EXCEPT ![d].pc = ack]
          /\ db' = [db EXCEPT ![d] = Requeued(d, keys)]
          /\ UNCHANGED <<server, session, history>> /\ Unmoved

RecoveryAck(d, ack, next) ==
  /\ run[d].pc = ack
  /\ db' = [db EXCEPT ![d] = Acknowledged(@, run[d].answers)]
  /\ run' = [run EXCEPT ![d].pc = next, ![d].answers = Idle.answers,
                     ![d].head = 0, ![d].told = 0]
  /\ UNCHANGED <<server, session, history>> /\ Unmoved

(* Rows whose bytes are here, and not given up as too large.                  *)
Candidates(s) == {k \in s.bytes \ s.oversize : s.row[k] # Nothing}

Missing(d) == Candidates(db[d]) \ server.objects

AfterBlobs(d) == IF run[d].forced THEN "confirmed" ELSE "push blobs"

(* Nothing is uploaded, and the uploads count as landed.                     *)
PassOver(d) ==
  run' = [run EXCEPT ![d].pc = AfterBlobs(d), ![d].landed = TRUE]

(* recoverBlobs: what the bucket lacks of this device's blobs is due.         *)
Inventory(d) ==
  /\ run[d].pc = "blobs" /\ (session[d].unlocked \/ Candidates(db[d]) = {})
  /\ run' = [run EXCEPT ![d].pc = "upload", ![d].missing = Missing(d)]
  /\ skipped' = skipped \ {d}
  /\ UNCHANGED <<server, db, session, torn>> /\ Unmoved

(* Without the master key, or when the bucket cannot be listed.               *)
NoInventory(d) ==
  /\ run[d].pc = "blobs" /\ Candidates(db[d]) # {}
  /\ IF session[d].unlocked THEN Mishap ELSE UNCHANGED bound
  /\ PassOver(d)
  /\ skipped' = skipped \cup {d}
  /\ UNCHANGED <<server, db, session, torn, minted>>

(* Above the threshold the user is asked first.                              *)
Ask(d) ==
  /\ run[d].pc = "blobs" /\ session[d].unlocked /\ ~run[d].forced
  /\ Mishap
  /\ Missing(d) # {}
  /\ PassOver(d)
  /\ db' = [db EXCEPT ![d].asked = TRUE]
  /\ UNCHANGED <<server, session, history, minted>>

Uploaded(d, k, landed) ==
  /\ run[d].pc = "upload" /\ k \in run[d].missing
  /\ run' = [run EXCEPT ![d].missing = @ \ {k}, ![d].landed = @ /\ landed]
  /\ UNCHANGED <<session, history, minted>>

Upload(d, k) ==
  /\ Uploaded(d, k, TRUE)
  /\ server' = [server EXCEPT !.objects = @ \cup {k}]
  /\ UNCHANGED <<db, bound>>

(* Over quota, or no store: not landed, to be tried again.                   *)
UploadRefused(d, k) ==
  /\ Mishap
  /\ Uploaded(d, k, FALSE)
  /\ UNCHANGED <<server, db>>

(* Too large: never to be tried again.                                       *)
UploadTooLarge(d, k) ==
  /\ Mishap
  /\ Uploaded(d, k, TRUE)
  /\ db' = [db EXCEPT ![d].oversize = @ \cup {k}]
  /\ UNCHANGED server

EndUploads(d) ==
  /\ run[d].pc = "upload" /\ run[d].missing = {}
  /\ run' = [run EXCEPT ![d].pc = AfterBlobs(d)]
  /\ UNCHANGED <<server, db, session, history>> /\ Unmoved

(* Fault: the epoch is written down whatever became of the uploads.           *)
AdoptedAnyway(d) == run[d].pulled

Adopted(d) == IF run[d].landed THEN run[d].pulled ELSE db[d].epoch

(* The new epoch is written down last, and only if the uploads landed.        *)
Persist(d) ==
  /\ run[d].pc = "persist"
  /\ db' = [db EXCEPT ![d].epoch = Adopted(d)]
  /\ run' = [run EXCEPT ![d] = Idle]
  /\ UNCHANGED <<server, session, history>> /\ Unmoved

(* The answer to the question of Ask: under the sync lock, whatever the size. *)
Confirm(d) ==
  /\ run[d].pc = "idle" /\ db[d].asked
  /\ run' = [run EXCEPT ![d].pc = "blobs", ![d].forced = TRUE]
  /\ UNCHANGED <<server, db, session, history>> /\ Unmoved

(* ... which is put away once all landed.                                    *)
Confirmed(d) ==
  /\ run[d].pc = "confirmed"
  /\ db' = [db EXCEPT ![d].asked = @ /\ ~run[d].landed]
  /\ run' = [run EXCEPT ![d] = Idle]
  /\ UNCHANGED <<server, session, history>> /\ Unmoved

(* retryRecovery: the way out of the pause.                                  *)
Retry(d) ==
  /\ session[d].paused /\ run[d].pc = "idle"
  /\ session' = [session EXCEPT ![d].paused = FALSE, ![d].recoveries = 1]
  /\ run' = [run EXCEPT ![d] = [Idle EXCEPT !.pc = "clear"]]
  /\ UNCHANGED <<server, db, history>> /\ Unmoved

-----------------------------------------------------------------------------
(* What befalls a device.                                                   *)

(* A request fails and the cycle or recovery throws.                         *)
Fail(d) ==
  /\ Mishap
  /\ run[d].pc # "idle"
  /\ run' = [run EXCEPT ![d] = Idle]
  /\ UNCHANGED <<server, db, session, history, minted>>

(* The page is reloaded: its memory, and with it the flap counter, is gone.   *)
Reload(d) ==
  /\ Mishap
  /\ session[d] # Fresh \/ run[d].pc # "idle"
  /\ run' = [run EXCEPT ![d] = Idle]
  /\ session' = [session EXCEPT ![d] = Fresh]
  /\ UNCHANGED <<server, db, history, minted>>

Lock(d) ==
  /\ Mishap
  /\ session[d].unlocked /\ run[d].answers = Idle.answers
  /\ session' = [session EXCEPT ![d].unlocked = FALSE]
  /\ UNCHANGED <<server, db, run, history, minted>>

Unlock(d) ==
  /\ ~session[d].unlocked
  /\ session' = [session EXCEPT ![d].unlocked = TRUE]
  /\ UNCHANGED <<server, db, run, history>> /\ Unmoved

HourPasses(d) ==
  /\ session[d].recoveries > 0 /\ ~session[d].paused /\ run[d].pc = "idle"
  /\ session' = [session EXCEPT ![d].recoveries = 0]
  /\ UNCHANGED <<server, db, run, history>> /\ Unmoved

-----------------------------------------------------------------------------
Cycle(d) == StartDrain(d) \/ EndDrain(d) \/ Pull(d)

Recovery(d) ==
  \/ Clear(d) \/ PullAll(d)
  \/ RecoveryDrain(d, "push", Keys \ BlobKeys, "ack push") \/ RecoveryAck(d, "ack push", "blobs")
  \/ EndUploads(d)
  \/ RecoveryDrain(d, "push blobs", BlobKeys, "ack blobs")
  \/ RecoveryAck(d, "ack blobs", "persist")
  \/ Persist(d) \/ Confirmed(d)

Blobs(d) ==
  \/ Inventory(d) \/ NoInventory(d) \/ Ask(d)
  \/ \E k \in BlobKeys :
       PutBlob(d, k) \/ Upload(d, k) \/ UploadRefused(d, k) \/ UploadTooLarge(d, k)

User(d) ==
  \/ \E k \in Keys : Edit(d, k) \/ Create(d, k) \/ Delete(d, k)
  \/ Confirm(d) \/ Retry(d)

Befalls(d) == Fail(d) \/ Reload(d) \/ Lock(d) \/ Unlock(d) \/ HourPasses(d)

Next ==
  \/ Restore \/ ReEpoch \/ \E k \in Keys : OtherPushes(k)
  \/ \E d \in Devices :
       Cycle(d) \/ Recovery(d) \/ Blobs(d) \/ User(d) \/ Befalls(d)

Spec == Init /\ [][Next]_vars

(* Cycles come round, what is started goes on, requests are answered, the     *)
(* hour passes, the user unlocks the device, and the operator ends the        *)
(* restore as the runbook says.                                             *)
Fairness ==
  /\ WF_vars(ReEpoch)
  /\ \A d \in Devices :
       /\ WF_vars(Cycle(d)) /\ WF_vars(Recovery(d)) /\ WF_vars(Inventory(d))
       /\ WF_vars(Unlock(d)) /\ SF_vars(HourPasses(d))
       /\ \A k \in BlobKeys : SF_vars(PutBlob(d, k)) /\ WF_vars(Upload(d, k))

FairSpec == Spec /\ Fairness

-----------------------------------------------------------------------------
(* Properties.                                                              *)

(* Type correctness.                                                        *)
TypeOK ==
  /\ server \in Server
  /\ db \in [Devices -> Database]
  /\ DOMAIN run = Devices
  /\ \A d \in Devices :
       LET pushed == DOMAIN run[d].answers
       IN pushed \subseteq Keys /\ run[d] \in Run(pushed)
  /\ session \in [Devices -> Session]
  /\ skipped \subseteq Devices /\ torn \subseteq Devices
  /\ minted \subseteq Contents
  /\ bound \in [mishaps : 0 .. MaxMishaps, restores : 0 .. MaxRestores,
                others : 0 .. MaxOthers]

(* What d has seen of key k, with nothing of its own to say on it.            *)
Seen(d, k) ==
  /\ Pending(db[d], k) = {} /\ k \notin DOMAIN run[d].answers
  /\ server.rev[k] <= Max({db[d].watermark, db[d].meta[k]})

Agrees(d) ==
  \A k \in Keys :
    InEpoch(d) /\ run[d].pc = "idle" /\ Seen(d, k) /\ k \notin db[d].dead
      => db[d].row[k] = server.content[k]

(* A device that is through the recovery and has caught up holds what the     *)
(* server holds: nothing it had is lost to the backup, nothing others pushed  *)
(* in the new epoch is hidden from it.  (A key it knows as dead stays dead    *)
(* for it, even if the backup brought the record back.)                      *)
Reunited == \A d \in Devices \ torn : Agrees(d)

(* Not kept (README): the same of a device whose pull from zero a restore came  *)
(* into.                                                                    *)
ReunitedThoughTorn == \A d \in Devices : Agrees(d)

(* The bytes of k that d holds and the account still wants.                  *)
Wanted(d, k) ==
  /\ k \in Candidates(db[d]) \ db[d].puts
  /\ server.content[k] # Nothing

(* Not kept (README): the new epoch is not adopted while bytes the device holds *)
(* are missing from the bucket, unless the user has yet to allow their upload.  *)
BytesClimbBack ==
  \A d \in Devices, k \in BlobKeys :
    InEpoch(d) /\ run[d].pc = "idle" /\ Wanted(d, k) /\ ~db[d].asked
      => k \in server.objects

(* The same, or the inventory was passed over: once the device is through, the  *)
(* bytes it holds are in the bucket again.                                      *)
BytesClimbBackIfListed ==
  \A d \in Devices \ torn, k \in BlobKeys :
    InEpoch(d) /\ run[d].pc = "idle" /\ Wanted(d, k) /\ ~db[d].asked
      => k \in server.objects \/ d \in skipped

(* A queued deletion is not forgotten while the server holds the record alive   *)
(* ("last-op-wins must not eat the deletion", sync/worker.ts:469).              *)
DeletionNotEaten ==
  [][\A d \in Devices, k \in Keys :
       PendingDelete(db[d], k) /\ ~PendingDelete(db'[d], k)
         => server'.content[k] = Nothing]_vars

(* Not kept (README): a page of an honest server never shows a record alive    *)
(* that the device has seen tombstoned.                                         *)
NoFalseTamper ==
  [][\A d \in Devices, k \in Keys :
       /\ db'[d].watermark > db[d].watermark
       /\ k \in db[d].dead /\ k \in Page(db[d])
       => server.content[k] = Nothing]_vars

(* Once restores and mishaps are over every device is paused or through, and   *)
(* of one mind with the server.                                             *)
Through(d) ==
  /\ InEpoch(d) /\ run[d].pc = "idle" /\ db[d].outbox = {}
  /\ \A k \in Keys \ db[d].dead : db[d].row[k] = server.content[k]

EventuallyReunited == <>[](\A d \in Devices : session[d].paused \/ Through(d))

-----------------------------------------------------------------------------
(* The inductive invariant behind Reunited and BytesClimbBackIfListed, in parts. *)

(* Revs are given in order, and what has none is not there.                   *)
ServerInv ==
  \A k \in Keys : /\ server.rev[k] <= server.head
                  /\ server.rev[k] = 0 => server.content[k] = Nothing

(* The steps of a recovery, without those of an upload the user has asked for.  *)
Recovering(d) ==
  /\ run[d].pc \in Phases \ {"idle", "ack", "pull", "confirmed"}
  /\ ~run[d].forced

(* What a run holds at which step.                                           *)
RunInv(d) ==
  /\ run[d].pc \notin {"ack", "ack push", "ack blobs"} => DOMAIN run[d].answers = {}
  /\ run[d].forced => db[d].asked /\ run[d].pc \in {"blobs", "upload", "confirmed"}
  /\ run[d].pc = "confirmed" => run[d].forced
  /\ run[d].pc # "upload" => run[d].missing = {}
  /\ run[d].pc \in Phases \ {"upload", "push blobs", "ack blobs", "persist", "confirmed"}
       => run[d].landed
  /\ run[d].pc = "pull all" /\ db[d].watermark = 0 => \A k \in Keys : db[d].meta[k] = 0
  /\ session[d].paused => run[d].pc = "idle" \/ run[d].forced

(* No epoch is written down before it is announced, and a device that recovers  *)
(* or is paused is not in it.                                                *)
EpochInv(d) ==
  /\ db[d].epoch <= server.epoch /\ run[d].pulled <= server.epoch
  /\ run[d].pc = "ack" /\ InEpoch(d) => run[d].told = db[d].epoch
  /\ (Recovering(d) \/ session[d].paused) /\ InEpoch(d) => d \in torn

(* A row that is gone has a deletion queued, or nothing, unless its key is dead; *)
(* a row that is there has no deletion queued.                                *)
Tidy(s, k) ==
  /\ s.row[k] # Nothing => ~PendingDelete(s, k)
  /\ s.row[k] = Nothing =>
       /\ k \notin s.bytes
       /\ k \notin s.dead /\ Pending(s, k) # {} => PendingDelete(s, k)

(* What was pushed stays queued until its answer is taken in.                 *)
Awaited(s, a, k) ==
  k \in DOMAIN a =>
    /\ a[k].seqs # {} /\ IsFiniteSet(a[k].seqs)
    /\ \A n \in a[k].seqs : \E e \in Pending(s, k) : e.seq = n
    /\ a[k].op = "upsert" => \A e \in Pending(s, k) : e.seq \in a[k].seqs => e.op = "upsert"

QueueInv(d) ==
  /\ IsFiniteSet(db[d].outbox)
  /\ \A k \in Keys : Tidy(db[d], k) /\ Awaited(db[d], run[d].answers, k)

(* What the device has of the account is of the log the server has now.        *)
Aligned(d) ==
  /\ d \notin torn
  /\ Recovering(d) =>
       \/ run[d].pc = "pull all"
       \/ run[d].pc # "clear" /\ ~server.stale /\ run[d].pulled = server.epoch
  /\ Recovering(d) \/ InEpoch(d)

(* Rows a recovery has still to push.                                        *)
ToPush(d, k) ==
  /\ Recovering(d)
  /\ \/ run[d].pc \in {"pull all", "push"}
     \/ k \in BlobKeys /\ run[d].pc \in {"ack push", "blobs", "upload", "push blobs"}

(* Whatever is behind the watermark has been taken in, ...                    *)
Knows(s, k) ==
  /\ s.meta[k] <= server.rev[k]
  /\ s.meta[k] = server.rev[k] /\ s.meta[k] > 0 => server.content[k] # Nothing
  /\ k \notin s.dead /\ server.content[k] # Nothing /\ server.rev[k] <= s.watermark
       => s.meta[k] = server.rev[k]

(* ... and what has been taken in is the row, but for a change that is queued.  *)
Holds(s, k) ==
  /\ Pending(s, k) = {} /\ k \notin s.dead
  /\ server.rev[k] <= s.watermark \/ server.rev[k] <= s.meta[k]
  => s.row[k] = server.content[k]

(* An accepted record is past all that was taken in, and is the row, unless one  *)
(* of the two has changed since.                                             *)
Accepted(s, a, k) ==
  k \in DOMAIN a /\ a[k].status = "ok" /\ a[k].op = "upsert" =>
    /\ a[k].rev <= server.rev[k] /\ a[k].rev > s.watermark /\ a[k].rev > s.meta[k]
    /\ server.rev[k] = a[k].rev =>
         /\ server.content[k] # Nothing
         /\ (\A e \in Pending(s, k) : e.seq \in a[k].seqs) => s.row[k] = server.content[k]

KnowInv(d) ==
  Aligned(d) =>
    /\ db[d].watermark <= server.head
    /\ \A k \in Keys : /\ Knows(db[d], k)
                       /\ Holds(db[d], k) \/ (server.rev[k] = 0 /\ ToPush(d, k))
                       /\ Accepted(db[d], run[d].answers, k)

(* Bytes a device has are in the bucket, or it is about to bring them there; in *)
(* a recovery once it has looked at the bucket.                               *)
Stored(d) == Candidates(db[d]) \ db[d].puts \subseteq server.objects \cup run[d].missing

BytesInv(d) ==
  d \notin torn \cup skipped =>
    /\ InEpoch(d) /\ ~db[d].asked => Candidates(db[d]) \ db[d].puts \subseteq server.objects
    /\ /\ run[d].landed /\ run[d].pc \in {"upload", "push blobs", "ack blobs", "persist", "confirmed"}
       /\ IF run[d].forced THEN InEpoch(d)
          ELSE ~db[d].asked /\ ~server.stale /\ run[d].pulled = server.epoch
       => Stored(d)

IndInv ==
  /\ TypeOK /\ ServerInv
  /\ \A d \in Devices : /\ RunInv(d) /\ EpochInv(d) /\ QueueInv(d)
                        /\ KnowInv(d) /\ BytesInv(d)

=============================================================================
