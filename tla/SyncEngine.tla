----------------------------- MODULE SyncEngine -----------------------------
(***************************************************************************)
(* The sync engines of the devices of one account, and the account they     *)
(* share.  Each device writes locally, queues what it wrote in an outbox,    *)
(* drains the outbox to the server (push, compare-and-swap on the rev it     *)
(* last took in) and pulls what others changed past its watermark,           *)
(* resolving collisions by last write wins.                                 *)
(*                                                                         *)
(* The server is its log: entry r is the change it committed with rev r      *)
(* (SyncStore: revs are dense, commits are in rev order), and it decides     *)
(* each pushed record by RecordRules.  A device is its database, which       *)
(* survives a crash, and what its engine is doing under the sync lock,       *)
(* which does not.  User writes do not take that lock: they may fall         *)
(* between any two steps of a drain or a pull.                              *)
(*                                                                         *)
(* One ordinary collection is modelled: last write wins, deletions to the    *)
(* trash.  A content stands for a whole row, ordered as resolution.ts        *)
(* orders rows (updatedAt, then canonical bytes).  A write takes any unused  *)
(* content: the clocks of two devices need not agree.                       *)
(***************************************************************************)
EXTENDS Integers, Sequences, FiniteSets, FiniteSetsExt, Functions

CONSTANTS Devices,
          Keys,
          NoKey,
          MaxContent,     \* bound: how many contents there are to write
          StartLogs,      \* what the account may hold, and every device has, at first
          PageLimit,      \* PULL_PAGE_LIMIT
          TombstoneCap,   \* TOMBSTONE_CYCLE_CAP
          MaxMishaps,     \* bound: deletes, undos and interruptions
          Undos,          \* may a deletion the server refused be undone?
          Deferral        \* may a background job write while the server is away?

Contents == 1 .. MaxContent
Nothing  == 0             \* no row; the content of a tombstone

Change == [key : Keys, content : Contents \cup {Nothing}]

ASSUME EngineAssumption ==
  /\ IsFiniteSet(Keys) /\ NoKey \notin Keys
  /\ MaxContent \in Nat /\ MaxMishaps \in Nat
  /\ PageLimit \in Nat \ {0} /\ TombstoneCap \in Nat \ {0}
  /\ StartLogs \subseteq Seq([key : Keys, content : Contents])
  /\ \A l \in StartLogs : \A i, j \in DOMAIN l : i # j => l[i].key # l[j].key
  /\ Undos \in BOOLEAN /\ Deferral \in BOOLEAN

VARIABLES log,      \* the server's changes; a rev is an index
          db,       \* each device's IndexedDB
          run,      \* each device's drain or pull, under the sync lock
          handles,  \* the deletions a device can still undo: its open toasts
          late,     \* pushed records whose answer no one awaits any more
          minted,   \* the contents written so far
          mishaps,  \* deletes, undos and interruptions so far
          held      \* the rev of a key a device's own row was last squared with

vars == <<log, db, run, handles, late, minted, mishaps, held>>

Entry == [seq : Nat, key : Keys, op : {"upsert", "delete"}]

Database ==
  [row        : [Keys -> Contents \cup {Nothing}],
   meta       : [Keys -> Nat],                    \* syncRows: rev, 0 for none
   base       : [Keys -> Contents \cup {Nothing}],\* syncRows.localContentHash
   outbox     : SUBSET Entry,
   watermark  : Nat,
   trash      : [Keys -> Contents \cup {Nothing}],
   dead       : SUBSET Keys,                      \* deadKeys
   suppressed : [Keys -> Nat]]                    \* suppressedRevs, 0 for none

(* A record sealed for a push, then with its answer.                         *)
Prepared ==
  [op : {"upsert", "delete"}, seqs : SUBSET Nat, base : Nat,
   content : Contents \cup {Nothing}, rev : Nat,
   answer : {"none", "ok", "conflict", "tombstoned", "read", "error"}]

(* What an engine is doing, with the records of the keys in pushed sealed.    *)
Run(pushed) ==
  [pc : {"idle", "push", "pull", "apply", "stamp"},
   prep : [pushed -> Prepared],
   head : Nat, pushed : Nat, need : BOOLEAN,      \* what a drain has learnt
   page : SUBSET Nat, more : BOOLEAN,             \* revs still to apply
   top : Nat, low : Nat, tombs : Nat, stamp : Keys \cup {NoKey}]

Idle == [pc |-> "idle", prep |-> [k \in {} |-> Nothing],
         head |-> 0, pushed |-> 0, need |-> FALSE,
         page |-> {}, more |-> FALSE,
         top |-> 0, low |-> 0, tombs |-> 0, stamp |-> NoKey]

Request == [key : Keys, op : {"upsert", "delete"}, base : Nat,
            content : Contents \cup {Nothing}]

Highest(S) == Max(S \cup {0})

(* The rev and content of a key on the server: its last change.              *)
Latest(k) == Highest({r \in DOMAIN log : log[r].key = k})
ServerContent(k) == IF Latest(k) = 0 THEN Nothing ELSE log[Latest(k)].content

Pending(d, k) == {e \in db[d].outbox : e.key = k}
PendingDelete(d, k) == \E e \in Pending(d, k) : e.op = "delete"

(* An autoincremented key.  Only the order of a key's own entries matters, so *)
(* it counts per key, from the last live reference to an entry.              *)
FreshSeq(d, k) ==
  1 + Highest({e.seq : e \in Pending(d, k)} \cup
              UNION {run[d].prep[q].seqs : q \in {k} \cap DOMAIN run[d].prep})

Queued(d, k, op) ==
  db[d].outbox \cup {[seq |-> FreshSeq(d, k), key |-> k, op |-> op]}

Without(outbox, k, seqs) == {e \in outbox : e.key # k \/ e.seq \notin seqs}

(* A device in step with an account that holds the log l.                     *)
InStep(l) ==
  LET rev(k) == Highest({r \in DOMAIN l : l[r].key = k})
      row == [k \in Keys |-> IF rev(k) = 0 THEN Nothing ELSE l[rev(k)].content]
  IN [row |-> row, meta |-> [k \in Keys |-> rev(k)], base |-> row,
      outbox |-> {}, watermark |-> Len(l),
      trash |-> [k \in Keys |-> Nothing], dead |-> {},
      suppressed |-> [k \in Keys |-> 0]]

Init ==
  /\ log \in StartLogs
  /\ db = [d \in Devices |-> InStep(log)]
  /\ run = [d \in Devices |-> Idle]
  /\ handles = [d \in Devices |-> {}]
  /\ late = {}
  /\ minted = {log[r].content : r \in DOMAIN log}
  /\ mishaps = 0
  /\ held = [d \in Devices |-> InStep(log).meta]

-----------------------------------------------------------------------------
(* The user, and background jobs.                                           *)

Writing(d, k, c, outbox) ==
  /\ c \notin minted
  /\ minted' = minted \cup {c}
  /\ db' = [db EXCEPT ![d].row[k] = c, ![d].outbox = outbox]
  /\ UNCHANGED <<log, run, handles, late, mishaps, held>>

(* mutateSynced: the row and its outbox entry in one transaction.            *)
Edit(d, k) ==
  /\ db[d].row[k] # Nothing
  /\ \E c \in Contents : Writing(d, k, c, Queued(d, k, "upsert"))

(* ... and its entry even if the row is gone by then: a background job that had *)
(* read it writes to nothing.                                               *)
EditGone(d, k) ==
  /\ db[d].row[k] = Nothing /\ db[d].trash[k] # Nothing
  /\ \E c \in Contents \ minted : minted' = minted \cup {c}
  /\ db' = [db EXCEPT ![d].outbox = Queued(d, k, "upsert")]
  /\ UNCHANGED <<log, run, handles, late, mishaps, held>>

Create(d, k) ==
  /\ db[d].row[k] = Nothing /\ db[d].meta[k] = 0 /\ db[d].trash[k] = Nothing
  /\ k \notin db[d].dead /\ Pending(d, k) = {}
  /\ \E c \in Contents : Writing(d, k, c, Queued(d, k, "upsert"))

(* mutateSynced with deferWhenOffline: the row alone.                        *)
EditDeferred(d, k) ==
  /\ Deferral
  /\ db[d].row[k] # Nothing
  /\ \E c \in Contents : Writing(d, k, c, db[d].outbox)

Mishap == mishaps < MaxMishaps /\ mishaps' = mishaps + 1

(* Fault: the key is dead as soon as its deletion is queued.                 *)
DeadAtDelete(d, k) == db[d].dead \cup {k}

DeadWhileQueued(d, k) == db[d].dead

(* softDelete: the row to the trash, the tombstone to the outbox.            *)
Delete(d, k) ==
  /\ Mishap
  /\ db[d].row[k] # Nothing
  /\ db' = [db EXCEPT ![d].row[k] = Nothing, ![d].trash[k] = db[d].row[k],
                      ![d].outbox = Queued(d, k, "delete"),
                      ![d].dead = DeadWhileQueued(d, k)]
  /\ handles' = [handles EXCEPT ![d] = @ \ {k}]
  /\ UNCHANGED <<log, run, late, minted, held>>

Rewound(d, k) ==
  IF db[d].suppressed[k] = 0 THEN db[d].watermark
  ELSE Min({db[d].watermark, db[d].suppressed[k] - 1})

(* restore() of a deletion's handle, refused once the key is dead: the row   *)
(* comes back, whatever was queued for the key is dropped, and the watermark *)
(* goes back below a foreign edit the deletion hid.                          *)
Undo(d, k) ==
  /\ Undos /\ Mishap
  /\ k \in handles[d] /\ k \notin db[d].dead
  /\ db' = [db EXCEPT
       ![d].row[k] = db[d].trash[k], ![d].trash[k] = Nothing,
       ![d].outbox = @ \ Pending(d, k),
       ![d].suppressed[k] = 0, ![d].watermark = Rewound(d, k)]
  /\ handles' = [handles EXCEPT ![d] = @ \ {k}]
  /\ UNCHANGED <<log, run, late, minted, held>>

-----------------------------------------------------------------------------
(* The server, one pushed record at a time.                                 *)

Rules == INSTANCE RecordRules WITH
  Ids <- Keys, Collections <- {"chats"}, Vals <- Contents, NoVal <- Nothing,
  Size <- [c \in Contents |-> 1], MaxRecordBytes <- 1, QuotaBytes <- 1

StoredRow(k) ==
  IF Latest(k) = 0 THEN Rules!Absent
  ELSE [rev |-> Latest(k), deleted |-> ServerContent(k) = Nothing,
        collection |-> "chats", val |-> ServerContent(k)]

(* The verdict on a record; room is what is left of the deletion allowance.  *)
Verdict(k, p, room) ==
  Rules!Verdict(StoredRow(k),
    [id |-> k, collection |-> "chats", baseRev |-> p.base,
     deleted |-> p.op = "delete", val |-> p.content, intact |-> TRUE],
    0, room)

Commits(verdict) == verdict \in {"write", "delete"}

Serve(k, p, verdict) ==
  log' = IF Commits(verdict) THEN Append(log, [key |-> k, content |-> p.content])
         ELSE log

Status(verdict) ==
  IF Commits(verdict) \/ verdict = "already_deleted" THEN "ok"
  ELSE IF verdict \in {"conflict", "tombstoned"} THEN verdict
  ELSE "error"

OnTheWire(d, k) == k \in DOMAIN run[d].prep /\ run[d].prep[k].answer = "none"

(* A record of the awaited push is decided.                                  *)
Commit(d, k, room) ==
  LET p == run[d].prep[k]
      verdict == Verdict(k, p, room)
      rev == IF Commits(verdict) THEN Len(log) + 1 ELSE Latest(k)
  IN /\ run[d].pc = "push" /\ OnTheWire(d, k)
     /\ Serve(k, p, verdict)
     /\ run' = [run EXCEPT
          ![d].prep[k] = [p EXCEPT !.answer = Status(verdict), !.rev = rev],
          ![d].head = Len(log'),
          ![d].pushed = IF Status(verdict) = "ok" THEN Max({@, rev}) ELSE @]
     /\ UNCHANGED <<db, handles, late, minted, mishaps, held>>

(* A record whose sender gave up is decided, or never arrives.               *)
CommitLate ==
  \E p \in late :
    /\ late' = late \ {p}
    /\ \/ Serve(p.key, p, Verdict(p.key, p, 1))
       \/ UNCHANGED log
    /\ UNCHANGED <<db, run, handles, minted, mishaps, held>>

-----------------------------------------------------------------------------
(* The drain.                                                               *)

(* coalesce: the last operation on a key wins, but a queued delete is        *)
(* remembered.                                                              *)
LastOp(entries) ==
  (CHOOSE e \in entries : \A f \in entries : f.seq <= e.seq).op

(* What a key's entries come to: an upsert of the row as it is now, a         *)
(* tombstone if the row is gone and its deletion was queued, or nothing.     *)
Upserts(d, k) ==
  /\ Pending(d, k) # {} /\ LastOp(Pending(d, k)) = "upsert"
  /\ db[d].row[k] # Nothing

Deletes(d, k) == ~Upserts(d, k) /\ PendingDelete(d, k) /\ db[d].meta[k] > 0

Sendable(d) == {k \in Keys : Upserts(d, k) \/ Deletes(d, k)}

Sealed(d, k) ==
  [op |-> IF Upserts(d, k) THEN "upsert" ELSE "delete",
   seqs |-> {e.seq : e \in Pending(d, k)}, base |-> db[d].meta[k],
   content |-> IF Upserts(d, k) THEN db[d].row[k] ELSE Nothing,
   rev |-> 0, answer |-> "none"]

StartDrain(d) ==
  /\ run[d].pc = "idle" /\ db[d].outbox # {}
  /\ run' = [run EXCEPT ![d] =
       [Idle EXCEPT !.pc = "push", !.prep = [k \in Sendable(d) |-> Sealed(d, k)]]]
  /\ db' = [db EXCEPT ![d].outbox = {e \in @ : e.key \in Sendable(d)}]
  /\ UNCHANGED <<log, handles, late, minted, mishaps, held>>

(* The answer to key k is looked at.                                         *)
Answered(d, k, answer) ==
  /\ run[d].pc = "push" /\ k \in DOMAIN run[d].prep
  /\ run[d].prep[k].answer = answer
  /\ UNCHANGED <<log, handles, late, minted, mishaps>>

Others(d, k) == Restrict(run[d].prep, DOMAIN run[d].prep \ {k})

Taken(d, k) == run' = [run EXCEPT ![d].prep = Others(d, k)]

(* Fault: an acknowledgement clears all that is queued for the key.          *)
AllOf(d, k) == {e.seq : e \in Pending(d, k)}

Covered(d, k) == run[d].prep[k].seqs

(* applyOk of an upsert; a rev at or below the one known is dropped.          *)
AckUpsert(d, k) ==
  LET p == run[d].prep[k]
      newer == p.rev > db[d].meta[k]
  IN /\ Answered(d, k, "ok") /\ p.op = "upsert"
     /\ db' = [db EXCEPT
          ![d].meta[k] = IF newer THEN p.rev ELSE @,
          ![d].base[k] = IF newer THEN p.content ELSE @,
          ![d].outbox = Without(@, k, Covered(d, k))]
     /\ held' = [held EXCEPT ![d][k] = p.rev]
     /\ Taken(d, k)

(* What the death of a key leaves of it, the outbox and trash aside.         *)
Buried(store, k) ==
  [store EXCEPT !.meta[k] = 0, !.base[k] = Nothing, !.dead = @ \cup {k}]

(* applyOk of a delete.                                                      *)
AckDelete(d, k) ==
  /\ Answered(d, k, "ok") /\ run[d].prep[k].op = "delete"
  /\ db' = [db EXCEPT ![d] = [Buried(db[d], k) EXCEPT
       !.outbox = Without(db[d].outbox, k, Covered(d, k)), !.suppressed[k] = 0]]
  /\ held' = [held EXCEPT ![d][k] = 0]
  /\ Taken(d, k)

(* Fault: the server's rev is taken as the base for the retry.                *)
AdoptConflict(d, k) ==
  /\ Answered(d, k, "conflict")
  /\ db' = [db EXCEPT ![d].meta[k] = run[d].prep[k].rev]
  /\ Taken(d, k)
  /\ UNCHANGED held

(* applyConflict, of a row that can be opened: a pull will resolve it.        *)
AckConflict(d, k) ==
  /\ Answered(d, k, "conflict")
  /\ run' = [run EXCEPT ![d].need = TRUE, ![d].prep = Others(d, k)]
  /\ UNCHANGED <<db, held>>

(* applyTombstoned reads the local row ...                                   *)
ReadTombstoned(d, k) ==
  /\ Answered(d, k, "tombstoned")
  /\ run' = [run EXCEPT ![d].prep[k] =
       [run[d].prep[k] EXCEPT !.answer = "read", !.content = db[d].row[k]]]
  /\ UNCHANGED <<db, held>>

(* ... and in a later transaction puts what it read in the trash.             *)
AckTombstoned(d, k) ==
  LET local == run[d].prep[k].content IN
  /\ Answered(d, k, "read")
  /\ db' = [db EXCEPT ![d] = [Buried(db[d], k) EXCEPT
       !.row[k] = IF local # Nothing THEN Nothing ELSE @,
       !.trash[k] = IF local # Nothing THEN local ELSE @,
       !.outbox = Without(db[d].outbox, k, Covered(d, k)), !.suppressed[k] = 0]]
  /\ held' = [held EXCEPT ![d][k] = 0]
  /\ Taken(d, k)

(* applyError: the entries stay.                                             *)
AckError(d, k) == Answered(d, k, "error") /\ Taken(d, k) /\ UNCHANGED <<db, held>>

(* Fault: a drain that pushed nothing owes no pull.                           *)
PullDueIfPushed(d) ==
  run[d].need \/ run[d].head > Max({db[d].watermark, run[d].pushed})

(* A cycle pulls when a conflict asked for it, when nothing was pushed, or    *)
(* when the server's head is past both the watermark and our own revs.       *)
PullDue(d) ==
  \/ run[d].need
  \/ run[d].head = 0
  \/ run[d].head > Max({db[d].watermark, run[d].pushed})

(* The deletions whose softDelete returns: their rows are in the trash.  (A   *)
(* handle is no use once the bound leaves no undo.)                          *)
Undoable(d) ==
  {k \in Keys \ db[d].dead :
     /\ Undos /\ mishaps < MaxMishaps
     /\ db[d].row[k] = Nothing /\ db[d].trash[k] # Nothing}

(* The drain ends.  A cycle goes on to pull.  An immediate drain is awaited   *)
(* by the mutation that asked for it: a deletion returns its handle, which   *)
(* is worth something if the server refused the tombstone for now.           *)
EndDrain(d, cycle) ==
  /\ run[d].pc = "push" /\ DOMAIN run[d].prep = {}
  /\ run' = [run EXCEPT ![d] =
       IF cycle /\ PullDue(d) THEN [Idle EXCEPT !.pc = "pull"] ELSE Idle]
  /\ handles' = IF cycle THEN handles ELSE [handles EXCEPT ![d] = Undoable(d)]
  /\ UNCHANGED <<log, db, late, minted, mishaps, held>>

(* A cycle that finds the outbox empty.                                      *)
StartPull(d) ==
  /\ run[d].pc = "idle" /\ db[d].outbox = {}
  /\ PullDue(d)
  /\ run' = [run EXCEPT ![d].pc = "pull"]
  /\ UNCHANGED <<log, db, handles, late, minted, mishaps, held>>

-----------------------------------------------------------------------------
(* The pull.                                                                *)

(* One page: the current rows past the watermark, lowest revs first, cut by   *)
(* the limit or by the server's byte budget.                                 *)
Fetch(d) ==
  LET news == {r \in DOMAIN log : r > db[d].watermark /\ r = Latest(log[r].key)}
      First(n) == {r \in news : Cardinality({s \in news : s <= r}) <= n}
  IN /\ run[d].pc = "pull"
     /\ \E page \in {First(n) : n \in 1 .. PageLimit} :
          run' = [run EXCEPT ![d].pc = "apply", ![d].page = page,
                             ![d].more = (page # news),
                             ![d].top = db[d].watermark, ![d].low = 0]
     /\ UNCHANGED <<log, db, handles, late, minted, mishaps, held>>

InPage(d) == run[d].pc = "apply" /\ run[d].page # {}

(* The record with rev r, of key k and content c, is the next one.           *)
Applying(d, r, k, c) ==
  /\ InPage(d)
  /\ r = Min(run[d].page) /\ k = log[r].key /\ c = log[r].content
  /\ UNCHANGED <<log, handles, late, minted, mishaps>>

(* ... and is done with: the next one, once the baseline of k is stamped.     *)
Applied(d, r, k) ==
  run' = [run EXCEPT ![d].page = @ \ {r}, ![d].top = r,
                     ![d].tombs = IF log[r].content = Nothing THEN @ + 1 ELSE @,
                     ![d].pc = IF k = NoKey THEN "apply" ELSE "stamp",
                     ![d].stamp = k]

Over(d) == run[d].tombs >= TombstoneCap

(* Past the cap a tombstone is left for the next cycle.                      *)
DeferTombstone(d, r, k) ==
  /\ Applying(d, r, k, Nothing) /\ Over(d)
  /\ run' = [run EXCEPT ![d].page = @ \ {r}, ![d].more = FALSE,
                        ![d].low = IF @ = 0 THEN r ELSE Min({@, r})]
  /\ UNCHANGED <<db, held>>

(* findKeyByBlindId finds the key of a tombstone.                            *)
Known(d, k) == db[d].meta[k] > 0 \/ db[d].row[k] # Nothing

(* applyTombstone: the row to the trash, nothing left in the outbox.          *)
ApplyTombstone(d, r, k) ==
  /\ Applying(d, r, k, Nothing) /\ ~Over(d)
  /\ Known(d, k) /\ r > db[d].meta[k]
  /\ db' = [db EXCEPT ![d] = [Buried(db[d], k) EXCEPT
       !.row[k] = Nothing,
       !.trash[k] = IF db[d].row[k] # Nothing THEN db[d].row[k] ELSE @,
       !.outbox = db[d].outbox \ Pending(d, k)]]
  /\ held' = [held EXCEPT ![d][k] = 0]
  /\ Applied(d, r, NoKey)

(* Unknown tombstones and replays change nothing.                            *)
ApplyNothing(d, r, k, c) ==
  /\ Applying(d, r, k, c)
  /\ IF c = Nothing THEN ~Over(d) /\ (~Known(d, k) \/ r <= db[d].meta[k])
                    ELSE r <= db[d].meta[k]
  /\ Applied(d, r, NoKey)
  /\ UNCHANGED <<db, held>>

(* applyUpsert, past the echo and replay guards.                             *)
Upserting(d, r, k, c) ==
  Applying(d, r, k, c) /\ c # Nothing /\ r > db[d].meta[k]

Inserting(d, r, k, c) == Upserting(d, r, k, c) /\ db[d].row[k] = Nothing

(* The alarm: an upsert of a key this device knows to be dead.               *)
Tamper(d, r, k, c) ==
  /\ Inserting(d, r, k, c) /\ k \in db[d].dead
  /\ Applied(d, r, NoKey)
  /\ UNCHANGED <<db, held>>

(* A queued deletion hides a foreign edit, and takes its rev as base.         *)
Suppress(d, r, k, c) ==
  /\ Inserting(d, r, k, c) /\ k \notin db[d].dead /\ PendingDelete(d, k)
  /\ db' = [db EXCEPT ![d].meta[k] = r, ![d].base[k] = Nothing,
                      ![d].suppressed[k] = Max({@, r})]
  /\ Applied(d, r, NoKey)
  /\ UNCHANGED held

(* applyPulledRow; the baseline follows in a transaction of its own.          *)
TakeIn(d, r, k, c) ==
  /\ db' = [db EXCEPT ![d].row[k] = c, ![d].meta[k] = r, ![d].base[k] = Nothing]
  /\ held' = [held EXCEPT ![d][k] = r]
  /\ Applied(d, r, k)

Insert(d, r, k, c) ==
  /\ Inserting(d, r, k, c) /\ k \notin db[d].dead /\ ~PendingDelete(d, k)
  /\ TakeIn(d, r, k, c)

PulledWins(d, r, k, c) ==
  /\ Upserting(d, r, k, c) /\ db[d].row[k] # Nothing
  /\ c > db[d].row[k]
  /\ TakeIn(d, r, k, c)

(* Fault: the winning local row is not pushed again.                         *)
NoRepush(d, k, c) == db[d].outbox

(* A local row that is strictly newer is pushed again.                       *)
Repush(d, k, c) ==
  IF c < db[d].row[k] THEN Queued(d, k, "upsert") ELSE db[d].outbox

LocalWins(d, r, k, c) ==
  /\ Upserting(d, r, k, c) /\ db[d].row[k] # Nothing
  /\ c <= db[d].row[k]
  /\ db' = [db EXCEPT ![d].meta[k] = r, ![d].outbox = Repush(d, k, c)]
  /\ held' = [held EXCEPT ![d][k] = r]
  /\ Applied(d, r, NoKey)

(* stampReconciliationBaseline: reads the row again.                         *)
Stamp(d) ==
  LET k == run[d].stamp IN
  /\ run[d].pc = "stamp"
  /\ db' = [db EXCEPT ![d].base[k] = IF db[d].meta[k] > 0 THEN db[d].row[k] ELSE @]
  /\ run' = [run EXCEPT ![d].pc = "apply", ![d].stamp = NoKey]
  /\ UNCHANGED <<log, handles, late, minted, mishaps, held>>

(* Fault: the deferred tombstones are forgotten.                             *)
HighestApplied(d) == run[d].top

(* Fault: a page takes the watermark to the server's head.                    *)
ServerHead(d) == Len(log)

(* Short of the lowest tombstone left for later.                             *)
NextWatermark(d) == IF run[d].low # 0 THEN run[d].low - 1 ELSE run[d].top

(* advanceWatermark: monotone.                                               *)
Advance(d) == db' = [db EXCEPT ![d].watermark = Max({@, NextWatermark(d)})]

FinishPage(d) ==
  /\ run[d].pc = "apply" /\ run[d].page = {}
  /\ Advance(d)
  /\ run' = [run EXCEPT ![d] =
       IF run[d].more THEN [Idle EXCEPT !.pc = "pull", !.tombs = run[d].tombs]
       ELSE Idle]
  /\ UNCHANGED <<log, handles, late, minted, mishaps, held>>

(* The session is locked in the middle of a page: the records already        *)
(* applied count, the rest will come again.                                 *)
LockSession(d) ==
  /\ Mishap
  /\ InPage(d)
  /\ Advance(d)
  /\ run' = [run EXCEPT ![d] = Idle]
  /\ UNCHANGED <<log, handles, late, minted, held>>

(* The tab dies, or a push or pull throws: the database stays, requests on   *)
(* the wire may still be served.                                            *)
Interrupt(d) ==
  /\ Mishap
  /\ run[d].pc # "idle"
  /\ run' = [run EXCEPT ![d] = Idle]
  /\ late' = late \cup
       {[key |-> k, op |-> run[d].prep[k].op, base |-> run[d].prep[k].base,
         content |-> run[d].prep[k].content] :
           k \in {q \in Keys : OnTheWire(d, q)}}
  /\ UNCHANGED <<log, db, handles, minted, held>>

-----------------------------------------------------------------------------
(* The tail of a cycle, still under the lock.                                *)

InTail(d, k) ==
  /\ run[d].pc = "idle"
  /\ Pending(d, k) = {} /\ db[d].row[k] # Nothing
  /\ UNCHANGED <<log, run, handles, late, minted, mishaps, held>>

(* backfill: a row the account never heard of.  The code asks for a flag too, *)
(* set at a new link and by one look at all rows per start of the app: here   *)
(* it may be set at any time, and no fairness counts on it.                   *)
Backfill(d, k) ==
  /\ InTail(d, k) /\ db[d].meta[k] = 0
  /\ db' = [db EXCEPT ![d].outbox = Queued(d, k, "upsert")]

(* reconcile: a row that differs from its baseline is queued; one without a   *)
(* baseline only gets one.                                                  *)
Reconcile(d, k) ==
  /\ InTail(d, k) /\ db[d].meta[k] > 0 /\ db[d].base[k] # db[d].row[k]
  /\ db' = [db EXCEPT
       ![d].base[k] = db[d].row[k],
       ![d].outbox = IF db[d].base[k] = Nothing THEN @ ELSE Queued(d, k, "upsert")]

-----------------------------------------------------------------------------
Apply(d, r, k, c) ==
  \/ DeferTombstone(d, r, k) \/ ApplyTombstone(d, r, k)
  \/ ApplyNothing(d, r, k, c) \/ Tamper(d, r, k, c) \/ Suppress(d, r, k, c)
  \/ Insert(d, r, k, c) \/ PulledWins(d, r, k, c) \/ LocalWins(d, r, k, c)

ApplyNext(d) ==
  InPage(d) /\ \E r \in run[d].page : Apply(d, r, log[r].key, log[r].content)

Ack(d, k) ==
  \/ AckUpsert(d, k) \/ AckDelete(d, k) \/ AckConflict(d, k)
  \/ ReadTombstoned(d, k) \/ AckTombstoned(d, k) \/ AckError(d, k)

User(d, k) ==
  \/ Edit(d, k) \/ EditGone(d, k) \/ Create(d, k) \/ EditDeferred(d, k)
  \/ Delete(d, k) \/ Undo(d, k)

Next ==
  \/ \E d \in Devices, k \in Keys :
       \/ User(d, k) \/ (\E room \in 0 .. 1 : Commit(d, k, room)) \/ Ack(d, k)
       \/ Backfill(d, k) \/ Reconcile(d, k)
  \/ \E d \in Devices :
       \/ StartDrain(d) \/ (\E cycle \in BOOLEAN : EndDrain(d, cycle))
       \/ StartPull(d) \/ Fetch(d) \/ ApplyNext(d) \/ Stamp(d) \/ FinishPage(d)
       \/ LockSession(d) \/ Interrupt(d)
  \/ CommitLate

Spec == Init /\ [][Next]_vars

(* A cycle comes round again and again (a ten-minute timer is its floor), a   *)
(* started drain or pull goes on, requests are answered, the reconciliation   *)
(* falls due, and the deletion allowance is given back in time.              *)
Fairness ==
  /\ \A d \in Devices :
       /\ WF_vars(StartDrain(d)) /\ SF_vars(EndDrain(d, TRUE))
       /\ WF_vars(StartPull(d)) /\ WF_vars(Fetch(d)) /\ WF_vars(ApplyNext(d))
       /\ WF_vars(Stamp(d)) /\ WF_vars(FinishPage(d))
  /\ \A d \in Devices, k \in Keys :
       /\ SF_vars(Commit(d, k, 1)) /\ WF_vars(Ack(d, k)) /\ SF_vars(Reconcile(d, k))
  /\ WF_vars(CommitLate)

FairSpec == Spec /\ Fairness

-----------------------------------------------------------------------------
(* Properties.                                                               *)

(* Type correctness.                                                         *)
TypeOK ==
  /\ log \in Seq(Change)
  /\ db \in [Devices -> Database]
  /\ DOMAIN run = Devices
  /\ \A d \in Devices :
       LET pushed == DOMAIN run[d].prep
       IN pushed \subseteq Keys /\ run[d] \in Run(pushed)
  /\ handles \in [Devices -> SUBSET Keys]
  /\ late \subseteq Request
  /\ minted \subseteq Contents
  /\ mishaps \in 0 .. MaxMishaps
  /\ held \in [Devices -> [Keys -> Nat]]

(* What a device's watermark is past, it has, for the server will not send it *)
(* again: the current version of a key is the base the device works from, a  *)
(* deleted key has no base left.                                            *)
WatermarkCovers ==
  \A k \in Keys :
    LET r == Latest(k)
        base == IF r = 0 \/ log[r].content = Nothing THEN 0 ELSE r
    IN \A d \in Devices :
         r \in 1 .. db[d].watermark => db[d].meta[k] = base

(* No local change is forgotten: a row that is not what the account holds at *)
(* the row's base is queued, or reconcile will find it; a row deleted here    *)
(* but alive at its base has its deletion queued.                            *)
Tended(d, k) ==
  IF db[d].row[k] = Nothing THEN PendingDelete(d, k)
  ELSE \/ Pending(d, k) # {}
       \/ db[d].base[k] \notin {Nothing, db[d].row[k]}

ChangesAreTended ==
  \A d \in Devices, k \in Keys :
    LET base == db[d].meta[k] IN
    base > 0 /\ log[base].content # db[d].row[k] => Tended(d, k)

(* An upsert never replaces a version its device has not squared its own row  *)
(* with: written, taken in, or beaten by last write wins.                    *)
NoBlindOverwrite ==
  [][\A d \in Devices, k \in Keys :
       /\ OnTheWire(d, k) /\ run[d].prep[k].op = "upsert"
       /\ ~OnTheWire(d, k)' /\ Len(log') > Len(log)
       /\ ServerContent(k) # Nothing
       => held[d][k] = Latest(k)]_vars

(* The alarm "an upsert of a tombstoned key" is never raised by an honest     *)
(* server: neither deletions of one's own still queued nor pages fetched     *)
(* before an acknowledgement can set it off.                                *)
NoFalseTamper ==
  [][\A d \in Devices : \A r \in run[d].page :
       ~Tamper(d, r, log[r].key, log[r].content)]_vars

(* Not kept (README): when the engine takes a row away, the row as it then    *)
(* was is in the trash.                                                      *)
TrashedAsItWas ==
  [][\A d \in Devices, k \in Keys :
       db[d].row[k] # Nothing /\ db'[d].row[k] = Nothing
         => db'[d].trash[k] = db[d].row[k]]_vars

(* Nothing is queued, on the wire or due anywhere.                           *)
AtRest ==
  /\ late = {}
  /\ \A d \in Devices :
       /\ db[d].outbox = {} /\ db[d].watermark = Len(log)
       /\ \A k \in Keys : db[d].row[k] # Nothing =>
            db[d].meta[k] > 0 /\ db[d].base[k] = db[d].row[k]

Agree == \A d \in Devices, k \in Keys : db[d].row[k] = ServerContent(k)

(* Devices at rest agree with the account, whatever order they wrote, pushed, *)
(* pulled, deleted and crashed in.                                          *)
Converged == AtRest => Agree

(* Not kept (README): a foreign edit hidden by a deletion that was then undone *)
(* is squared with the restored row by a later pull.                         *)
SquaredAtRest ==
  AtRest => \A d \in Devices, k \in Keys :
    db[d].row[k] # Nothing => held[d][k] = db[d].meta[k]

(* Once users stop, every device comes to rest, in agreement.                *)
EventuallyConverged == <>[](AtRest /\ Agree)

-----------------------------------------------------------------------------
(* The inductive invariant.  LastOf is Latest, said of the log's entries.       *)

LastOf(k, r) ==
  /\ r \in DOMAIN log /\ log[r].key = k
  /\ \A s \in DOMAIN log : log[s].key = k => s <= r

Tombstoned(k) == \E r \in DOMAIN log : log[r].key = k /\ log[r].content = Nothing

(* The base of k on d is what change r of k makes it.                           *)
Has(d, k, r) == db[d].meta[k] = IF log[r].content = Nothing THEN 0 ELSE r

(* No change of a key follows its tombstone.                                    *)
LogInv == \A r \in DOMAIN log : log[r].content = Nothing => LastOf(log[r].key, r)

(* A base is a live version of its key; a key known to be dead has a tombstone.  *)
BaseInv(d) ==
  /\ \A k \in Keys : LET r == db[d].meta[k] IN
       r # 0 => r \in DOMAIN log /\ log[r].key = k /\ log[r].content # Nothing
  /\ \A k \in db[d].dead : Tombstoned(k)

CoverInv(d) ==
  /\ db[d].watermark <= Len(log)
  /\ \A k \in Keys, r \in DOMAIN log :
       LastOf(k, r) /\ r <= db[d].watermark => Has(d, k, r)

(* A pushed record p of key k and its answer: a version just committed is past    *)
(* everything taken in, a refusal for a tombstone or an accepted one is sound.    *)
AnswerOK(d, k, p) ==
  /\ p.answer = "none" => (p.op = "upsert" <=> p.content # Nothing)
  /\ p.answer = "ok" /\ p.op = "upsert" =>
       /\ p.rev \in DOMAIN log /\ p.content # Nothing
       /\ log[p.rev] = [key |-> k, content |-> p.content]
       /\ p.rev > db[d].watermark /\ p.rev > db[d].meta[k]
  /\ (p.answer = "ok" /\ p.op = "delete") \/ p.answer \in {"tombstoned", "read"}
       => Tombstoned(k)

PushInv(d) ==
  /\ run[d].pc # "push" => DOMAIN run[d].prep = {}
  /\ \A k \in DOMAIN run[d].prep : AnswerOK(d, k, run[d].prep[k])

(* A page being applied: what is left of it is ahead, a later change of one of    *)
(* its keys is past all of it, and it holds no live version of a dead key;       *)
(* whatever is behind was taken in, or put off.                                 *)
PageInv(d) ==
  run[d].pc \in {"apply", "stamp"} =>
    LET u == run[d] IN
    /\ u.page \subseteq DOMAIN log /\ u.top <= Len(log) /\ u.low <= Len(log)
    /\ \A r \in u.page : r > db[d].watermark /\ r > u.top /\ r > u.low
    /\ \A r, t \in u.page, s \in DOMAIN log :
         log[s].key = log[r].key /\ s > r => s > t
    /\ \A r \in u.page : log[r].content # Nothing => log[r].key \notin db[d].dead
    /\ \A k \in Keys, r \in DOMAIN log :
         /\ LastOf(k, r) /\ r > db[d].watermark
         /\ r <= u.top \/ r <= u.low \/ \E s \in u.page : r <= s
         => r \in u.page \/ (u.low # 0 /\ r >= u.low) \/ Has(d, k, r)

(* Without undo a device's own row is squared with its base, and so is an upsert  *)
(* on the wire.                                                               *)
HeldInv(d) ==
  /\ \A k \in Keys :
       db[d].row[k] # Nothing /\ db[d].meta[k] # 0 => held[d][k] = db[d].meta[k]
  /\ \A k \in DOMAIN run[d].prep :
       LET p == run[d].prep[k] IN
       p.answer = "none" /\ p.op = "upsert" =>
         p.base = db[d].meta[k] /\ (p.base # 0 => held[d][k] = p.base)

(* A queued deletion has taken the row away, and no push of the row covers it.    *)
QueueInv(d) ==
  /\ IsFiniteSet(db[d].outbox)
  /\ \A k \in Keys : PendingDelete(d, k) => db[d].row[k] = Nothing
  /\ \A k \in DOMAIN run[d].prep :
       /\ IsFiniteSet(run[d].prep[k].seqs)
       /\ run[d].prep[k].op = "upsert" =>
            \A e \in Pending(d, k) : e.op = "delete" => e.seq \notin run[d].prep[k].seqs

(* A row just taken in has no baseline until it is stamped.                      *)
StampInv(d) == run[d].pc = "stamp" => run[d].stamp \in Keys /\ db[d].base[run[d].stamp] = Nothing

(* ... and a row deleted while its upsert is on the wire has its deletion queued. *)
TendInv(d) ==
  /\ \A k \in Keys : LET r == db[d].meta[k] IN
       r # 0 /\ log[r].content # db[d].row[k] => Tended(d, k)
  /\ \A k \in DOMAIN run[d].prep :
       run[d].prep[k].op = "upsert" /\ db[d].row[k] = Nothing => PendingDelete(d, k)

IndInv ==
  /\ TypeOK
  /\ LogInv
  /\ \A d \in Devices :
       /\ BaseInv(d) /\ CoverInv(d) /\ PushInv(d) /\ PageInv(d)
       /\ QueueInv(d) /\ StampInv(d)
       /\ ~Undos => HeldInv(d)
       /\ ~Undos /\ ~Deferral => TendInv(d)

=============================================================================
