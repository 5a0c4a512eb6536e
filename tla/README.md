# A formal model of chatsundere

chatsundere is a local-first, end-to-end encrypted chat application: a browser
client that owns its data in IndexedDB, and a few small services that let
several devices of one account share it without reading it. What is hard in it
is not any one function, it is that devices, services, tabs, timers and users
act on the same records at the same time, crash, lose answers and try again.
This project models that part in TLA+: the account's record store and blob
store in the sync service, the sync engine of the client, the doorbell between
them, the recovery from a restored server, the sessions of the auth service and
the tabs that refresh them, the shared OAuth grants, and the streams of a chat.

Contents: [Inventory](#inventory) - [What is hard](#what-is-hard-here) -
[Modules](#modules) - [Runs](#runs) - [Fairness](#fairness) -
[Proofs](#proofs) - [What the code does differently from what it says](#where-the-code-and-its-comments-differ) -
[Not modelled](#not-modelled) - [Plan](#plan)

## Inventory

Paths are relative to `src/`. `PROJECT.json` lists the same parts with their
files; this is what each one keeps, does and owes.

### Sync service (`apps/sync-service`)

**Record store** (`records/store.ts`, `routes/changes.ts`). Keeps a row per
(account, blind id): rev, collection, ciphertext or tombstone; and per account a
`head_rev`, a byte counter and the row lock that serialises batches. Operations:
push a batch (one transaction: each record is decided by nine rules in a fixed
order), pull a page of rows past a watermark. *Correct when*: no device's
watermark ever passes a row it was not sent; a write is only accepted on top of
the version it was made from; a deleted record stays deleted (except the
deliberate repair of a provider); what is answered is stored; the counter is
exact.

**Blob store** (`routes/blobs.ts`, `blobs/`). Keeps a row per blob and, in an
object store the database knows nothing of, the bytes. Operations: PUT (look,
check the quota, upload, commit under the lock, or clean up), DELETE (row
first, object after), GET and list. *Correct when*: the shared counter is exact
and within the quota; the loser of a race for an id costs the winner nothing;
"stored" stays true until somebody deletes.

**Doorbell hub** (`doorbell/`, `routes/doorbell.ts`, `index.ts`). Keeps the
sockets of every account, one Redis subscription per account with sockets, and
single-use tickets in Redis. Operations: upgrade, register, forward, expire,
remove. *Correct when*: no registered socket is without a subscription.

**Limits, readiness, epoch** (`ratelimit/`, `http/`, `db/epoch.ts`). Fixed
windows in Redis; the instance epoch tells clients that the account was restored
from a backup.

### Client (`apps/user-client`)

**Sync engine** (`sync/worker.ts`, `apply.ts`, `enqueue.ts`, `watermark.ts`,
`backfill.ts`, `reconcile.ts`, `resolution.ts`). Keeps, beside the user's rows,
an outbox of what to push, per record the rev and hash last agreed on
(`syncRows`), dead keys, a watermark. Operations: local writes with their
outbox entry in one transaction; drain (seal, push, acknowledge); pull (page by
page, resolving by last write wins); backfill and reconciliation at the tail of
a cycle. All of the engine runs under one lock per browser, user writes do not
take it. *Correct when*: every local change is pushed or beaten by a newer one;
devices at rest agree; nothing is overwritten unseen; the watermark covers only
what the device has.

**Trash and undo** (`trash/`). A deletion keeps a snapshot; the toast's undo
takes the deletion back while the server does not know of it.

**Doorbell consumer** (`sync/doorbell.ts`). Keeps one socket while a lifecycle
gate is open; reconnects with backoff, refreshes an expired token once a cycle.

**Epoch recovery** (`sync/recovery.ts`, `sync/worker.ts`). A server restored
from a backup announces a new epoch. The device forgets its bases, pulls
everything from zero, queues everything, pushes it, uploads the bytes the bucket
lost (asking first above a threshold), pushes the records that name them, and
stores the new epoch last. Three recoveries an hour, then it pauses. *Correct
when*: a device that is through holds what the server holds, what only it had is
back on the server, bytes included, and a crash anywhere only repeats it.

**Link reset** (`sync/link-reset.ts`). A new link to another account clears the
sync state of the previous one.

**Blob channel** (`sync/blob-*.ts`). Upload before the record that names the
blob, delete after the record that stopped naming it, repair.

**Shared grants** (`mcp/oauth/`). An OAuth grant is a synced record; a device
that needs a fresh token claims the record by compare-and-set, presents the
refresh token, keeps the new pair locally, and publishes it. *Correct when*: no
two devices are about to present the same token; the only live pair is not
dropped; the record never goes back to a spent one; claims of dead holders end.

**Streaming** (`state/stream-manager.store.ts`, `components/chat`). A send, a
re-roll and a greeting each stream a model's answer into a message row; one
handle per chat says which is live. *Correct when*: one greeting at most; a row
marked complete is the whole text of one stream; what the user stopped stays and
what was discarded stays away; the composer comes back.

**Memory, integrations, embeddings.** Background jobs and tool servers.

### Auth service (`apps/auth-service`)

**Sessions** (`jwt/`, `routes/token.ts`, `auth/deny-list.ts`, and on the client
`lib/fetch.ts`). Keeps refresh tokens in families (a family per sign-in) and a
deny-list. A rotation reads the row, checks the user, claims the row, inserts
the successor and links it, each a statement of its own. Log-out, recovery,
suspension and role change evict all sessions meanwhile. The tabs of a browser
share its cookie and take turns under a Web Lock. *Correct when*: a family has
at most one live token; an evicted family stays dead; tabs that refresh together
are never mistaken for a thief; a refresh ends.

**Accounts** (`routes/`). Join, login, pairing, account recovery, step-up.

### The rest

Proxy service (a stateless forwarder), admin client, crypto and embeddings
packages, adapters to language models, shared types.

### How they interact

```
 user writes ----> rows + outbox (one transaction)         other devices
                        |  drain: POST changes                   |
                        v                                        v
   sync engine  <--> record store (Postgres, account row lock) <--> ...
        ^   pull: GET changes         | publish rev after commit
        |                             v
   doorbell consumer <--socket-- hub <--- Redis channel of the account
        |
   blob channel <--> blob store (Postgres row, object store bytes)

   tabs of a browser --cookie, Web Lock--> auth service --deny-list--> all services
   grants: records of the account above + an external authorization server
   epoch recovery: sync engine + record store + blob store, after a restore
```

A push is committed first, published second, answered third; each of the later
two may be lost. A pull is computed at one moment and applied at another. A poke
only makes a cycle come sooner.

## What is hard here

`PROJECT.json` lists the hazards at their lines. They come in families:

- *Revs and watermarks.* A rev that becomes visible late, a page that is cut, a
  tombstone that is deferred, a session locked in mid-page: each can take a
  watermark past something the device never gets, and the server sends it once.
- *User writes between engine steps.* Seal, push, acknowledge, resolve and stamp
  are separate transactions; the user writes between them.
- *Deletion against everything else*: edits in flight, suppression, undo, dead
  keys, refusals by the rate window.
- *Two stores without a transaction over both*: blob rows and objects.
- *Events between two ends*: closes, subscriptions, tickets, refreshes and the
  gate, in any order.
- *A token that may be used once, and many that want to*: tabs and handlers
  that rotate one family while it is evicted; devices that share a grant.
- *One slot looked up by name*: streams of a chat that overlap meet in the
  handle of the chat, and clean up after an await whoever is in it.
- *Restores*: the server goes back in time under devices that do not.
- *Crashes and lost answers*, everywhere.

## Modules

| module | what it is |
| --- | --- |
| `RecordRules` | the decision on one pushed record, as pure operators |
| `ChangeFeed` | what devices may assume of the record store: a log read in order |
| `SyncStore` | the record store of one account, its push requests and pulling devices; uses `RecordRules`, implements `ChangeFeed` |
| `SyncStoreProofs` | theorems of `SyncStore` |
| `BlobStore` | the blob store of one account over database and bucket |
| `BlobStoreProofs` | theorems of `BlobStore` |
| `SyncEngine` | the engines of several devices against the account's log; decides pushes by `RecordRules` |
| `SyncEngineProofs` | theorems of `SyncEngine` |
| `Doorbell` | hub, Redis subscription, sockets and consumers |
| `DoorbellProofs` | theorems of `Doorbell` |
| `EpochRecovery` | a restored server and the devices that bring it up to date: records, bytes, epoch |
| `EpochRecoveryProofs` | theorems of `EpochRecovery` |
| `SessionTokens` | refresh token families, evictions, and the tabs of a browser |
| `SessionTokensProofs` | theorems of `SessionTokens` |
| `GrantLease` | a shared OAuth grant, refreshed under a claim with a lease |
| `GrantLeaseProofs` | theorems of `GrantLease` |
| `StreamManager` | the streams of one chat and its handle |
| `StreamManagerProofs` | theorems of `StreamManager` |
| `MC...` | instances for TLC |

Operators named after a *fault* (their comment starts with "Fault:") are not
part of any specification: they are the plausible mistakes the properties are
tested against.

### RecordRules, SyncStore, ChangeFeed

`Verdict` is the order of rules of `applyBatch`; `BytesAfter`, `Tombstone` and
`LiveRow` its writes. State: the committed rows and account row; per request its
place, its open transaction (`writes`, `txHead`, `txBytes`, allowance) and the
results to be told; per device a page in flight, a watermark, what it last
applied. `Begin` takes the row lock and reads the account row; each record is
one step (`AcceptWrite`, `AcceptDelete`, `RepeatDelete`, `Refuse`); `Commit`,
`Publish`, `Answer` follow, `Abort` and `LoseAnswer` may come instead. `Pull`
reads without the lock, `Deliver` applies later, or the page is lost. The
deletion allowance is any number up to the deletions asked for: the limiter
grants some.

`history` and `acked` are kept for the properties only.

`ChangeFeed` is what a device may assume of all this: one log, a rev an index
into it. It has three steps. `Grow` appends a batch, each of its changes decided
against the log below it (`Decided`: the id keeps its collection, a write is
made on the last change of its id, a deletion is recorded once, only a provider
comes back). `Read` moves a device on; it may miss changes that a later one has
replaced, and no other. `Tell` gives a writer revs that are in the log.
`IsAFeed` says that the store implements it: the log is the committed versions
by rev (`Logged`), the cursor is the watermark, what is known is what was last
applied, what was told is `acked`. `Commit` of a batch that wrote something is
`Grow`, `Deliver` is `Read`, `Answer` is `Tell`; the transaction in between, the
page in flight and everything that fails are stutters.

### BlobStore

A row is the body it names; an object is a body, a partial one (`Garbage`) or
nothing. A PUT goes through look (`AlreadyStored`, `IdTaken`, `NotYetStored`),
unlocked quota check, upload, lock, commit; failures go through `Fail`, whose
delete may itself fail. A DELETE commits, then removes the object or does not.
Record batches change the same counter under the same lock. `Crash` ends any
request anywhere. Any number of requests for one blob may be open at once;
`overlapped` remembers the blobs that ever had two, since what a lone request
can count on is more than what a racing one can. It is kept for the properties
only, like `promised` and `spoiled`.

### SyncEngine

The server is its *log*: entry r is what it committed with rev r. That the real
store behaves like a log (dense revs, batches appended whole, each change
decided against those below it, a pull that misses nothing but what was
replaced) is `StoreIsAFeed`. The step from `ChangeFeed` to this server is by
reading, not by proof: its pushes are decided by the same `RecordRules`, one
record at a time, and a page is read and applied as in `Read`. Each device is
`db` (IndexedDB: survives a crash) and `run` (the drain or pull under the lock:
does not). `late` holds pushes whose sender is gone.

One ordinary collection is modelled. A content stands for a whole row and
contents are totally ordered, as `lww` orders rows by `updatedAt` and then by
canonical bytes; a write takes any unused content, because clocks of two devices
need not agree. What is coarser than the code, and why that is sound or what it
costs:

- records of one push are decided one at a time, with other devices in between:
  more interleavings than a batch under the lock has;
- sealing all of an outbox is one step. The code seals key by key; each key is
  read in one transaction;
- ciphertext hashes are not kept: the echo shortcut and the replay guard are one
  guard on the rev. The rev of a re-delivered own write is taken in by the
  acknowledgement or by a comparison of equal rows;
- an undo's check of the dead keys, its transaction and its rewind are one step;
  so are a suppression and the note of its rev;
- a handle for undo exists only once the drain awaited by the deletion has
  ended without an acknowledgement (`softDelete` returns after it);
- reconciliation may happen whenever the engine is idle: the code throttles it by
  time only (`reconcile.ts:124`);
- so may backfill, which is more than the code does: it also needs the persisted
  `backfillPending` (`backfill.ts:208`), set by a new link (`link-reset.ts:53`)
  and by one look at the whole corpus per start (`backfill.ts:179-193`). What is
  checked holds however often it comes, and no fairness of it is assumed.

A background job that read a row before its deletion queues an upsert for a row
that is gone by then (`EditGone`): nothing is written, but the entry stands next
to the queued deletion, which it must not eat (`worker.ts:464-471`).

### Doorbell

Hub: the sockets registered for the account, the gauge, the commands on their
way to Redis (answered in order), whether Redis forwards the channel. A socket
is two ends and the events between them: the service closes an end before the
device has heard of it, and the other way round. Consumer: its current socket,
`connecting`, the timer, the refresh budget, ticket fetches in flight (more than
one is possible), a refresh in flight (single-flight). The gate is the
conjunction of the lifecycle stores; the auth latch is separate because setting
or clearing it notifies nobody. Delays are not modelled, so the backoff is a
timer that fires at some time.

### EpochRecovery

The server is its current records (rev and content by key, the head), its bucket
and its epoch; `stale` says that records are restored but the service has not
been re-epoched. `Restore` goes back to the backup and may lose objects;
`ReEpoch` ends the runbook; `OtherPushes` stands for all the devices not modelled
one by one. A device is `db` (survives), `run` (a cycle or a recovery under the
sync lock) and `session` (the master key, the flap counter, the pause). The
recovery is one action per step of `runRecovery`: `Clear`, `PullAll`, `Requeued`
and its drain, `Inventory` or `NoInventory`, `Ask`, `Upload` with its refusals,
`EndUploads`, a second drain for the blob records, `Persist`. `Confirm` is the
user's consent, `Retry` the button that ends a pause (it does not take the sync
lock). `Fail`, `Reload`, `Lock` fall between any two. It is coarser than
`SyncEngine`: a page is fetched and applied in one step, a push is decided in one
and acknowledged in another. The threshold for asking is a free choice. `skipped`
and `torn` are history: the devices whose last recovery passed over the
inventory, and those whose pull from zero a restore came into, between two pages,
until they recover from that too.

### SessionTokens

`tokens` is the refresh token table, numbered in the order of issue, each row
with the access token issued beside it. A handler is at one statement of
`rotateRefreshToken`: `Look`, `CheckUser`, `Claim`, `Mint`, `LinkSuccessor`, or
one of the two revocations; `Fail` ends it anywhere and leaves what it wrote.
An eviction is a handler of its own: `LogOut`, `Recover` or a change of the
account (`Begin`), then `RevokeAll` and `Deny`. A log-out revokes all of the
account's tokens. The branch that revokes one family only, that of a refresh
cookie sent along (`routes/auth.ts:43-57`), is left out: the path of the cookie
(`jwt/issue.ts:129`) keeps a browser from sending it there. A tab queues
for the refresh lock (`turns`), sends with the cookie of that moment, and its
callers share one outcome: a refusal closes the session for a caller of the
user's and latches it for a background one. `Lose`, `LoseSignIn` and `CloseTab`
leave a handler running that nobody hears. `spoiled`, `shut` and `slipped` are
history: the families something happened to, and those the last eviction found
or met between claim and insert.

### GrantLease

`server` is the record; `rows` the devices' copies with their pending fields;
`calls` what the holder of the grant lock is doing on each device, step by step
as `ensureAccessToken` numbers them; `strays` pushes given up by their sender,
which may still arrive. `next`, `family`, `revoked` are the authorization server
(external, strict: a second presentation revokes the sign-in). Time is two
observations: `LeaseOver` (five minutes with a claim in place) implies that a
presenter that began before it is more than a minute old (`late`), and then it
may not send. `doubted` is history: tokens taken over, or freed in doubt, because no
answer came or because an error answer hid a rotation (`PostFails`: a gateway may
answer for a server that is through).

### StreamManager

Rows are numbered in the order of creation; a row holds whose text it shows and
whether that is all of it. An attempt is a send, re-roll, or greeting from the
click to its last step; `handle` is `streams.get(chatId)`. `Earlier` attempts were
made on earlier visits to the chat, so that it may open with a row in it.

An edit waits for its write before it rolls again (`editing`), and a retry from
the footer takes three steps: the reply goes (`retrying`), the user message goes
and its drain is awaited (`retracting`), the text is sent again (`retracted`).
Meanwhile another stream may have become live, which the roll discards and the
send refuses to join. A drain may be rejected (`EditFails`, `RetractFails`), and
so may the last transaction of a stream (`FinishAborts`, then `Unwritten`) and the
reads after it (`FinaliseFails`): both land in the handler of rejections. Its own
writes and those of a stop are taken to succeed, and what an edited message says
is not tracked.

A write takes effect when it is issued and what follows its await is another step, so `Discarded`,
`Failed` and `Timer` find whatever handle is there by then. An aborted fetch
rejects before any other task of the page (`Settled`). `kept` is history: rows
the user stopped and has not given up.

## Runs

Bounds are constants of the modules or of the `.cfg`, and guards name them.
Sizes are distinct states.

| run | instance | shows |
| --- | --- | --- |
| `sync_store` (188,266) | 2 requests, 1 device, 2 ids (one a provider), batches of 1 and 2, head to 3, pages of 2 rows with a byte budget smaller than a row | the safety of the store, that it implements `ChangeFeed` (`IsAFeed`), and that a device gets past every rev |
| `blob_store` (379,555) | 2 requests, 2 blobs, 2 bodies (one below the floor), quota of 4 | counter, quota, races, promises; rows have their objects where requests did not overlap |
| `sync_engine` (1,261,669) | 2 devices, 1 record, shared or to be created, up to 3 contents, 1 mishap | no change forgotten, convergence, no blind overwrite |
| `engine_deletes` (889,399) | 2 devices, 3 keys (2 shared), 1 further write, pages of up to 3, cap of 1 tombstone, 2 mishaps, undo and offline writes | watermark, deferred tombstones, tamper alarm |
| `engine_live` (30,493) | 2 devices, 1 record, 1 further write, 2 mishaps | eventual convergence |
| `doorbell` (254,549) | 1 device, 2 sockets, room for 1, 2 commands in flight, 3 upsets, the auth latch | subscription, quiet under the latch, nobody left asleep, reachable again and again |
| `grant_lease` (256,106) | 2 devices, 3 pairs, 1 new sign-in, the server removed, 1 upset | one presenter, no replay, no pair dropped, the record moves onward, claims end |
| `session_tokens` (about 2,300,000) | 1 browser, 2 tabs with locks, 2 handlers, 3 tokens, 1 upset, 1 eviction | one live token, evictions are final, refusals have a cause |
| `session_live` (about 20,000) | the same without evictions, 1 second passes | a refresh ends |
| `streams` (238,862) | 3 attempts, one of them of an earlier visit, 1 tool round, 2 faults | one greeting, stopped rows stay, complete rows are whole, deleted ones stay away, the composer comes back |
| `recovery` (about 146,000) | 1 device, 1 record and 1 blob, pages of 1, 1 restore, 1 mishap, 1 push of others, 2 recoveries an hour | the device ends up with what the server holds, bytes included |
| `recovery_delete` | the same with 2 mishaps | expects a violation, see [below](#where-the-code-and-its-comments-differ) |

Why these bounds are enough to be interesting: three revs are the least with
which a commit overtakes another while a third is being pulled; two batches of
two records contain every pair of verdicts on one id; two bodies and a quota of
four let both bodies fit alone and not together. In the engine, two devices and
two fresh contents make every order of edit, conflict, resolution and re-push of
one record; with no record to start from they also make both devices create it.
`MaxMishaps` counts deletions, undos, locks and crashes: one lets a deletion or
a crash fall between any two steps, two allow a deletion followed by a crash, by
a second deletion or by its undo. The watermark needs more records than it needs
writes: two deletions and a later write put a tombstone past the cap and a
record after it on one page. A page is cut anywhere up to `PageLimit`, because
the server also cuts by bytes. In the doorbell two sockets and room for one let
one leave while the other comes and let a leaked socket keep its device out;
`MaxUpsets` counts gate changes, failures and restarts, and expiry, refused
upgrades and closes are not counted. Three tokens are a sign-in and two
rotations, or two sign-ins and one: enough for a replayed token, for two handlers
with one token, and for a rotation that straddles an eviction. Three pairs let
one device publish late what another has already moved beyond, and two devices
are all that a compare-and-set can tell apart. Two attempts let every pair of
streams overlap in the handle at every step, and the one of an earlier visit gives
them a reply to roll again and a message to edit or take back. One restore between any two steps
of a cycle, with a push of others before or after it, is every order a recovery
distinguishes except a restore during a recovery. The safety properties of
`streams` and `recovery` do not rest on these bounds: they are proved for any
number of attempts, and for any number of devices, keys, restores and failures.

Requests, devices, tabs and blob ids are interchangeable, so runs without
liveness use symmetry; those with it do not. `blob_store` and `sync_store` check
deadlock. The others do not, since those systems come to rest (all bounds used
up, or everybody content).

Each property of each passing run has a fault in `PROJECT.json` ("mutants")
that breaks it: the lock not taken, the acknowledgement that clears too much,
the claim that has lost its condition, the clean-up of another's handle, and so
on.

## Fairness

- `SyncStore!FairSpec`: a device keeps pulling (the ten-minute timer of
  `triggers.ts` is the floor under all other triggers), and a page asked for
  again and again arrives some time (strong: any single one may be lost).
  Nothing is assumed of pushes: they may all abort.
- `SyncEngine!FairSpec`: timers bring cycles round; steps of a running drain or
  pull happen; a push is decided some time with room for its deletions (strong:
  the rate window of a minute is given back, a crash may come first);
  reconciliation comes due. Nothing is assumed of backfill or of the user.
- `Doorbell!FairSpec`: timers, events and Redis answers arrive, a refresh
  returns, tokens expire; a ticket or an upgrade asked for again and again is
  granted. A subscription may be rejected as often as the bound on upsets says.
- `EpochRecovery!FairSpec`: cycles come round and recoveries go on, the hour of
  the flap limit passes, the user unlocks the device some time, a byte upload
  asked for again and again lands, and the operator ends the restore. `Confirm`
  and `Retry` are the user's and not assumed.
- `GrantLease!FairSpec`: the steps of a call exclude one another, so weak
  fairness is stated of all of them together (requests are answered or time
  out, calls go on); every device pulls; a device that wants a token again and
  again gets to claim it (strong: a pull may change its row first).
- `SessionTokens!FairSpec`: handlers run their statements, evictions go on, the
  tab whose turn it is sends, and an answer is received. Lost answers are upsets,
  and a lost one ends the flight.
- `StreamManager!FairSpec`: every await settles: the model ends its answer, a tool
  returns, IndexedDB answers, a drain ends or is rejected. Nothing is assumed of the user. A read rejected
  before the tool loop strands the handle, and `SendComesBack` says so.

## Proofs

TLAPS checks, for every number of ids, devices, requests, sockets, tabs, blobs,
bodies and attempts and every size, quota and bound, from the named assumptions on the
constants (`RulesAssumption`, `StoreAssumption`, `BlobAssumption`,
`EngineAssumption`, `DoorbellAssumption`, `SessionAssumption`, `GrantAssumption`,
`StreamAssumption`, `RecoveryAssumption`):

| theorem | establishes |
| --- | --- |
| `SyncStoreProofs!TypeCorrect`, `Invariance` | `[]TypeOK`, `[]IndInv` |
| `NothingSkipped`, `UpdatesNotLost`, `HeadAndRevs`, `AcksAreDurable` | the safety properties of `sync_store`, and that revs are dense and distinct |
| `TombstonesStay` | the action property `TombstoneTerminal`; in the run it is part of `IsAFeed` (`Decided`) |
| `LogInvariance` | `[]FeedInv`: the versions are a log, and pages and answers come from it |
| `StoreIsAFeed` | `IsAFeed`: `SyncStore` implements `ChangeFeed` |
| `BytesAreExact` | `BytesExact`: the account's byte counter is the sum of the sizes of its rows |
| `BlobStoreProofs!Invariance` | `[]IndInv`, however requests overlap |
| `CountStaysWithin`, `PromisesAreKept`, `WinnersKeepTheirs` | quota, promises and winners under any overlap |
| `ObjectsStored` | a blob no two requests raced for has its object, a 200 tells of it |
| `CountIsExact` | `QuotaExact`: the counter is the records' bytes and the charges of the stored rows |
| `SyncEngineProofs!TypeCorrect`, `Invariance` | `[]TypeOK`, `[]IndInv` |
| `NothingSkipped`, `AlarmIsTrue` | `WatermarkCovers`, `NoFalseTamper` |
| `NeverBlind` (without `Undos`) | the action property `NoBlindOverwrite` |
| `NoneForgotten`, `RestIsAgreement` (without `Undos` and `Deferral`) | `ChangesAreTended`, `Converged` |
| `DoorbellProofs!TypeCorrect` | `[]TypeOK` |
| `SocketsAreServed` | no account with sockets is without a subscription on its way, and the gauge is exact |
| `DegradedIsQuiet` | the action property `QuietWhileDegraded` |
| `SessionTokensProofs!TypeCorrect`, `AllTyped` | `[]RecordsTyped` (tables, requests, tabs), and from it `[]TypeOK`, deny-list and history included |
| `FamiliesStayLinear` | `OneLiveToken` |
| `EvictionIsFinal` | `EvictedStaysOut` |
| `CauseInvariance`, `RefusalsHaveCause` (with `HasLocks`) | `[]CauseInv`, the action property `RefusedForCause` |
| `GrantLeaseProofs!TypeCorrect`, `Invariance` (without `SignInsLost`) | `[]TypeOK`, `[]IndInv` |
| `TokensPresentedOnce` (without `SignInsLost`) | `OnePresenter`: of two devices that hold one token, one is too late to send |
| `RotatedNotReplayed` (without `SignInsLost`) | `NoReplay`: a rotated token is presented only by the call that lost the answer, or after it was freed in doubt or taken over |
| `TokensMoveOnward` (without `SignInsLost`) | the action property `RowMovesOnward` |
| `PairsAreKept` (without `SignInsLost`) | the action property `PairNotDropped` |
| `StreamManagerProofs!Invariance` | `[]IndInv`, `TypeOK` among it |
| `GreetedOnce`, `CompleteRowsWhole`, `StoppedIsKept` | `OpenerOnce`, `CompleteIsWhole`, `PreservedIsKept` |
| `DeletedStaysAway`, `SuccessIsPrivate` | the action properties `DiscardedStaysGone` and `SuccessSparesOthers` |
| `EpochRecoveryProofs!TypeCorrect`, `Invariance` | `[]TypeOK`, `[]IndInv` |
| `DevicesReunited` | `Reunited`: a device that is through holds what the server holds |
| `BytesAreBack` | `BytesClimbBackIfListed`: its bytes are in the bucket again |

Three constants switch a behaviour of the code on or off, and some theorems are
stated for the model without it: `Undos` (a deletion is undone after the account
refused it), `Deferral` (a background job writes while the server is away: the row
changes and nothing is queued) and `SignInsLost` (a sign-in is published and the
answer does not come back). Each is where the code breaks a promise of its own, with TLC's counterexample [below](#where-the-code-and-its-comments-differ), so
the properties are false with it and there is nothing to prove. The runs of these
properties use the same values; `engine_deletes` and the theorems
`NothingSkipped` and `AlarmIsTrue` keep the first two on.

**The argument for the record store.** None of the safety properties is
inductive. What carries them is the account lock (`LockInv`: it is held exactly
by the request with an open transaction, so there is one) and what it says about
revs (`RevInv`: those committed lie at or below `head`, those of the open
transaction above it, and the last one given has a row). A commit then only adds
revs no page in flight has reached, which is `PageInv`: every row below a row of
the page is behind the watermark or on the page. `NoSkippedRecord` follows when
the page is applied. `HistoryInv` and `OksInv` say of the open transaction what
`NoLostUpdate` and `AckedIsStored` say of the database, so that committing it
preserves both. Each part has a lemma per group of actions; `Invariance` puts
them together. `BytesExact` is proved beside them: `BytesInv` says that the
counter is the sum over the committed rows, and that the counter an open
transaction carries is the sum over what that transaction sees (`View`).
What this needs of a sum over a finite set is that another value at one element
changes it by the difference (`SumChangesOne`).

**The refinement of the change feed.** The steps need more than the safety
properties: that the versions *are* a log. `FeedInv` adds to `IndInv` that each
rev from 1 to `head` has one version and the open transaction continues it
without a gap (`Dense`), that each row is the version of its rev (`Recorded`,
`VersionInv`), that rows of an id share its collection (`CollectionInv`), that
each version was accepted on top of the last of its id (`ChainInv`, over the
open transaction too, whose own writes lie below its later ones), and that
pages and results to be told are versions (`AnswersInv`). `LogInvariance` proves
it inductive. With it `CommitGrows` shows that a commit is a `Grow` (what a
transaction accepted is `Decided` in the log it becomes part of, since the lock
kept everybody else from growing it), `DeliverReads` that a page moves a device on as `Read`
allows (a row missing from it was replaced after the page was read), and
`AnswerTells` that an answer tells of what is in the log. Every other action
leaves the four mapped values alone.

**The argument for the blob store.** The count a request holds is the current
one while it holds the lock (`LockInv`), hence `WithinQuota`. An id on which no
upload failed and which nobody deleted keeps a whole body under it (`ObjectInv`),
hence `WinnerKeepsObject`. The counter is exact (`QuotaExact`) for the same
reason as the record store's: what is charged to it changes with one row at a
time, under the lock. On an id two requests never had open at once, a
request between upload and commit has its own body in the bucket (`SoloInv`),
hence `RowHasItsObject`.

**The argument for the engine.** The watermark says only that it has passed a
rev; that the device has what was there needs the page in between. `CoverInv` is
`WatermarkCovers` said with the base of each key: the last change of a key,
unless it is ahead of the watermark, is the base the device works from (none, for a
tombstone). While a page is applied this has to hold of what the page has gone
past although the watermark has not moved: `PageInv` says that what is behind is
taken in, still on the page, or put off (a tombstone beyond the cap, from
`low` on), so the watermark may move to the first thing put off or to the end; and that
a later change of a key of the page is past all of it, so nothing on it is
applied over something newer. An acknowledgement moves a base on its own, so it
has to be a version past everything taken in (`AnswerOK`): otherwise a page
would set it back. `NoFalseTamper` is the clause of `PageInv` on dead keys: no
page holds a live version of a key whose tombstone the device knows, because the
log has nothing after a tombstone (`LogInv`).

For the rows: without undo, what a device holds of a key and what it calls its
base are the same version (`HeldInv`), and an upsert on the wire carries that
base, so the server, which compares bases, replaces nothing the device did not
hold: `NoBlindOverwrite`. `TendInv` is `ChangesAreTended`, and is inductive only with
what the queue, the wire and the stamp say of each other: a queued deletion has
taken its row away and is not cleared by the acknowledgement of an earlier upsert
(`QueueInv`), a row taken in has no baseline until it is stamped (`StampInv`),
and a row that was deleted while its upsert is on the wire has its deletion queued.
`Converged` follows: at rest the watermark covers the log, and a row that is not
what its base holds would have an entry in the queue.

Every action touches one device, or the log and one device, so the proof has a
lemma `...Effect` per action that says what it changes and that types are kept,
a lemma `...Keeps` per part of the invariant that says what a step must leave
alone, `Bystander` for all other devices, and a lemma `...Step` per action that
puts these together.

**The argument for the doorbell.** The gauge is a number and the sockets are a
set, so the exactness of one rests on no socket being counted twice: `HeldInv`
says that a registered socket's service end is still held, so `Upgrade` only
adds names that are not there. For the subscription, the commands to Redis are
answered in order, so what matters is the last one on its way, or, when none
is, what Redis says: that it is a subscription whenever there are sockets is
inductive, although in between the answers Redis may be subscribed for nobody or
not yet subscribed for somebody.

**The argument for sessions.** `OneLiveToken` is not inductive: between claim
and insert a family has no live token and a handler about to give it one.
`ClaimedAlone` says that such a handler is the only one of its family and that
the family then has no live token; the conditional UPDATE keeps it, because the
token it matches is the family's only live one (`LiveAlone`) and so no other
handler is between its claim and its insert. A new family takes a name no token
carries (`IssuedInOrder`). `EvictedStaysOut` becomes inductive beside these: a
family without a live token and without a claim has no way to get either.
All other actions are `Quiet`: tokens only die, rotations only end. That the
deny-list and the history only name what exists (`AllTyped`) rests on the same:
a request is at the check of its user only with an issued token, and a log-out
is asked for with one (`NamesInv`).

`RefusedForCause` needs to know where every token is (`CauseInv`). The lock makes
the tabs of a browser take turns: only the tab at the head of the queue has a
request on its way, and one (`TurnInv`). A family that nothing has happened to is
in the hands of one browser, as its cookie, in the one request that presents
that cookie, or in the answer to the sign-in that began it (`PlaceInv`); and what
is in those hands serves, or has been spent by the rotation that presents it
(`ServesInv`). Both are kept because a clean token is taken out of service only
by the claim of its own rotation (`Spared`), because a sign-in begins a family
that nobody else has, and because an answer is put in the cookie while its tab
still holds the lock, so that the next tab sends the new token. A refusal is then
of a token that is not clean. Any step but the mint of a sign-in, a sending and
the arrival of an answer is `Tame`: it moves no token to new hands, and one lemma for
all tame steps keeps the invariant. The theorem assumes `HasLocks`: without
`navigator.locks` two tabs of a browser may present one cookie twice
(`lib/fetch.ts:156-166`), and the second is taken for a replay.

**The argument for the lease.** A call is a holder from its claim until it has
presented, and every claim commits a revision of the record of its own, so
holders are ordered by revision. `OnePresenter` is not inductive because a claim
may be taken over while its holder is still on its way: `Apart` says that two
holders never share a revision and share a token only when one of them is late,
and a late one may not send. It is kept because whoever takes over saw the lease
over, and behind a lapsed claim every holder is late (`LapsedOK`). What else may
still reach the record is a push on its way, of a device or of nobody (`strays`):
`Sound` says that if its base is still the record's revision, it is a claim of
the record's own token, a release or a kill of a holder that has left, or the pair the
record's token was rotated into. Every other push meets a conflict. For `NoReplay`,
a token in the record without a claim is unspent or `doubted` (`FreeOfDoubt`), and a
takeover doubts what it takes. The theorem does not say that a rotated token is
never seen again: the code may present one in just these cases, and in the call
that lost the answer; for
`RowMovesOnward`, a pair is rotated into a later one of its family, and while the
record holds a spent token nobody has seen the pair after it (`Unpublished`), so no
one else has rotated further. A new sign-in is alone in its family and known to one
device until it is published (`FreshOK`): it is here that the lost answer of
`SignInsLost` would break the invariant.

`PairNotDropped` needs three facts more (`KeepInv`): a sign-in has one pair that is
not rotated (`OneTip`), a kill that still meets its revision is of a revoked sign-in
(`KillsOK`), and a publication that was refused because the record had moved on
will not find it moved back (`OutcomeOK`). Then a pair that nothing makes superfluous
is the record's, or what the record's spent token was rotated into
and unseen (`RecordsTip`); a device that clears its pending pair has seen it
accepted, or superseded. The proof found a case the runs are too small for and
which the property now names: a pair kept on a device is dropped also when the
record is already empty, because the sign-in that replaced it has been revoked.

**The argument for streams.** Whatever an action does to the rows is one of four
things (`RowStep`): it takes a row away, writes or completes one that is there, or
drafts the next one; one lemma reduces every action to these, and `OpenerOnce`,
`CompleteIsWhole` and `DiscardedStaysGone` follow from them, the last because a
draft takes a number that no row has had (`RowsInOrder`). That there is such a
number within the bound is counted: every attempt that still needs a row (`Owing`,
those in the middle of an edit or a retry among them) has one left, and none needs
one twice. `PreservedIsKept` is the hard one. A
greeting's rejection deletes its row, so it must not land on a row the user
stopped at: the stream that has the handle is not one whose row is kept
(`OpenersNotKept`), and the rejection of a stopped greeting finds either no handle
or no row (`RejectedOpenersGone`), because it is the next thing to happen
(`Settled`). A greeting whose last transaction was aborted heeds no stop (`Heeds`), so
it is not `stopped`, and the property excepts it. That `Max` and `Min` of the rows are rows rests on the inclusion of
finite sets being well-founded (`MaxIsThere`, `MinIsThere`); the sums of the two
stores are built the same way. These lemmas stand at the head of each module that
needs them.

**The argument for the recovery.** Revs only grow while an account is not restored
(`ServerInv`), so whatever another device adds lies past all a device knows, and
does not disturb what the invariant says of it (`UntouchedKeeps`): a step has to be
looked at for the device that takes it only (`StepKeeps`). A device is `Aligned`
with the log when it is in the epoch, or when it is in a recovery that has begun
to pull, has not been torn, and whose last page was of the present epoch. Of an
aligned device `KnowInv` says three things: what is at or behind its watermark it
knows (`Knows`: the base is the rev); what it knows is its row, unless a change is
queued (`Holds`) or the server has no record and the recovery has still to push
the row (`ToPush`); an accepted record is past all bases, and is the row unless
one of the two changed since (`Accepted`). A pull from zero makes a device aligned
with nothing known (`Clear`), each page extends what it knows (`HeldTaken`), the
requeue turns what is to push into what is queued, a push into what is answered
(`HeldSent`), and the answer into what is known (`HeldAcknowledged`). A restore
takes the alignment from every device but one that has yet to pull its first page:
none is in the epoch until `ReEpoch`, which makes an epoch no device has
(`EpochInv`), a recovery past its pull has the old one, and a pull that has a page
of the log before the restore is `torn`. So no step but `Persist` brings a device into
the epoch, and it finds it aligned with nothing left to push: `Reunited`. That a
push drops only what had no row and no base is `SendableFacts`, from `Tidy`: a row
that is gone has its deletion queued. `BytesInv` carries the bytes: between the
inventory and `Persist` what is here is in the bucket or still `missing`, and
`landed` says that nothing `missing` was given up.

TLC checked each inductive invariant on the instances above before it was proved.

**Model-checked only**: liveness (`EveryDeviceCatchesUp` and the like), which is
out of reach of the prover.

## Where the code and its comments differ

`recovery_delete` checks a statement found in the repository and TLC finds a
behaviour of the code against it. `worker.ts:469-470`: last-op-wins "must not eat
the deletion". A queued deletion whose key has no base is dropped by the drain
(`worker.ts:453-457`), and a recovery clears all bases first (`recovery.ts:267`).
If it fails after that, the rerun starts with a drain that drops the deletion,
and the pull from zero brings the record back.

The models show more. Each can be seen by checking the property named, which the
modules keep, under the constants given:

- `OkMeansPresent` (`BlobStore`, instance of `blob_store`). `blob-transport.ts:83`
  says a 200 means the object is present; the handler looks at the row only
  (`blobs.ts:204-208`), and a crash between a failed upload's cleanup and another
  request leaves a row without object.
- `SquaredAtRest` (`SyncEngine`; one key, `MaxContent` 2, shared, 2 mishaps,
  `Undos`). `delete-flow.ts:115-118` says that after an undo a hidden edit is
  re-delivered and resolved; the suppression already took its rev as the base, so
  the re-delivery counts as a replay (`apply.ts:810-820`).
- `Converged` with `Deferral` and no mishaps (`SyncEngine`). `apply.ts:744-745`
  calls the window before the baseline benign; a write of a background job in it,
  made while the server is away and so not queued (`EditDeferred`), is stamped as
  synced and never pushed.
- `TrashedAsItWas` (`SyncEngine`, 1 mishap). `worker.ts:982-983` says that the
  row goes to the trash in one transaction; it is read before it (1032-1033) and
  an edit in between is lost. The pull side closes the same gap
  (`apply.ts:659-666`).
- `BytesClimbBack` (`EpochRecovery`). An inventory that cannot be fetched
  (`recovery.ts:415-420`) and a session that is locked (376) count as "nothing
  missing", the epoch is adopted and the attention is cleared, against the
  comment at 298-302. `BytesClimbBackIfListed` is what holds.
- `NoFalseTamper` (`EpochRecovery`). "An honest server can never deliver an upsert
  for a blind id it tombstoned" (`apply.ts:848-852`) does not hold of a server
  restored to before the deletion: the alarm is set off.
- `ReunitedThoughTorn` (`EpochRecovery`; three keys, no blobs, `MaxContent` 6,
  `MaxRestores` 2, no mishaps, 5 pushes of others). "A crash between any step and
  this re-runs the whole recovery" (`recovery.ts:33-34`), but a restore between
  two pages of the pull from zero does not: the epoch that is adopted is that of
  the last page (`recovery.ts:510`), and what others push under it below the
  watermark of the first page is never pulled. `Reunited` leaves these devices
  (`torn`) out until they recover again; the proof needed this, the run has one
  restore and could not show it.
- `RowMovesOnward` with `SignInsLost` (`GrantLease`). "A fresh sign-in always
  beats the old row, whatever it holds" (`grant-publish.ts:119-122`) also when its
  own publication arrived, the answer was lost, and others have rotated since:
  the retry puts the spent pair back.
- `GoneForGood` (`GrantLease`, `Removing`). "A grant is deleted outright … a
  restore must not revive sealed tokens" (`apply.ts:637-638`); the acknowledgement
  of a push under way inserts the row again (`worker.ts:776-789`).
- `RoleIsFresh` with `MaxClock = 1` (`SessionTokens`). "A role change must not
  leave stale-role tokens alive" (`admin/users.ts:190-193`): the cutoff is in
  whole seconds, so a token of the same second serves on, and so does one from a
  rotation that read the user before the change. A recovery's cutoff may also
  lower a newer one.
- `UserTextKept` (`StreamManager`). "Your message is kept" (423, 428); a retry from
  the footer takes the message out first (`chat-page.tsx:972-995`). A send that
  then finds a live stream throws, with nothing in the composer. So does a deletion
  whose drain is rejected (`enqueue.ts:210`, `triggers.ts:112`): the message is gone
  and the text is not sent.
- `RerollsThatReply` (`StreamManager`). The button is on the last
  reply, whatever its state (`MessageControls.tsx:101`); the target is the last
  *complete* one (`send-message.ts:750-756`), which a later message may follow.

And these, read off the models without a property:

- `delete-flow.ts:78-79` says that an undo cancels the queued deletion; lines
  81-87 collect every entry of the key, so an edit queued before the deletion is
  dropped too (`Undo`), and only a reconciliation finds it again;
- `doorbell.ts:90` says "drop when shut"; `disconnect` clears `connecting` while
  a ticket fetch is pending (line 155), and if the gate opens again in time two
  fetches pass the check at line 118 and make two sockets. The first is
  overwritten at line 124 and nothing on the device ever closes it;
- `doorbell.ts:79-80` says that a relink "clears the latch and the lifecycle
  subscriptions re-evaluate the gate"; the store changes first
  (`lib/fetch.ts:180`) and the latch is cleared after it (221), so the gate
  evaluated is still shut. `AwakeWhileOpen` speaks of devices that were never
  latched for this reason;
- `ensure-token.ts:189-190` takes an error answer for "nothing was spent" even
  when an earlier answer to the same token was lost, or when a gateway answers in
  error for a server that has rotated it (`PostFails`, `doubted`);
- `abortPreserve` in the 200 ms after a stream has finished turns its complete
  row back to incomplete, and a discard there deletes the finished reply; a late
  rejection writes the buffer of the stream that replaced it into the stopped
  row;
- "Aborts go through abortDiscard, which deletes the handle before the rejection
  lands here" (`stream-manager.store.ts:1114-1115`): it deletes it after its
  await (595-599), so the rejection does find a handle (`AbortLands` after
  `Discards`) and what keeps the row away is that an update of an absent row
  writes nothing;
- a row the user stopped can be withdrawn, and the exception in `PreservedIsKept` is
  this behaviour. A greeting whose last transaction was aborted is beyond an abort:
  if the user stops it before the rejection lands, and another stream is live when it
  does, the handler finds the handle of that stream and deletes the stopped row. With
  four attempts there is another way: a greeting streams; a send that looked for
  a live stream before it replaces its handle and fails, which frees the handle;
  the user retries from the footer, which takes the user message away, and rolls
  the greeting again while the first one still streams into the same row, and
  stops that; the retried send is live when the first greeting fails, and its
  handler deletes the row.

`Undos` and `Deferral` are off in `sync_engine` because of the second and third
point: the convergence it shows is that of edits, creations, deletions, crashes
and late pushes. `engine_deletes` has both on, and what it checks holds
nevertheless.

## Not modelled

In modelled parts: request authentication and shape checks; `bad_collection`
and `bad_since`; records too large to push; records that cannot be opened
(poison) and the heal between a push and its conflict; provider resurrection on
the client; the special rules of vectors, settings and journal; cascades of a
deletion; restoring from the trash screen and its purge; a log-out that sends a
refresh cookie; the text of an edited message; rejected writes in the handlers of
rejections and stops; the link generation; the
page cap of the pull from zero; an upload the bucket completes after the service
died; Redis reconnecting by itself; the unlinked flow of a grant; the lifetimes
of access tokens and deny-list entries, the cache of existing users, step-up;
pills, titles and what a finished stream starts.

Parts: see `PROJECT.json`. Most of the repository's lines are interface,
adapters and tests around them, which is why the models map a small share of it.
Account handlers, proxy, limits, crypto, embeddings, adapters, interface, admin
client and types are left out: they are one statement or transaction each,
stateless, numeric, or data.

## Plan

Done: `RecordRules`, `ChangeFeed`, `SyncStore`, `BlobStore`, `SyncEngine`, `Doorbell`,
`SessionTokens`, `GrantLease`, `StreamManager`, `EpochRecovery`, each with
proofs.

Left, in order of how much rests on it:

1. `ClientBlobs`: the three phases of an ordinary drain and the repair, over
   `BlobStore`. Correct when no record that reached the account names a blob
   that did not.
2. Link generations: what a drain of the previous link may still write.
3. `Resolution`: the merge rules of the special collections as an algebra
   (commutative, associative, idempotent where the code relies on it).
