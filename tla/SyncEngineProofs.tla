-------------------------- MODULE SyncEngineProofs --------------------------
(***************************************************************************)
(* Theorems of SyncEngine, for every set of devices and keys, every log the  *)
(* account may start with, every page limit and tombstone cap: what the      *)
(* watermark covers, that the alarm is never false, and, for rows no undo    *)
(* brings back, what an upsert may replace, that no local change is          *)
(* forgotten and that devices at rest agree.                                *)
(*                                                                         *)
(* A lemma <Action>Effect says what an action changes and that it keeps the  *)
(* type invariant; a lemma <Part>Keeps what a step must leave alone for a    *)
(* part of the invariant to survive it; a lemma <Action>Step that the action *)
(* keeps the invariant of the device that takes it.                         *)
(***************************************************************************)
EXTENDS SyncEngine, FiniteSetTheorems, WellFoundedInduction, TLAPS

(* A family of subsets of a finite set has one that contains no other.        *)
LEMMA SmallestSubset ==
  ASSUME NEW S, IsFiniteSet(S), NEW F, F \subseteq SUBSET S, F # {}
  PROVE  \E T \in F : \A U \in SUBSET T : U # T => U \notin F
<1>1. F \subseteq FiniteSubsetsOf(S)
  BY FS_FiniteSubsetsOfFinite
<1>2. PICK T \in F : \A U \in F : <<U, T>> \notin StrictSubsetOrdering(S)
  BY <1>1, FS_StrictSubsetOrderingWellFounded, WFMin
<1>3. ASSUME NEW U \in SUBSET T, U # T, U \in F PROVE FALSE
  <2>1. <<U, T>> \in (SUBSET S) \X (SUBSET S)
    OBVIOUS
  <2>2. <<U, T>> \in StrictSubsetOrdering(S)
    BY <1>3, <2>1 DEF StrictSubsetOrdering
  <2> QED
    BY <1>2, <1>3, <2>2
<1> QED
  BY <1>2, <1>3

-----------------------------------------------------------------------------
(* Extremes: of the sets of what lies on one side of an element, one contains   *)
(* no other.                                                                 *)

LEMMA MinIsThere ==
  ASSUME NEW S, S \subseteq Int, IsFiniteSet(S), S # {}
  PROVE  Min(S) \in S /\ \A y \in S : Min(S) <= y
<1> DEFINE Below(x) == {y \in S : y <= x}
           Cuts == {Below(x) : x \in S}
<1>1. PICK U \in Cuts : \A V \in SUBSET U : V # U => V \notin Cuts
  <2>1. Cuts \subseteq SUBSET S /\ Cuts # {}
    OBVIOUS
  <2> HIDE DEF Cuts
  <2> QED
    BY <2>1, SmallestSubset
<1>2. PICK x \in S : U = Below(x)
  BY <1>1
<1>3. ASSUME NEW z \in S PROVE x <= z
  <2>1. x \in Int /\ z \in Int
    OBVIOUS
  <2>2. SUFFICES ASSUME z < x PROVE FALSE
    BY <2>1
  <2>3. x \in U /\ x \notin Below(z) /\ Below(z) \in Cuts
    BY <1>2, <2>1, <2>2
  <2>4. Below(z) \subseteq U
    <3>1. \A y \in S : y <= z => y <= x
      BY <2>1, <2>2
    <3> QED
      BY <1>2, <3>1
  <2> HIDE DEF Below, Cuts
  <2> QED
    BY <1>1, <2>3, <2>4
<1> QED
  BY <1>3 DEF Min

LEMMA MaxIsThere ==
  ASSUME NEW S, S \subseteq Int, IsFiniteSet(S), S # {}
  PROVE  Max(S) \in S /\ \A y \in S : Max(S) >= y
<1> DEFINE Above(x) == {y \in S : y >= x}
           Cuts == {Above(x) : x \in S}
<1>1. PICK U \in Cuts : \A V \in SUBSET U : V # U => V \notin Cuts
  <2>1. Cuts \subseteq SUBSET S /\ Cuts # {}
    OBVIOUS
  <2> HIDE DEF Cuts
  <2> QED
    BY <2>1, SmallestSubset
<1>2. PICK x \in S : U = Above(x)
  BY <1>1
<1>3. ASSUME NEW z \in S PROVE x >= z
  <2>1. x \in Int /\ z \in Int
    OBVIOUS
  <2>2. SUFFICES ASSUME z > x PROVE FALSE
    BY <2>1
  <2>3. x \in U /\ x \notin Above(z) /\ Above(z) \in Cuts
    BY <1>2, <2>1, <2>2
  <2>4. Above(z) \subseteq U
    <3>1. \A y \in S : y >= z => y >= x
      BY <2>1, <2>2
    <3> QED
      BY <1>2, <3>1
  <2> HIDE DEF Above, Cuts
  <2> QED
    BY <1>1, <2>3, <2>4
<1> QED
  BY <1>3 DEF Max


-----------------------------------------------------------------------------
(* The log.                                                                   *)

(* What the log of a state of the right type is.                              *)
LEMMA Logged ==
  ASSUME TypeOK
  PROVE  /\ Len(log) \in Nat /\ DOMAIN log = 1 .. Len(log)
         /\ \A r \in DOMAIN log : r \in Nat /\ r # 0 /\ log[r] \in Change
         /\ \A r \in DOMAIN log : log[r].key \in Keys
              /\ log[r].content \in Contents \cup {Nothing}
<1>1. log \in Seq(Change)
  BY DEF TypeOK
<1>2. Len(log) \in Nat /\ DOMAIN log = 1 .. Len(log)
        /\ \A r \in 1 .. Len(log) : log[r] \in Change
  BY <1>1
<1>3. \A r \in 1 .. Len(log) : r \in Nat /\ r # 0
  BY <1>2
<1>4. \A e \in Change : e.key \in Keys /\ e.content \in Contents \cup {Nothing}
  BY DEF Change
<1> QED
  BY <1>2, <1>3, <1>4

(* The highest of a finite set of naturals, 0 when there is none.             *)
LEMMA HighestIs ==
  ASSUME NEW S, S \subseteq Nat, IsFiniteSet(S)
  PROVE  /\ Highest(S) \in Nat /\ Highest(S) \in S \cup {0}
         /\ \A x \in S : x <= Highest(S)
<1>1. S \cup {0} \subseteq Int /\ IsFiniteSet(S \cup {0}) /\ S \cup {0} # {}
  BY FS_AddElement
<1>2. Max(S \cup {0}) \in S \cup {0} /\ \A y \in S \cup {0} : Max(S \cup {0}) >= y
  BY <1>1, MaxIsThere
<1>3. Max(S \cup {0}) \in Nat
  <2>1. S \cup {0} \subseteq Nat
    OBVIOUS
  <2> QED
    BY <1>2, <2>1
<1> QED
  BY <1>2, <1>3 DEF Highest

(* Latest, which is computed, and LastOf, which is said, are the same change. *)
LEMMA LatestIs ==
  ASSUME TypeOK, NEW k \in Keys
  PROVE  /\ Latest(k) \in Nat
         /\ Latest(k) = 0 => \A r \in DOMAIN log : log[r].key # k
         /\ Latest(k) # 0 => LastOf(k, Latest(k))
         /\ \A r : LastOf(k, r) => Latest(k) = r
<1> DEFINE S == {r \in DOMAIN log : log[r].key = k}
<1>1. S \subseteq Nat /\ IsFiniteSet(S)
  <2>1. S \subseteq 1 .. Len(log)
    BY Logged
  <2>2. 1 .. Len(log) \subseteq Nat /\ IsFiniteSet(1 .. Len(log))
    <3>1. 1 \in Int /\ Len(log) \in Int
      BY Logged
    <3>2. IsFiniteSet(1 .. Len(log))
      BY <3>1, FS_Interval
    <3> QED
      BY <3>1, <3>2
  <2> HIDE DEF S
  <2> QED
    BY <2>1, <2>2, FS_Subset
<1>2. /\ Latest(k) \in Nat /\ Latest(k) \in S \cup {0}
      /\ \A x \in S : x <= Latest(k)
  <2> HIDE DEF S
  <2>1. Highest(S) \in Nat /\ Highest(S) \in S \cup {0} /\ \A x \in S : x <= Highest(S)
    BY <1>1, HighestIs
  <2>2. Latest(k) = Highest(S)
    BY DEF Latest, S
  <2> QED
    BY <2>1, <2>2
<1>3. Latest(k) = 0 => S = {}
  BY <1>2, Logged
<1> QED
  BY <1>2, <1>3, Logged DEF LastOf

(* What the verdict on a record of the collection says.                        *)
LEMMA VerdictIs ==
  ASSUME TypeOK, LogInv, NEW k \in Keys, NEW p, NEW room \in 0 .. 1,
         NEW v, v = Verdict(k, p, room)
  PROVE  /\ v = "tombstoned" \/ v = "already_deleted" => Tombstoned(k)
         /\ v = "already_deleted" => p.op = "delete"
         /\ v = "delete" => p.op = "delete" /\ ~Tombstoned(k)
         /\ v = "write" => /\ p.op # "delete" /\ ~Tombstoned(k)
                           /\ Latest(k) # 0 => Latest(k) = p.base
         /\ v \in {"tombstoned", "already_deleted", "delete_rate_limited", "delete",
                   "collection_mismatch", "record_too_large", "hash_mismatch",
                   "conflict", "quota_exceeded", "write"}
<1>1. Tombstoned(k) <=> Latest(k) # 0 /\ log[Latest(k)].content = Nothing
  BY LatestIs, Logged DEF Tombstoned, LogInv, LastOf
<1>2. StoredRow(k).deleted <=> Tombstoned(k)
  BY <1>1 DEF StoredRow, ServerContent, Rules!Absent
<1>3. Rules!Exists(StoredRow(k)) <=> Latest(k) # 0
  BY LatestIs DEF StoredRow, Rules!Absent, Rules!Exists
<1>4. Latest(k) # 0 => StoredRow(k).rev = Latest(k)
  BY DEF StoredRow
<1>5. Latest(k) # 0 => StoredRow(k).collection # "providers"
  BY DEF StoredRow
<1> QED
  BY <1>1, <1>2, <1>3, <1>4, <1>5 DEF Verdict, Rules!Verdict, Rules!ProviderRepair,
     Rules!StaleBase, Rules!Spent

(* The log is only added to, never for a key that is dead.                     *)
Appends(k, c) == ~Tombstoned(k) /\ log' = Append(log, [key |-> k, content |-> c])

Grows == log' = log \/ \E k \in Keys, c \in Contents \cup {Nothing} : Appends(k, c)

(* A served record appends its change to the log, or leaves it.               *)
LEMMA ServeGrows ==
  ASSUME TypeOK, LogInv, NEW k \in Keys, NEW p, p.content \in Contents \cup {Nothing},
         NEW room \in 0 .. 1, Serve(k, p, Verdict(k, p, room))
  PROVE  Grows
BY VerdictIs DEF Serve, Commits, Grows, Appends

(* What a longer log keeps: its changes, its tombstones, the last change of a *)
(* key unless it is the new one.                                              *)
LEMMA GrownLog ==
  ASSUME TypeOK, LogInv, Grows
  PROVE  /\ log' \in Seq(Change) /\ LogInv'
         /\ Len(log') \in Nat /\ Len(log) <= Len(log') /\ DOMAIN log \subseteq DOMAIN log'
         /\ \A r \in DOMAIN log : log'[r] = log[r]
         /\ \A r \in DOMAIN log' \ DOMAIN log : r = Len(log) + 1 /\ r = Len(log')
         /\ \A k \in Keys : Tombstoned(k) => Tombstoned(k)'
         /\ \A k, r : LastOf(k, r)' => LastOf(k, r) \/ r = Len(log) + 1
<1>1. CASE log' = log
  BY <1>1, Logged DEF TypeOK, LogInv, LastOf, Tombstoned
<1>2. ASSUME NEW k \in Keys, NEW c \in Contents \cup {Nothing}, Appends(k, c)
      PROVE  /\ log' \in Seq(Change) /\ LogInv'
             /\ Len(log') \in Nat /\ Len(log) <= Len(log') /\ DOMAIN log \subseteq DOMAIN log'
             /\ \A r \in DOMAIN log : log'[r] = log[r]
             /\ \A r \in DOMAIN log' \ DOMAIN log : r = Len(log) + 1 /\ r = Len(log')
             /\ \A q \in Keys : Tombstoned(q) => Tombstoned(q)'
             /\ \A q, r : LastOf(q, r)' => LastOf(q, r) \/ r = Len(log) + 1
  <2>1. [key |-> k, content |-> c] \in Change
    BY DEF Change
  <2>2. /\ log' \in Seq(Change) /\ Len(log') = Len(log) + 1
        /\ log'[Len(log) + 1] = [key |-> k, content |-> c]
        /\ \A r \in 1 .. Len(log) : log'[r] = log[r]
    BY <1>2, <2>1 DEF Appends, TypeOK
  <2>3. /\ Len(log') \in Nat /\ Len(log) <= Len(log') /\ DOMAIN log \subseteq DOMAIN log'
        /\ \A r \in DOMAIN log : log'[r] = log[r]
        /\ \A r \in DOMAIN log' \ DOMAIN log : r = Len(log) + 1 /\ r = Len(log')
        /\ DOMAIN log' = 1 .. Len(log')
    BY <2>2, Logged
  <2>4. \A q \in Keys : Tombstoned(q) => Tombstoned(q)'
    BY <2>3 DEF Tombstoned
  <2>5. \A q, r : LastOf(q, r)' => LastOf(q, r) \/ r = Len(log) + 1
    BY <2>3 DEF LastOf
  <2>6. LogInv'
    <3>1. ASSUME NEW r \in DOMAIN log', log'[r].content = Nothing, NEW s \in DOMAIN log',
                 log'[s].key = log'[r].key
          PROVE  s <= r
      <4>1. CASE r \notin DOMAIN log
        BY <2>3, <3>1, <4>1
      <4>2. CASE r \in DOMAIN log /\ s \in DOMAIN log
        BY <2>3, <3>1, <4>2 DEF LogInv, LastOf
      <4>3. CASE r \in DOMAIN log /\ s \notin DOMAIN log
        BY <1>2, <2>2, <2>3, <3>1, <4>3 DEF Appends, Tombstoned
      <4> QED
        BY <4>1, <4>2, <4>3
    <3> QED
      BY <3>1 DEF LogInv, LastOf
  <2> QED
    BY <2>2, <2>3, <2>4, <2>5, <2>6
<1> QED
  BY <1>1, <1>2 DEF Grows

-----------------------------------------------------------------------------
(* Types, and the outbox.                                                     *)

(* The greater and the lesser of two naturals.                                *)
LEMMA Extremes ==
  ASSUME NEW a \in Nat, NEW b \in Nat
  PROVE  /\ Max({a, b}) \in {a, b} /\ Max({a, b}) \in Nat /\ Max({a, b}) >= a
              /\ Max({a, b}) >= b
         /\ Min({a, b}) \in {a, b} /\ Min({a, b}) \in Nat /\ Min({a, b}) <= a
              /\ Min({a, b}) <= b
<1>1. {a, b} \subseteq Int /\ IsFiniteSet({a, b}) /\ {a, b} # {}
  <2>1. IsFiniteSet({a}) /\ {a, b} = {a} \cup {b}
    BY FS_Singleton
  <2> QED
    BY <2>1, FS_AddElement
<1>2. Max({a, b}) \in {a, b} /\ \A y \in {a, b} : Max({a, b}) >= y
  BY <1>1, MaxIsThere
<1>3. Min({a, b}) \in {a, b} /\ \A y \in {a, b} : Min({a, b}) <= y
  BY <1>1, MinIsThere
<1> QED
  BY <1>2, <1>3

RunTyped(u) == DOMAIN u.prep \subseteq Keys /\ u \in Run(DOMAIN u.prep)

(* The types of the fields of a device and of its run.                        *)
LEMMA Fields ==
  ASSUME TypeOK, NEW d \in Devices
  PROVE  /\ db[d] \in Database /\ RunTyped(run[d])
         /\ db[d].row \in [Keys -> Contents \cup {Nothing}]
         /\ db[d].meta \in [Keys -> Nat]
         /\ db[d].base \in [Keys -> Contents \cup {Nothing}]
         /\ db[d].outbox \subseteq Entry /\ db[d].watermark \in Nat
         /\ db[d].trash \in [Keys -> Contents \cup {Nothing}]
         /\ db[d].dead \subseteq Keys /\ db[d].suppressed \in [Keys -> Nat]
         /\ DOMAIN run[d].prep \subseteq Keys
         /\ run[d].prep \in [DOMAIN run[d].prep -> Prepared]
         /\ run[d].head \in Nat /\ run[d].pushed \in Nat /\ run[d].need \in BOOLEAN
         /\ run[d].page \subseteq Nat /\ run[d].more \in BOOLEAN /\ run[d].top \in Nat
         /\ run[d].low \in Nat /\ run[d].tombs \in Nat /\ run[d].stamp \in Keys \cup {NoKey}
<1>1. db[d] \in Database
  BY DEF TypeOK
<1>2. RunTyped(run[d])
  BY DEF TypeOK, RunTyped
<1>3. /\ db[d].row \in [Keys -> Contents \cup {Nothing}]
      /\ db[d].meta \in [Keys -> Nat]
      /\ db[d].base \in [Keys -> Contents \cup {Nothing}]
      /\ db[d].outbox \subseteq Entry /\ db[d].watermark \in Nat
      /\ db[d].trash \in [Keys -> Contents \cup {Nothing}]
      /\ db[d].dead \subseteq Keys /\ db[d].suppressed \in [Keys -> Nat]
  BY <1>1 DEF Database
<1> QED
  BY <1>1, <1>2, <1>3 DEF RunTyped, Run

(* Finitely many entries have finitely many numbers.                          *)
LEMMA SeqsFinite ==
  ASSUME NEW P, IsFiniteSet(P)
  PROVE  IsFiniteSet({e.seq : e \in P})
<1> DEFINE T == {e.seq : e \in P}
           f == [e \in P |-> e.seq]
<1>1. f \in Surjection(P, T)
  BY DEF Surjection
<1> HIDE DEF f, T
<1>2. IsFiniteSet(T)
  BY <1>1, FS_Surjection
<1> QED
  BY <1>2 DEF T

(* A new entry is numbered past every entry queued or covered for its key.    *)
LEMMA FreshSeqIs ==
  ASSUME TypeOK, NEW d \in Devices, QueueInv(d), NEW k \in Keys
  PROVE  /\ FreshSeq(d, k) \in Nat
         /\ \A e \in Pending(d, k) : e.seq < FreshSeq(d, k)
         /\ k \in DOMAIN run[d].prep => \A n \in run[d].prep[k].seqs : n < FreshSeq(d, k)
<1> DEFINE A == {e.seq : e \in Pending(d, k)}
           B == UNION {run[d].prep[q].seqs : q \in {k} \cap DOMAIN run[d].prep}
<1>1. Pending(d, k) \subseteq db[d].outbox
  BY DEF Pending
<1>2. \A e \in Pending(d, k) : e.seq \in Nat
  BY <1>1, Fields DEF Entry
<1>3. IsFiniteSet(Pending(d, k))
  BY <1>1, FS_Subset DEF QueueInv
<1>4. IsFiniteSet(A)
  BY <1>3, SeqsFinite
<1>5. k \in DOMAIN run[d].prep => B = run[d].prep[k].seqs
  OBVIOUS
<1>6. k \notin DOMAIN run[d].prep => B = {}
  OBVIOUS
<1>7. IsFiniteSet(B) /\ B \subseteq Nat
  <2>1. CASE k \in DOMAIN run[d].prep
    <3>1. run[d].prep[k] \in Prepared
      BY <2>1, Fields
    <3> QED
      BY <2>1, <1>5, <3>1 DEF QueueInv, Prepared
  <2>2. CASE k \notin DOMAIN run[d].prep
    BY <2>2, <1>6, FS_EmptySet
  <2> QED
    BY <2>1, <2>2
<1>8. IsFiniteSet(A \cup B) /\ A \cup B \subseteq Nat
  BY <1>2, <1>4, <1>7, FS_Union
<1>9. Highest(A \cup B) \in Nat /\ \A x \in A \cup B : x <= Highest(A \cup B)
  <2> HIDE DEF A, B
  <2> QED
    BY <1>8, HighestIs
<1>10. FreshSeq(d, k) = 1 + Highest(A \cup B)
  BY DEF FreshSeq
<1>11. \A x \in A \cup B : x < FreshSeq(d, k)
  <2> HIDE DEF A, B
  <2>1. \A x \in A \cup B : x \in Nat /\ x <= Highest(A \cup B)
    BY <1>8, <1>9
  <2> QED
    BY <1>9, <1>10, <2>1
<1>12. FreshSeq(d, k) \in Nat
  <2> HIDE DEF A, B
  <2> QED
    BY <1>9, <1>10
<1> QED
  BY <1>5, <1>11, <1>12

(* An outbox with an entry more is an outbox still.                           *)
LEMMA QueuedIs ==
  ASSUME TypeOK, NEW d \in Devices, QueueInv(d), NEW k \in Keys, NEW op \in {"upsert", "delete"}
  PROVE  Queued(d, k, op) \subseteq Entry /\ IsFiniteSet(Queued(d, k, op))
<1>1. [seq |-> FreshSeq(d, k), key |-> k, op |-> op] \in Entry
  BY FreshSeqIs DEF Entry
<1>2. db[d].outbox \subseteq Entry /\ IsFiniteSet(db[d].outbox)
  BY Fields DEF QueueInv
<1> QED
  BY <1>1, <1>2, FS_AddElement DEF Queued

(* The runs, after that of one device is set.                                 *)
LEMMA RunSet ==
  ASSUME TypeOK, NEW d \in Devices, NEW u, RunTyped(u), run' = [run EXCEPT ![d] = u]
  PROVE  /\ DOMAIN run' = Devices /\ run'[d] = u /\ \A e \in Devices \ {d} : run'[e] = run[e]
         /\ \A e \in Devices : LET pushed == DOMAIN run'[e].prep
                               IN  pushed \subseteq Keys /\ run'[e] \in Run(pushed)
BY DEF TypeOK, RunTyped

(* The databases, after that of one device is set.                            *)
LEMMA DbSet ==
  ASSUME TypeOK, NEW d \in Devices, NEW x \in Database, db' = [db EXCEPT ![d] = x]
  PROVE  db' \in [Devices -> Database] /\ db'[d] = x /\ \A e \in Devices \ {d} : db'[e] = db[e]
BY DEF TypeOK

(* An idle engine is of the right type.                                       *)
LEMMA IdleTyped == RunTyped(Idle) /\ DOMAIN Idle.prep = {}
<1>1. Idle.prep = [k \in {} |-> Nothing]
  BY DEF Idle
<1>2. DOMAIN Idle.prep = {} /\ Idle.prep \in [{} -> Prepared]
  BY <1>1
<1> QED
  BY <1>1, <1>2 DEF RunTyped, Idle, Run

-----------------------------------------------------------------------------
(* Effects: what each action changes, the type invariant included.            *)
(* Here: the user.                                                            *)

(* What a step of device d leaves alone: the log and the other devices ...      *)
Elsewhere(d) ==
  /\ log' = log
  /\ \A e \in Devices \ {d} : db'[e] = db[e] /\ run'[e] = run[e] /\ held'[e] = held[e]

(* ... and, of d, the key q.                                                   *)
Kept(d, q) ==
  /\ db'[d].row[q] = db[d].row[q] /\ db'[d].meta[q] = db[d].meta[q]
  /\ db'[d].base[q] = db[d].base[q] /\ held'[d][q] = held[d][q]
  /\ Pending(d, q)' = Pending(d, q)

NewEntry(d, k, op) == [seq |-> FreshSeq(d, k), key |-> k, op |-> op]

(* What an entry more makes of the keys' entries.                             *)
LEMMA PendingQueued ==
  ASSUME NEW d \in Devices, NEW k \in Keys, NEW op, db'[d].outbox = Queued(d, k, op)
  PROVE  /\ Pending(d, k)' = Pending(d, k) \cup {NewEntry(d, k, op)}
         /\ \A q \in Keys \ {k} : Pending(d, q)' = Pending(d, q)
<1>1. NewEntry(d, k, op).key = k
  BY DEF NewEntry
<1>2. db'[d].outbox = db[d].outbox \cup {NewEntry(d, k, op)}
  BY DEF Queued, NewEntry
<1> QED
  BY <1>1, <1>2 DEF Pending

(* What clearing the covered entries of a key makes of the keys' entries.     *)
LEMMA PendingWithout ==
  ASSUME NEW d \in Devices, NEW k \in Keys, NEW seqs,
         db'[d].outbox = Without(db[d].outbox, k, seqs)
  PROVE  /\ Pending(d, k)' = {e \in Pending(d, k) : e.seq \notin seqs}
         /\ \A q \in Keys \ {k} : Pending(d, q)' = Pending(d, q)
BY DEF Pending, Without

(* What dropping all that is queued for a key makes of the keys' entries.     *)
LEMMA PendingDropped ==
  ASSUME NEW d \in Devices, NEW k \in Keys, db'[d].outbox = db[d].outbox \ Pending(d, k)
  PROVE  /\ Pending(d, k)' = {}
         /\ \A q \in Keys \ {k} : Pending(d, q)' = Pending(d, q)
BY DEF Pending

(* An outbox left alone leaves what is pending.                               *)
LEMMA PendingSame ==
  ASSUME NEW d \in Devices, db'[d].outbox = db[d].outbox
  PROVE  \A q \in Keys : Pending(d, q)' = Pending(d, q)
BY DEF Pending

(* What a write does.                                                         *)
LEMMA WritingEffect ==
  ASSUME TypeOK, NEW d \in Devices, NEW k \in Keys, NEW c \in Contents,
         NEW O, O \subseteq Entry, Writing(d, k, c, O)
  PROVE  /\ TypeOK' /\ Elsewhere(d) /\ run' = run /\ held' = held
         /\ db'[d].row[k] = c /\ \A q \in Keys \ {k} : db'[d].row[q] = db[d].row[q]
         /\ db'[d].meta = db[d].meta /\ db'[d].base = db[d].base /\ db'[d].outbox = O
         /\ db'[d].watermark = db[d].watermark /\ db'[d].dead = db[d].dead
<1> DEFINE R == [db[d].row EXCEPT ![k] = c]
           x == [db[d] EXCEPT !.row = R, !.outbox = O]
<1>1. R \in [Keys -> Contents \cup {Nothing}]
  BY Fields
<1>2. x \in Database /\ x.row = R /\ x.outbox = O /\ x.meta = db[d].meta /\ x.base = db[d].base
      /\ x.watermark = db[d].watermark /\ x.dead = db[d].dead
  <2> HIDE DEF R
  <2> QED
    BY <1>1, Fields DEF Database
<1>3. db' = [db EXCEPT ![d] = x]
  BY DEF Writing
<1>4. R[k] = c /\ \A q \in Keys \ {k} : R[q] = db[d].row[q]
  BY Fields
<1> HIDE DEF x, R
<1>5. db' \in [Devices -> Database] /\ db'[d] = x /\ \A e \in Devices \ {d} : db'[e] = db[e]
  BY <1>2, <1>3, DbSet
<1>6. TypeOK'
  BY <1>5 DEF TypeOK, Writing
<1> QED
  BY <1>2, <1>4, <1>5, <1>6 DEF Elsewhere, Writing

(* What a deletion does.                                                      *)
LEMMA DeleteEffect ==
  ASSUME TypeOK, NEW d \in Devices, QueueInv(d), NEW k \in Keys, Delete(d, k)
  PROVE  /\ TypeOK' /\ Elsewhere(d) /\ run' = run /\ held' = held
         /\ db'[d].row[k] = Nothing /\ \A q \in Keys \ {k} : db'[d].row[q] = db[d].row[q]
         /\ db'[d].meta = db[d].meta /\ db'[d].base = db[d].base
         /\ db'[d].outbox = Queued(d, k, "delete")
         /\ db'[d].watermark = db[d].watermark /\ db'[d].dead = db[d].dead
<1> DEFINE R == [db[d].row EXCEPT ![k] = Nothing]
           T == [db[d].trash EXCEPT ![k] = db[d].row[k]]
           O == Queued(d, k, "delete")
           x == [db[d] EXCEPT !.row = R, !.trash = T, !.outbox = O, !.dead = db[d].dead]
<1>1. R \in [Keys -> Contents \cup {Nothing}] /\ T \in [Keys -> Contents \cup {Nothing}]
  BY Fields
<1>2. O \subseteq Entry
  BY QueuedIs
<1>3. x \in Database /\ x.row = R /\ x.outbox = O /\ x.meta = db[d].meta /\ x.base = db[d].base
      /\ x.watermark = db[d].watermark /\ x.dead = db[d].dead
  <2> HIDE DEF R, T, O
  <2> QED
    BY <1>1, <1>2, Fields DEF Database
<1>4. db' = [db EXCEPT ![d] = x]
  BY DEF Delete, DeadWhileQueued
<1>5. R[k] = Nothing /\ \A q \in Keys \ {k} : R[q] = db[d].row[q]
  BY Fields
<1> HIDE DEF x, R, T, O
<1>6. db' \in [Devices -> Database] /\ db'[d] = x /\ \A e \in Devices \ {d} : db'[e] = db[e]
  BY <1>3, <1>4, DbSet
<1>7. mishaps' \in 0 .. MaxMishaps
  BY EngineAssumption DEF Delete, Mishap, TypeOK
<1>8. handles' \in [Devices -> SUBSET Keys]
  BY DEF Delete, TypeOK
<1>9. TypeOK'
  BY <1>6, <1>7, <1>8 DEF TypeOK, Delete
<1> QED
  BY <1>3, <1>5, <1>6, <1>9 DEF Elsewhere, Delete, O

(* What an undo does.                                                         *)
LEMMA UndoEffect ==
  ASSUME TypeOK, NEW d \in Devices, QueueInv(d), NEW k \in Keys, Undo(d, k)
  PROVE  /\ TypeOK' /\ Elsewhere(d) /\ run' = run /\ held' = held /\ Undos
         /\ \A q \in Keys \ {k} : db'[d].row[q] = db[d].row[q]
         /\ db'[d].meta = db[d].meta /\ db'[d].base = db[d].base
         /\ db'[d].outbox = db[d].outbox \ Pending(d, k)
         /\ db'[d].watermark <= db[d].watermark /\ db'[d].dead = db[d].dead
<1> DEFINE R == [db[d].row EXCEPT ![k] = db[d].trash[k]]
           T == [db[d].trash EXCEPT ![k] = Nothing]
           S == [db[d].suppressed EXCEPT ![k] = 0]
           O == db[d].outbox \ Pending(d, k)
           W == Rewound(d, k)
           x == [db[d] EXCEPT !.row = R, !.trash = T, !.outbox = O, !.suppressed = S,
             !.watermark = W]
<1>1. /\ R \in [Keys -> Contents \cup {Nothing}] /\ T \in [Keys -> Contents \cup {Nothing}]
      /\ S \in [Keys -> Nat]
  BY Fields
<1>2. O \subseteq Entry
  BY Fields
<1>3. W \in Nat /\ W <= db[d].watermark
  <2>1. db[d].watermark \in Nat /\ db[d].suppressed[k] \in Nat
    BY Fields
  <2>2. CASE db[d].suppressed[k] = 0
    BY <2>1, <2>2 DEF Rewound
  <2>3. CASE db[d].suppressed[k] # 0
    <3>1. db[d].suppressed[k] - 1 \in Nat
      BY <2>1, <2>3
    <3>2. /\ Min({db[d].watermark, db[d].suppressed[k] - 1}) \in Nat
          /\ Min({db[d].watermark, db[d].suppressed[k] - 1}) <= db[d].watermark
      BY <2>1, <3>1, Extremes
    <3> QED
      BY <2>3, <3>2 DEF Rewound
  <2> QED
    BY <2>2, <2>3
<1>4. x \in Database /\ x.row = R /\ x.outbox = O /\ x.meta = db[d].meta /\ x.base = db[d].base
      /\ x.watermark = W /\ x.dead = db[d].dead
  <2> HIDE DEF R, T, O, S, W
  <2> QED
    BY <1>1, <1>2, <1>3, Fields DEF Database
<1>5. db' = [db EXCEPT ![d] = x]
  BY ZenonT(60) DEF Undo
<1>6. \A q \in Keys \ {k} : R[q] = db[d].row[q]
  BY Fields
<1> HIDE DEF x, R, T, O, S, W
<1>7. db' \in [Devices -> Database] /\ db'[d] = x /\ \A e \in Devices \ {d} : db'[e] = db[e]
  BY <1>4, <1>5, DbSet
<1>8. mishaps' \in 0 .. MaxMishaps
  BY EngineAssumption DEF Undo, Mishap, TypeOK
<1>9. handles' \in [Devices -> SUBSET Keys]
  BY DEF Undo, TypeOK
<1>10. TypeOK'
  BY <1>7, <1>8, <1>9 DEF TypeOK, Undo
<1> QED
  BY <1>3, <1>4, <1>6, <1>7, <1>10 DEF Elsewhere, Undo, O

-----------------------------------------------------------------------------
(* Effects: the answers to a push.                                            *)

(* A run with other sealed records is of the right type.                      *)
LEMMA PrepTyped ==
  ASSUME NEW u, RunTyped(u), NEW P, DOMAIN P \subseteq Keys, P \in [DOMAIN P -> Prepared]
  PROVE  RunTyped([u EXCEPT !.prep = P])
BY DEF RunTyped, Run

(* What taking an answered record out of a run does.                          *)
LEMMA TakenEffect ==
  ASSUME TypeOK, NEW d \in Devices, NEW k \in DOMAIN run[d].prep, Taken(d, k)
  PROVE  /\ DOMAIN run' = Devices
         /\ \A e \in Devices \ {d} : run'[e] = run[e]
         /\ \A e \in Devices : LET pushed == DOMAIN run'[e].prep
                               IN  pushed \subseteq Keys /\ run'[e] \in Run(pushed)
         /\ run'[d].pc = run[d].pc /\ DOMAIN run'[d].prep = DOMAIN run[d].prep \ {k}
         /\ \A q \in DOMAIN run[d].prep \ {k} : run'[d].prep[q] = run[d].prep[q]
<1> DEFINE P == Others(d, k)
           u == [run[d] EXCEPT !.prep = P]
<1>1. /\ DOMAIN P = DOMAIN run[d].prep \ {k}
      /\ \A q \in DOMAIN P : P[q] = run[d].prep[q]
      /\ P = [q \in DOMAIN P |-> P[q]]
  BY DEF Others, Restrict
<1>2. DOMAIN P \subseteq Keys /\ P \in [DOMAIN P -> Prepared]
  <2> HIDE DEF P
  <2> QED
    BY <1>1, Fields
<1>3. RunTyped(u) /\ u.pc = run[d].pc /\ u.prep = P
  <2> HIDE DEF P
  <2>1. RunTyped(run[d])
    BY Fields
  <2>2. RunTyped(u)
    BY <1>2, <2>1, PrepTyped
  <2> QED
    BY <2>2, Fields DEF RunTyped, Run
<1>4. run' = [run EXCEPT ![d] = u]
  BY DEF Taken
<1> HIDE DEF u, P
<1>5. /\ DOMAIN run' = Devices /\ run'[d] = u /\ \A e \in Devices \ {d} : run'[e] = run[e]
      /\ \A e \in Devices : LET pushed == DOMAIN run'[e].prep
                            IN  pushed \subseteq Keys /\ run'[e] \in Run(pushed)
  BY <1>3, <1>4, RunSet
<1> QED
  BY <1>1, <1>3, <1>5

(* The fields of a sealed record.                                             *)
LEMMA PreparedIs ==
  ASSUME TypeOK, NEW d \in Devices, NEW k \in DOMAIN run[d].prep
  PROVE  /\ k \in Keys /\ run[d].prep[k] \in Prepared
         /\ run[d].prep[k].rev \in Nat /\ run[d].prep[k].base \in Nat
         /\ run[d].prep[k].content \in Contents \cup {Nothing}
         /\ run[d].prep[k].seqs \subseteq Nat
         /\ run[d].prep[k].op \in {"upsert", "delete"}
         /\ run[d].prep[k].answer \in {"none", "ok", "conflict", "tombstoned", "read", "error"}
<1>1. k \in Keys /\ run[d].prep[k] \in Prepared
  BY Fields
<1> QED
  BY <1>1 DEF Prepared

(* What the acknowledgement of an upsert does.                                *)
LEMMA AckUpsertEffect ==
  ASSUME TypeOK, NEW d \in Devices, NEW k \in Keys, AckUpsert(d, k)
  PROVE  /\ TypeOK' /\ Elsewhere(d)
         /\ run'[d].pc = "push" /\ run[d].pc = "push" /\ k \in DOMAIN run[d].prep
         /\ DOMAIN run'[d].prep = DOMAIN run[d].prep \ {k}
         /\ \A q \in DOMAIN run[d].prep \ {k} : run'[d].prep[q] = run[d].prep[q]
         /\ db'[d].row = db[d].row /\ db'[d].watermark = db[d].watermark
              /\ db'[d].dead = db[d].dead
         /\ db'[d].meta[k] = IF run[d].prep[k].rev > db[d].meta[k] THEN run[d].prep[k].rev
              ELSE db[d].meta[k]
         /\ db'[d].base[k] = IF run[d].prep[k].rev > db[d].meta[k]
              THEN run[d].prep[k].content ELSE db[d].base[k]
         /\ \A q \in Keys \ {k} : db'[d].meta[q] = db[d].meta[q]
              /\ db'[d].base[q] = db[d].base[q]
         /\ held'[d][k] = run[d].prep[k].rev /\ \A q \in Keys \ {k} : held'[d][q] = held[d][q]
         /\ db'[d].outbox = Without(db[d].outbox, k, run[d].prep[k].seqs)
<1>0. k \in DOMAIN run[d].prep /\ Taken(d, k) /\ run[d].pc = "push"
  BY DEF AckUpsert, Answered
<1> DEFINE M == [db[d].meta EXCEPT ![k] = IF run[d].prep[k].rev > db[d].meta[k]
             THEN run[d].prep[k].rev ELSE db[d].meta[k]]
           B == [db[d].base EXCEPT ![k] = IF run[d].prep[k].rev > db[d].meta[k]
             THEN run[d].prep[k].content ELSE db[d].base[k]]
           O == Without(db[d].outbox, k, run[d].prep[k].seqs)
           x == [db[d] EXCEPT !.meta = M, !.base = B, !.outbox = O]
<1>1. M \in [Keys -> Nat] /\ B \in [Keys -> Contents \cup {Nothing}]
  BY <1>0, Fields, PreparedIs
<1>2. O \subseteq Entry
  BY Fields DEF Without
<1>3. x \in Database
  <2>1. db[d] \in Database
    BY Fields
  <2> HIDE DEF M, B, O
  <2> QED
    BY <2>1, <1>1, <1>2 DEF Database
<1>4. x.meta = M /\ x.base = B /\ x.outbox = O /\ x.row = db[d].row
        /\ x.watermark = db[d].watermark /\ x.dead = db[d].dead
  <2> HIDE DEF M, B, O
  <2> QED
    BY Fields DEF Database
<1>5. db' = [db EXCEPT ![d] = x]
  BY DEF AckUpsert, Covered
<1>6. M[k] = (IF run[d].prep[k].rev > db[d].meta[k] THEN run[d].prep[k].rev
        ELSE db[d].meta[k])
        /\ B[k] = (IF run[d].prep[k].rev > db[d].meta[k] THEN run[d].prep[k].content
        ELSE db[d].base[k])
  BY Fields
<1>7. \A q \in Keys \ {k} : M[q] = db[d].meta[q] /\ B[q] = db[d].base[q]
  BY Fields
<1> HIDE DEF x, M, B, O
<1>8. db' \in [Devices -> Database] /\ db'[d] = x /\ \A e \in Devices \ {d} : db'[e] = db[e]
  BY <1>3, <1>5, DbSet
<1>9. held' \in [Devices -> [Keys -> Nat]] /\ held'[d][k] = run[d].prep[k].rev
        /\ (\A q \in Keys \ {k} : held'[d][q] = held[d][q])
        /\ (\A e \in Devices \ {d} : held'[e] = held[e])
  BY <1>0, PreparedIs DEF AckUpsert, TypeOK
<1>10. TypeOK'
  BY <1>8, <1>9, <1>0, TakenEffect DEF TypeOK, AckUpsert, Answered
<1>11. Elsewhere(d)
  <2>1. log' = log
    BY DEF AckUpsert, Answered
  <2>2. \A e \in Devices \ {d} : run'[e] = run[e]
    BY <1>0, TakenEffect DEF AckUpsert, Answered
  <2> QED
    BY <1>8, <1>9, <2>1, <2>2 DEF Elsewhere
<1>12. db'[d].row = x.row /\ db'[d].meta = x.meta /\ db'[d].base = x.base
         /\ db'[d].outbox = x.outbox /\ db'[d].watermark = x.watermark /\ db'[d].dead = x.dead
  BY <1>8
<1> USE DEF O
<1> QED
  BY <1>4, <1>6, <1>7, <1>9, <1>10, <1>11, <1>12, <1>0, TakenEffect

(* What the acknowledgement of a deletion does.                               *)
LEMMA AckDeleteEffect ==
  ASSUME TypeOK, NEW d \in Devices, NEW k \in Keys, AckDelete(d, k)
  PROVE  /\ TypeOK' /\ Elsewhere(d)
         /\ run'[d].pc = "push" /\ run[d].pc = "push" /\ k \in DOMAIN run[d].prep
         /\ DOMAIN run'[d].prep = DOMAIN run[d].prep \ {k}
         /\ \A q \in DOMAIN run[d].prep \ {k} : run'[d].prep[q] = run[d].prep[q]
         /\ db'[d].watermark = db[d].watermark /\ db'[d].dead = db[d].dead \cup {k}
         /\ db'[d].meta[k] = 0 /\ held'[d][k] = 0
         /\ \A q \in Keys \ {k} : db'[d].meta[q] = db[d].meta[q]
              /\ db'[d].base[q] = db[d].base[q]
         /\ \A q \in Keys \ {k} : held'[d][q] = held[d][q]
         /\ db'[d].row = db[d].row
         /\ db'[d].outbox = Without(db[d].outbox, k, run[d].prep[k].seqs)
<1>0. k \in DOMAIN run[d].prep /\ Taken(d, k) /\ run[d].pc = "push"
  BY DEF AckDelete, Answered
<1> DEFINE M == [db[d].meta EXCEPT ![k] = 0]
           B == [db[d].base EXCEPT ![k] = Nothing]
           D == db[d].dead \cup {k}
           O == Without(db[d].outbox, k, run[d].prep[k].seqs)
           S == [db[d].suppressed EXCEPT ![k] = 0]
           x == [db[d] EXCEPT !.meta = M, !.base = B, !.dead = D, !.outbox = O,
             !.suppressed = S]
<1>1. M \in [Keys -> Nat] /\ B \in [Keys -> Contents \cup {Nothing}] /\ S \in [Keys -> Nat]
  BY Fields
<1>2. O \subseteq Entry /\ D \subseteq Keys
  BY Fields DEF Without
<1>3. x \in Database
  <2>1. db[d] \in Database
    BY Fields
  <2> HIDE DEF M, B, D, O, S
  <2> QED
    BY <2>1, <1>1, <1>2 DEF Database
<1>4. x.meta = M /\ x.base = B /\ x.dead = D /\ x.outbox = O /\ x.row = db[d].row
        /\ x.watermark = db[d].watermark
  <2> HIDE DEF M, B, D, O, S
  <2> QED
    BY Fields DEF Database
<1>5. db' = [db EXCEPT ![d] = x]
  BY DEF AckDelete, Covered, Buried
<1>6. M[k] = 0 /\ \A q \in Keys \ {k} : M[q] = db[d].meta[q] /\ B[q] = db[d].base[q]
  BY Fields
<1> HIDE DEF x, M, B, D, O, S
<1>7. db' \in [Devices -> Database] /\ db'[d] = x /\ \A e \in Devices \ {d} : db'[e] = db[e]
  BY <1>3, <1>5, DbSet
<1>8. held' \in [Devices -> [Keys -> Nat]] /\ held'[d][k] = 0
        /\ (\A q \in Keys \ {k} : held'[d][q] = held[d][q])
        /\ (\A e \in Devices \ {d} : held'[e] = held[e])
  BY DEF AckDelete, TypeOK
<1>9. TypeOK'
  BY <1>7, <1>8, <1>0, TakenEffect DEF TypeOK, AckDelete, Answered
<1>10. Elsewhere(d)
  <2>1. log' = log
    BY DEF AckDelete, Answered
  <2>2. \A e \in Devices \ {d} : run'[e] = run[e]
    BY <1>0, TakenEffect DEF AckDelete, Answered
  <2> QED
    BY <1>7, <1>8, <2>1, <2>2 DEF Elsewhere
<1>11. db'[d].row = x.row /\ db'[d].meta = x.meta /\ db'[d].base = x.base
         /\ db'[d].outbox = x.outbox /\ db'[d].watermark = x.watermark /\ db'[d].dead = x.dead
  BY <1>7
<1> USE DEF O, D
<1> QED
  BY <1>4, <1>6, <1>8, <1>9, <1>10, <1>11, <1>0, TakenEffect

(* What a refusal for a tombstone does, in its second transaction.            *)
LEMMA AckTombstonedEffect ==
  ASSUME TypeOK, NEW d \in Devices, NEW k \in Keys, AckTombstoned(d, k)
  PROVE  /\ TypeOK' /\ Elsewhere(d)
         /\ run'[d].pc = "push" /\ run[d].pc = "push" /\ k \in DOMAIN run[d].prep
         /\ DOMAIN run'[d].prep = DOMAIN run[d].prep \ {k}
         /\ \A q \in DOMAIN run[d].prep \ {k} : run'[d].prep[q] = run[d].prep[q]
         /\ db'[d].watermark = db[d].watermark /\ db'[d].dead = db[d].dead \cup {k}
         /\ db'[d].meta[k] = 0 /\ held'[d][k] = 0
         /\ \A q \in Keys \ {k} : db'[d].meta[q] = db[d].meta[q]
              /\ db'[d].base[q] = db[d].base[q]
         /\ \A q \in Keys \ {k} : held'[d][q] = held[d][q]
         /\ db'[d].row[k] = Nothing \/ db'[d].row[k] = db[d].row[k]
         /\ \A q \in Keys \ {k} : db'[d].row[q] = db[d].row[q]
         /\ db'[d].outbox = Without(db[d].outbox, k, run[d].prep[k].seqs)
<1>0. k \in DOMAIN run[d].prep /\ Taken(d, k) /\ run[d].pc = "push"
  BY DEF AckTombstoned, Answered
<1> DEFINE M == [db[d].meta EXCEPT ![k] = 0]
           B == [db[d].base EXCEPT ![k] = Nothing]
           D == db[d].dead \cup {k}
           R == [db[d].row EXCEPT ![k] = IF run[d].prep[k].content # Nothing THEN Nothing
             ELSE db[d].row[k]]
           T == [db[d].trash EXCEPT ![k] = IF run[d].prep[k].content # Nothing
             THEN run[d].prep[k].content ELSE db[d].trash[k]]
           O == Without(db[d].outbox, k, run[d].prep[k].seqs)
           S == [db[d].suppressed EXCEPT ![k] = 0]
           x == [db[d] EXCEPT !.meta = M, !.base = B, !.dead = D, !.row = R, !.trash = T,
             !.outbox = O, !.suppressed = S]
<1>1. M \in [Keys -> Nat] /\ B \in [Keys -> Contents \cup {Nothing}] /\ S \in [Keys -> Nat]
  BY Fields
<1>2. R \in [Keys -> Contents \cup {Nothing}] /\ T \in [Keys -> Contents \cup {Nothing}]
  BY <1>0, Fields, PreparedIs
<1>3. O \subseteq Entry /\ D \subseteq Keys
  BY Fields DEF Without
<1>4. x \in Database
  <2>1. db[d] \in Database
    BY Fields
  <2> HIDE DEF M, B, D, R, T, O, S
  <2> QED
    BY <2>1, <1>1, <1>2, <1>3 DEF Database
<1>5. x.meta = M /\ x.base = B /\ x.dead = D /\ x.row = R /\ x.outbox = O
        /\ x.watermark = db[d].watermark
  <2> HIDE DEF M, B, D, R, T, O, S
  <2> QED
    BY Fields DEF Database
<1>6. db' = [db EXCEPT ![d] = x]
  BY DEF AckTombstoned, Covered, Buried
<1>7. M[k] = 0 /\ \A q \in Keys \ {k} : M[q] = db[d].meta[q] /\ B[q] = db[d].base[q]
  BY Fields
<1>8. (R[k] = Nothing \/ R[k] = db[d].row[k]) /\ \A q \in Keys \ {k} : R[q] = db[d].row[q]
  BY Fields
<1> HIDE DEF x, M, B, D, R, T, O, S
<1>9. db' \in [Devices -> Database] /\ db'[d] = x /\ \A e \in Devices \ {d} : db'[e] = db[e]
  BY <1>4, <1>6, DbSet
<1>10. held' \in [Devices -> [Keys -> Nat]] /\ held'[d][k] = 0
         /\ (\A q \in Keys \ {k} : held'[d][q] = held[d][q])
         /\ (\A e \in Devices \ {d} : held'[e] = held[e])
  BY DEF AckTombstoned, TypeOK
<1>11. TypeOK'
  BY <1>9, <1>10, <1>0, TakenEffect DEF TypeOK, AckTombstoned, Answered
<1>12. Elsewhere(d)
  <2>1. log' = log
    BY DEF AckTombstoned, Answered
  <2>2. \A e \in Devices \ {d} : run'[e] = run[e]
    BY <1>0, TakenEffect DEF AckTombstoned, Answered
  <2> QED
    BY <1>9, <1>10, <2>1, <2>2 DEF Elsewhere
<1>13. db'[d].row = x.row /\ db'[d].meta = x.meta /\ db'[d].base = x.base
         /\ db'[d].outbox = x.outbox /\ db'[d].watermark = x.watermark /\ db'[d].dead = x.dead
  BY <1>9
<1> USE DEF O, D
<1> QED
  BY <1>5, <1>7, <1>8, <1>10, <1>11, <1>12, <1>13, <1>0, TakenEffect

-----------------------------------------------------------------------------
(* Effects: on the run alone.                                                 *)

(* What being done with a change of a page does to the run.                   *)
LEMMA AppliedEffect ==
  ASSUME TypeOK, NEW d \in Devices, NEW r \in Nat, NEW k \in Keys \cup {NoKey},
         Applied(d, r, k)
  PROVE  /\ DOMAIN run' = Devices
         /\ \A e \in Devices \ {d} : run'[e] = run[e]
         /\ \A e \in Devices : LET pushed == DOMAIN run'[e].prep
                               IN  pushed \subseteq Keys /\ run'[e] \in Run(pushed)
         /\ run'[d].page = run[d].page \ {r} /\ run'[d].top = r /\ run'[d].low = run[d].low
         /\ run'[d].stamp = k /\ run'[d].prep = run[d].prep
         /\ run'[d].pc = IF k = NoKey THEN "apply" ELSE "stamp"
<1> DEFINE N == IF log[r].content = Nothing THEN run[d].tombs + 1 ELSE run[d].tombs
           P == IF k = NoKey THEN "apply" ELSE "stamp"
           Q == run[d].page \ {r}
           u == [run[d] EXCEPT !.page = Q, !.top = r, !.tombs = N, !.pc = P, !.stamp = k]
<1>1. N \in Nat
  BY Fields
<1>2. P \in {"idle", "push", "pull", "apply", "stamp"}
  OBVIOUS
<1>3. RunTyped(u)
  <2>1. Q \subseteq Nat
    BY Fields
  <2>2. RunTyped(run[d])
    BY Fields
  <2> HIDE DEF N, P, Q
  <2>3. u.prep = run[d].prep
    BY <2>2 DEF RunTyped, Run
  <2> QED
    BY <1>1, <1>2, <2>1, <2>2, <2>3 DEF RunTyped, Run
<1>4. /\ u.page = run[d].page \ {r} /\ u.top = r /\ u.low = run[d].low
      /\ u.stamp = k /\ u.prep = run[d].prep /\ u.pc = P
  <2> HIDE DEF N, P
  <2> QED
    BY Fields DEF RunTyped, Run
<1>5. run' = [run EXCEPT ![d] = u]
  BY DEF Applied
<1> HIDE DEF u
<1> QED
  BY <1>3, <1>4, <1>5, RunSet

(* What letting go of the lock does to the run.                               *)
LEMMA IdleEffect ==
  ASSUME TypeOK, NEW d \in Devices, run' = [run EXCEPT ![d] = Idle]
  PROVE  /\ DOMAIN run' = Devices
         /\ \A e \in Devices \ {d} : run'[e] = run[e]
         /\ \A e \in Devices : LET pushed == DOMAIN run'[e].prep
                               IN  pushed \subseteq Keys /\ run'[e] \in Run(pushed)
         /\ run'[d].pc = "idle" /\ DOMAIN run'[d].prep = {}
<1> DEFINE u == Idle
<1>1. RunTyped(u)
  BY Fields, IdleTyped DEF RunTyped, Run, Idle
<1>2. u.pc = "idle" /\ DOMAIN u.prep = {}
  BY Fields, IdleTyped DEF Run, RunTyped, Idle
<1>3. run' = [run EXCEPT ![d] = u]
  BY DEF Idle
<1> HIDE DEF u
<1> QED
  BY <1>1, <1>2, <1>3, RunSet

(* What the end of a drain does to the run.                                   *)
LEMMA EndDrainRun ==
  ASSUME TypeOK, NEW d \in Devices, NEW c,
         run' = [run EXCEPT ![d] = IF c THEN [Idle EXCEPT !.pc = "pull"] ELSE Idle]
  PROVE  /\ DOMAIN run' = Devices
         /\ \A e \in Devices \ {d} : run'[e] = run[e]
         /\ \A e \in Devices : LET pushed == DOMAIN run'[e].prep
                               IN  pushed \subseteq Keys /\ run'[e] \in Run(pushed)
         /\ run'[d].pc \in {"idle", "pull"} /\ DOMAIN run'[d].prep = {}
<1> DEFINE u == IF c THEN [Idle EXCEPT !.pc = "pull"] ELSE Idle
<1>1. RunTyped(u)
  BY Fields, IdleTyped DEF RunTyped, Run, Idle
<1>2. u.pc \in {"idle", "pull"} /\ DOMAIN u.prep = {}
  BY Fields, IdleTyped DEF Run, RunTyped, Idle
<1>3. run' = [run EXCEPT ![d] = u]
  BY DEF Idle
<1> HIDE DEF u
<1> QED
  BY <1>1, <1>2, <1>3, RunSet

(* What the end of a page does to the run.                                    *)
LEMMA FinishRun ==
  ASSUME TypeOK, NEW d \in Devices,
         run' = [run EXCEPT ![d] = IF run[d].more THEN [Idle EXCEPT !.pc = "pull",
         !.tombs = run[d].tombs] ELSE Idle]
  PROVE  /\ DOMAIN run' = Devices
         /\ \A e \in Devices \ {d} : run'[e] = run[e]
         /\ \A e \in Devices : LET pushed == DOMAIN run'[e].prep
                               IN  pushed \subseteq Keys /\ run'[e] \in Run(pushed)
         /\ run'[d].pc \in {"idle", "pull"} /\ DOMAIN run'[d].prep = {}
<1> DEFINE u == IF run[d].more THEN [Idle EXCEPT !.pc = "pull", !.tombs = run[d].tombs]
             ELSE Idle
<1>1. RunTyped(u)
  BY ZenonT(60), Fields, IdleTyped DEF RunTyped, Run, Idle
<1>2. u.pc \in {"idle", "pull"} /\ DOMAIN u.prep = {}
  BY Fields, IdleTyped DEF Run, RunTyped, Idle
<1>3. run' = [run EXCEPT ![d] = u]
  BY DEF Idle
<1> HIDE DEF u
<1> QED
  BY <1>1, <1>2, <1>3, RunSet

(* What a cycle that starts with a pull does to the run.                      *)
LEMMA StartPullRun ==
  ASSUME TypeOK, NEW d \in Devices, StartPull(d)
  PROVE  /\ DOMAIN run' = Devices
         /\ \A e \in Devices \ {d} : run'[e] = run[e]
         /\ \A e \in Devices : LET pushed == DOMAIN run'[e].prep
                               IN  pushed \subseteq Keys /\ run'[e] \in Run(pushed)
         /\ run'[d].pc = "pull" /\ run'[d].prep = run[d].prep
<1> DEFINE u == [run[d] EXCEPT !.pc = "pull"]
<1>1. RunTyped(u)
  BY Fields, IdleTyped DEF RunTyped, Run, Idle
<1>2. u.pc = "pull" /\ u.prep = run[d].prep
  BY Fields, IdleTyped DEF Run, RunTyped, Idle
<1>3. run' = [run EXCEPT ![d] = u]
  BY DEF StartPull
<1> HIDE DEF u
<1> QED
  BY <1>1, <1>2, <1>3, RunSet

(* What a fetched page does to the run.                                       *)
LEMMA FetchRun ==
  ASSUME TypeOK, NEW d \in Devices, NEW page, page \subseteq Nat, NEW more \in BOOLEAN,
         run' = [run EXCEPT ![d].pc = "apply", ![d].page = page, ![d].more = more,
           ![d].top = db[d].watermark, ![d].low = 0]
  PROVE  /\ DOMAIN run' = Devices
         /\ \A e \in Devices \ {d} : run'[e] = run[e]
         /\ \A e \in Devices : LET pushed == DOMAIN run'[e].prep
                               IN  pushed \subseteq Keys /\ run'[e] \in Run(pushed)
         /\ run'[d].pc = "apply" /\ run'[d].prep = run[d].prep /\ run'[d].page = page
              /\ run'[d].top = db[d].watermark /\ run'[d].low = 0
<1> DEFINE u == [run[d] EXCEPT !.pc = "apply", !.page = page, !.more = more,
             !.top = db[d].watermark, !.low = 0]
<1>1. RunTyped(u)
  BY Fields, IdleTyped DEF RunTyped, Run, Idle
<1>2. u.pc = "apply" /\ u.prep = run[d].prep /\ u.page = page /\ u.top = db[d].watermark
        /\ u.low = 0
  BY Fields, IdleTyped DEF Run, RunTyped, Idle
<1>3. run' = [run EXCEPT ![d] = u]
  BY DEF Idle
<1> HIDE DEF u
<1> QED
  BY <1>1, <1>2, <1>3, RunSet

(* What a deferred tombstone does to the run.                                 *)
LEMMA DeferRun ==
  ASSUME TypeOK, NEW d \in Devices, NEW r \in Nat, NEW low \in Nat,
         run' = [run EXCEPT ![d].page = @ \ {r}, ![d].more = FALSE, ![d].low = low]
  PROVE  /\ DOMAIN run' = Devices
         /\ \A e \in Devices \ {d} : run'[e] = run[e]
         /\ \A e \in Devices : LET pushed == DOMAIN run'[e].prep
                               IN  pushed \subseteq Keys /\ run'[e] \in Run(pushed)
         /\ run'[d].pc = run[d].pc /\ run'[d].prep = run[d].prep
              /\ run'[d].page = run[d].page \ {r} /\ run'[d].top = run[d].top
              /\ run'[d].low = low
<1> DEFINE u == [run[d] EXCEPT !.page = run[d].page \ {r}, !.more = FALSE, !.low = low]
<1>1. RunTyped(u)
  BY Fields, IdleTyped DEF RunTyped, Run, Idle
<1>2. u.pc = run[d].pc /\ u.prep = run[d].prep /\ u.page = run[d].page \ {r}
        /\ u.top = run[d].top /\ u.low = low
  BY Fields, IdleTyped DEF Run, RunTyped, Idle
<1>3. run' = [run EXCEPT ![d] = u]
  BY DEF Idle
<1> HIDE DEF u
<1> QED
  BY <1>1, <1>2, <1>3, RunSet

(* What the stamp of a baseline does to the run.                              *)
LEMMA StampRun ==
  ASSUME TypeOK, NEW d \in Devices, Stamp(d)
  PROVE  /\ DOMAIN run' = Devices
         /\ \A e \in Devices \ {d} : run'[e] = run[e]
         /\ \A e \in Devices : LET pushed == DOMAIN run'[e].prep
                               IN  pushed \subseteq Keys /\ run'[e] \in Run(pushed)
         /\ run'[d].pc = "apply" /\ run'[d].prep = run[d].prep /\ run'[d].page = run[d].page
              /\ run'[d].top = run[d].top /\ run'[d].low = run[d].low
<1> DEFINE u == [run[d] EXCEPT !.pc = "apply", !.stamp = NoKey]
<1>1. RunTyped(u)
  BY Fields, IdleTyped DEF RunTyped, Run, Idle
<1>2. u.pc = "apply" /\ u.prep = run[d].prep /\ u.page = run[d].page /\ u.top = run[d].top
        /\ u.low = run[d].low
  BY Fields, IdleTyped DEF Run, RunTyped, Idle
<1>3. run' = [run EXCEPT ![d] = u]
  BY DEF Stamp
<1> HIDE DEF u
<1> QED
  BY <1>1, <1>2, <1>3, RunSet

(* What a conflict does to the run.                                           *)
LEMMA ConflictRun ==
  ASSUME TypeOK, NEW d \in Devices, NEW P, DOMAIN P \subseteq Keys,
         P \in [DOMAIN P -> Prepared],
         run' = [run EXCEPT ![d].need = TRUE, ![d].prep = P]
  PROVE  /\ DOMAIN run' = Devices
         /\ \A e \in Devices \ {d} : run'[e] = run[e]
         /\ \A e \in Devices : LET pushed == DOMAIN run'[e].prep
                               IN  pushed \subseteq Keys /\ run'[e] \in Run(pushed)
         /\ run'[d].pc = run[d].pc /\ run'[d].prep = P
<1> DEFINE u == [run[d] EXCEPT !.need = TRUE, !.prep = P]
<1>1. RunTyped(u)
  BY Fields, IdleTyped DEF RunTyped, Run, Idle
<1>2. u.pc = run[d].pc /\ u.prep = P
  BY Fields, IdleTyped DEF Run, RunTyped, Idle
<1>3. run' = [run EXCEPT ![d] = u]
  BY DEF Idle
<1> HIDE DEF u
<1> QED
  BY <1>1, <1>2, <1>3, RunSet

(* What other sealed records make of the run.                                 *)
LEMMA PrepRun ==
  ASSUME TypeOK, NEW d \in Devices, NEW P, DOMAIN P \subseteq Keys,
         P \in [DOMAIN P -> Prepared],
         run' = [run EXCEPT ![d].prep = P]
  PROVE  /\ DOMAIN run' = Devices
         /\ \A e \in Devices \ {d} : run'[e] = run[e]
         /\ \A e \in Devices : LET pushed == DOMAIN run'[e].prep
                               IN  pushed \subseteq Keys /\ run'[e] \in Run(pushed)
         /\ run'[d].pc = run[d].pc /\ run'[d].prep = P
<1> DEFINE u == [run[d] EXCEPT !.prep = P]
<1>1. RunTyped(u)
  BY Fields, IdleTyped DEF RunTyped, Run, Idle
<1>2. u.pc = run[d].pc /\ u.prep = P
  BY Fields, IdleTyped DEF Run, RunTyped, Idle
<1>3. run' = [run EXCEPT ![d] = u]
  BY DEF Idle
<1> HIDE DEF u
<1> QED
  BY <1>1, <1>2, <1>3, RunSet

(* What an answer makes of the run.                                           *)
LEMMA CommitRun ==
  ASSUME TypeOK, NEW d \in Devices, NEW P, DOMAIN P \subseteq Keys,
         P \in [DOMAIN P -> Prepared], NEW h \in Nat, NEW n \in Nat,
         run' = [run EXCEPT ![d].prep = P, ![d].head = h, ![d].pushed = n]
  PROVE  /\ DOMAIN run' = Devices
         /\ \A e \in Devices \ {d} : run'[e] = run[e]
         /\ \A e \in Devices : LET pushed == DOMAIN run'[e].prep
                               IN  pushed \subseteq Keys /\ run'[e] \in Run(pushed)
         /\ run'[d].pc = run[d].pc /\ run'[d].prep = P
<1> DEFINE u == [run[d] EXCEPT !.prep = P, !.head = h, !.pushed = n]
<1>1. RunTyped(u)
  BY Fields, IdleTyped DEF RunTyped, Run, Idle
<1>2. u.pc = run[d].pc /\ u.prep = P
  BY Fields, IdleTyped DEF Run, RunTyped, Idle
<1>3. run' = [run EXCEPT ![d] = u]
  BY DEF Idle
<1> HIDE DEF u
<1> QED
  BY <1>1, <1>2, <1>3, RunSet

(* What the start of a drain makes of the run.                                *)
LEMMA DrainRun ==
  ASSUME TypeOK, NEW d \in Devices, NEW P, DOMAIN P \subseteq Keys,
         P \in [DOMAIN P -> Prepared],
         run' = [run EXCEPT ![d] = [Idle EXCEPT !.pc = "push", !.prep = P]]
  PROVE  /\ DOMAIN run' = Devices
         /\ \A e \in Devices \ {d} : run'[e] = run[e]
         /\ \A e \in Devices : LET pushed == DOMAIN run'[e].prep
                               IN  pushed \subseteq Keys /\ run'[e] \in Run(pushed)
         /\ run'[d].pc = "push" /\ run'[d].prep = P
<1> DEFINE u == [Idle EXCEPT !.pc = "push", !.prep = P]
<1>1. RunTyped(u)
  BY Fields, IdleTyped DEF RunTyped, Run, Idle
<1>2. u.pc = "push" /\ u.prep = P
  BY Fields, IdleTyped DEF Run, RunTyped, Idle
<1>3. run' = [run EXCEPT ![d] = u]
  BY DEF Idle
<1> HIDE DEF u
<1> QED
  BY <1>1, <1>2, <1>3, RunSet

-----------------------------------------------------------------------------
(* Effects: the changes of a page.                                            *)

(* The change being applied is the lowest left of the page.                   *)
LEMMA ApplyingIs ==
  ASSUME TypeOK, NEW d \in Devices, PageInv(d), NEW r, NEW k, NEW c, Applying(d, r, k, c)
  PROVE  /\ run[d].pc = "apply" /\ r \in run[d].page /\ r \in DOMAIN log /\ r \in Nat
         /\ k = log[r].key /\ c = log[r].content /\ k \in Keys /\ c \in Contents \cup {Nothing}
         /\ \A t \in run[d].page : r <= t
<1>1. run[d].page \subseteq 1 .. Len(log)
  BY Logged DEF PageInv, Applying, InPage
<1>2. IsFiniteSet(1 .. Len(log))
  BY Logged, FS_Interval
<1>3. IsFiniteSet(run[d].page) /\ run[d].page # {} /\ run[d].page \subseteq Int
  BY <1>1, <1>2, FS_Subset DEF Applying, InPage
<1>4. r \in run[d].page /\ \A t \in run[d].page : r <= t
  BY <1>3, MinIsThere DEF Applying
<1> QED
  BY <1>1, <1>4, Logged DEF Applying, InPage

(* What applying a tombstone does.                                            *)
LEMMA ApplyTombstoneEffect ==
  ASSUME TypeOK, NEW d \in Devices, PageInv(d), NEW r, NEW k \in Keys, ApplyTombstone(d, r, k)
  PROVE  /\ TypeOK' /\ Elsewhere(d)
         /\ db'[d].watermark = db[d].watermark /\ db'[d].dead = db[d].dead \cup {k}
         /\ db'[d].meta[k] = 0 /\ held'[d][k] = 0
         /\ \A q \in Keys \ {k} : db'[d].meta[q] = db[d].meta[q]
              /\ db'[d].base[q] = db[d].base[q]
         /\ \A q \in Keys \ {k} : held'[d][q] = held[d][q]
         /\ run'[d].page = run[d].page \ {r} /\ run'[d].top = r /\ run'[d].low = run[d].low
         /\ run'[d].stamp = NoKey /\ run'[d].prep = run[d].prep /\ run'[d].pc = "apply"
         /\ db'[d].row[k] = Nothing
         /\ \A q \in Keys \ {k} : db'[d].row[q] = db[d].row[q]
         /\ db'[d].outbox = db[d].outbox \ Pending(d, k)
<1>0. Applied(d, r, NoKey) /\ Applying(d, r, k, Nothing) /\ r \in Nat /\ k # NoKey
  BY EngineAssumption, ApplyingIs DEF ApplyTombstone
<1> DEFINE M == [db[d].meta EXCEPT ![k] = 0]
           B == [db[d].base EXCEPT ![k] = Nothing]
           D == db[d].dead \cup {k}
           R == [db[d].row EXCEPT ![k] = Nothing]
           T == [db[d].trash EXCEPT ![k] = IF db[d].row[k] # Nothing THEN db[d].row[k]
             ELSE db[d].trash[k]]
           O == db[d].outbox \ Pending(d, k)
           x == [db[d] EXCEPT !.meta = M, !.base = B, !.dead = D, !.row = R, !.trash = T,
             !.outbox = O]
<1>1. M \in [Keys -> Nat] /\ B \in [Keys -> Contents \cup {Nothing}]
  BY Fields
<1>2. R \in [Keys -> Contents \cup {Nothing}] /\ T \in [Keys -> Contents \cup {Nothing}]
  BY Fields
<1>3. O \subseteq Entry /\ D \subseteq Keys
  BY Fields
<1>4. x \in Database
  <2>1. db[d] \in Database
    BY Fields
  <2> HIDE DEF M, B, D, R, T, O
  <2> QED
    BY <2>1, <1>1, <1>2, <1>3 DEF Database
<1>5. x.meta = M /\ x.base = B /\ x.dead = D /\ x.row = R /\ x.outbox = O
        /\ x.watermark = db[d].watermark
  <2> HIDE DEF M, B, D, R, T, O
  <2> QED
    BY Fields DEF Database
<1>6. db' = [db EXCEPT ![d] = x]
  BY DEF ApplyTombstone, Buried
<1>7. M[k] = 0 /\ \A q \in Keys \ {k} : M[q] = db[d].meta[q] /\ B[q] = db[d].base[q]
  BY Fields
<1>8. R[k] = Nothing /\ \A q \in Keys \ {k} : R[q] = db[d].row[q]
  BY Fields
<1> HIDE DEF x, M, B, D, R, T, O
<1>9. db' \in [Devices -> Database] /\ db'[d] = x /\ \A e \in Devices \ {d} : db'[e] = db[e]
  BY <1>4, <1>6, DbSet
<1>10. held' \in [Devices -> [Keys -> Nat]] /\ held'[d][k] = 0
         /\ (\A q \in Keys \ {k} : held'[d][q] = held[d][q])
         /\ (\A e \in Devices \ {d} : held'[e] = held[e])
  BY DEF ApplyTombstone, TypeOK
<1>11. /\ DOMAIN run' = Devices
       /\ \A e \in Devices \ {d} : run'[e] = run[e]
       /\ \A e \in Devices : LET pushed == DOMAIN run'[e].prep
                             IN  pushed \subseteq Keys /\ run'[e] \in Run(pushed)
       /\ run'[d].page = run[d].page \ {r} /\ run'[d].top = r /\ run'[d].low = run[d].low
       /\ run'[d].stamp = NoKey /\ run'[d].prep = run[d].prep /\ run'[d].pc = "apply"
  <2>1. NoKey \in Keys \cup {NoKey}
    OBVIOUS
  <2>2. run'[d].pc = (IF NoKey = NoKey THEN "apply" ELSE "stamp")
    BY <1>0, <2>1, AppliedEffect
  <2>3. run'[d].pc = "apply"
    BY <1>0, <2>2
  <2> QED
    BY <1>0, <2>1, <2>3, AppliedEffect
<1>12. UNCHANGED <<log, handles, late, minted, mishaps>>
  BY <1>0 DEF Applying
<1>13. TypeOK'
  BY <1>9, <1>10, <1>11, <1>12 DEF TypeOK
<1>14. Elsewhere(d)
  BY <1>9, <1>10, <1>11, <1>12 DEF Elsewhere
<1>15. db'[d].row = x.row /\ db'[d].meta = x.meta /\ db'[d].base = x.base
         /\ db'[d].outbox = x.outbox /\ db'[d].watermark = x.watermark /\ db'[d].dead = x.dead
  BY <1>9
<1> USE DEF O, D
<1> QED
  BY <1>5, <1>7, <1>8, <1>10, <1>11, <1>13, <1>14, <1>15

(* What hiding change r of k under a queued deletion comes to.                *)
Hid(d, r, k) ==
  /\ TypeOK' /\ Elsewhere(d)
  /\ run'[d].page = run[d].page \ {r} /\ run'[d].top = r /\ run'[d].low = run[d].low
  /\ run'[d].stamp = NoKey /\ run'[d].prep = run[d].prep /\ run'[d].pc = "apply"
  /\ held' = held /\ db'[d].row = db[d].row /\ db'[d].outbox = db[d].outbox
  /\ db'[d].watermark = db[d].watermark /\ db'[d].dead = db[d].dead
  /\ db'[d].meta[k] = r /\ db'[d].base[k] = Nothing
  /\ \A q \in Keys \ {k} : db'[d].meta[q] = db[d].meta[q]
       /\ db'[d].base[q] = db[d].base[q]

(* What hiding a foreign edit under a queued deletion does.                   *)
LEMMA SuppressEffect ==
  ASSUME TypeOK, NEW d \in Devices, PageInv(d), NEW r, NEW k \in Keys, NEW c,
         Suppress(d, r, k, c)
  PROVE  Hid(d, r, k)
<1>0. Applied(d, r, NoKey) /\ Applying(d, r, k, c) /\ r \in Nat /\ k # NoKey
  BY EngineAssumption, ApplyingIs DEF Suppress, Inserting, Upserting
<1> DEFINE M == [db[d].meta EXCEPT ![k] = r]
           B == [db[d].base EXCEPT ![k] = Nothing]
           S == [db[d].suppressed EXCEPT ![k] = Max({db[d].suppressed[k], r})]
           x == [db[d] EXCEPT !.meta = M, !.base = B, !.suppressed = S]
<1>1. M \in [Keys -> Nat] /\ B \in [Keys -> Contents \cup {Nothing}]
  BY <1>0, Fields
<1>2. S \in [Keys -> Nat]
  <2>1. db[d].suppressed[k] \in Nat /\ db[d].suppressed \in [Keys -> Nat]
    BY Fields
  <2>2. Max({db[d].suppressed[k], r}) \in Nat
    BY <1>0, <2>1, Extremes
  <2> QED
    BY <2>1, <2>2
<1>3. x \in Database
  <2>1. db[d] \in Database
    BY Fields
  <2> HIDE DEF M, B, S
  <2> QED
    BY <2>1, <1>1, <1>2 DEF Database
<1>4. x.meta = M /\ x.base = B /\ x.row = db[d].row /\ x.outbox = db[d].outbox
        /\ x.watermark = db[d].watermark /\ x.dead = db[d].dead
  <2> HIDE DEF M, B, S
  <2> QED
    BY Fields DEF Database
<1>5. db' = [db EXCEPT ![d] = x]
  BY DEF Suppress
<1>6. M[k] = r /\ B[k] = Nothing /\ \A q \in Keys \ {k} : M[q] = db[d].meta[q]
        /\ B[q] = db[d].base[q]
  BY Fields
<1> HIDE DEF x, M, B, S
<1>7. db' \in [Devices -> Database] /\ db'[d] = x /\ \A e \in Devices \ {d} : db'[e] = db[e]
  BY <1>3, <1>5, DbSet
<1>8. held' = held /\ held' \in [Devices -> [Keys -> Nat]]
  BY DEF Suppress, TypeOK
<1>9. /\ DOMAIN run' = Devices
      /\ \A e \in Devices \ {d} : run'[e] = run[e]
      /\ \A e \in Devices : LET pushed == DOMAIN run'[e].prep
                            IN  pushed \subseteq Keys /\ run'[e] \in Run(pushed)
      /\ run'[d].page = run[d].page \ {r} /\ run'[d].top = r /\ run'[d].low = run[d].low
      /\ run'[d].stamp = NoKey /\ run'[d].prep = run[d].prep /\ run'[d].pc = "apply"
  <2>1. NoKey \in Keys \cup {NoKey}
    OBVIOUS
  <2>2. run'[d].pc = (IF NoKey = NoKey THEN "apply" ELSE "stamp")
    BY <1>0, <2>1, AppliedEffect
  <2>3. run'[d].pc = "apply"
    BY <1>0, <2>2
  <2> QED
    BY <1>0, <2>1, <2>3, AppliedEffect
<1>10. UNCHANGED <<log, handles, late, minted, mishaps>>
  BY <1>0 DEF Applying
<1>11. TypeOK'
  BY <1>7, <1>8, <1>9, <1>10 DEF TypeOK
<1>12. Elsewhere(d)
  BY <1>7, <1>8, <1>9, <1>10 DEF Elsewhere
<1>13. db'[d].row = x.row /\ db'[d].meta = x.meta /\ db'[d].base = x.base
         /\ db'[d].outbox = x.outbox /\ db'[d].watermark = x.watermark /\ db'[d].dead = x.dead
  BY <1>7
<1> QED
  BY <1>4, <1>6, <1>8, <1>9, <1>11, <1>12, <1>13 DEF Hid

(* What taking in change r of k, of content c, comes to.                          *)
TookIn(d, r, k, c) ==
  /\ TypeOK' /\ Elsewhere(d)
  /\ run'[d].page = run[d].page \ {r} /\ run'[d].top = r /\ run'[d].low = run[d].low
  /\ run'[d].stamp = k /\ run'[d].prep = run[d].prep /\ run'[d].pc = "stamp"
  /\ held'[d][k] = r /\ \A q \in Keys \ {k} : held'[d][q] = held[d][q]
  /\ db'[d].outbox = db[d].outbox
  /\ db'[d].watermark = db[d].watermark /\ db'[d].dead = db[d].dead
  /\ db'[d].meta[k] = r /\ db'[d].base[k] = Nothing /\ db'[d].row[k] = c
  /\ \A q \in Keys \ {k} : db'[d].meta[q] = db[d].meta[q] /\ db'[d].base[q] = db[d].base[q]
  /\ \A q \in Keys \ {k} : db'[d].row[q] = db[d].row[q]

(* What taking in a pulled row does.                                          *)
LEMMA TakeInEffect ==
  ASSUME TypeOK, NEW d \in Devices, PageInv(d), NEW r, NEW k \in Keys, NEW c,
         Applying(d, r, k, c), TakeIn(d, r, k, c)
  PROVE  TookIn(d, r, k, c)
<1>0. Applied(d, r, k) /\ Applying(d, r, k, c) /\ r \in Nat /\ k # NoKey
  BY EngineAssumption, ApplyingIs DEF TakeIn
<1> DEFINE R == [db[d].row EXCEPT ![k] = c]
           M == [db[d].meta EXCEPT ![k] = r]
           B == [db[d].base EXCEPT ![k] = Nothing]
           x == [db[d] EXCEPT !.row = R, !.meta = M, !.base = B]
<1>1. M \in [Keys -> Nat] /\ B \in [Keys -> Contents \cup {Nothing}]
  BY <1>0, Fields
<1>2. R \in [Keys -> Contents \cup {Nothing}]
  BY <1>0, Fields, ApplyingIs
<1>3. x \in Database
  <2>1. db[d] \in Database
    BY Fields
  <2> HIDE DEF R, M, B
  <2> QED
    BY <2>1, <1>1, <1>2 DEF Database
<1>4. x.row = R /\ x.meta = M /\ x.base = B /\ x.outbox = db[d].outbox
        /\ x.watermark = db[d].watermark /\ x.dead = db[d].dead
  <2> HIDE DEF R, M, B
  <2> QED
    BY Fields DEF Database
<1>5. db' = [db EXCEPT ![d] = x]
  BY DEF TakeIn
<1>6. M[k] = r /\ B[k] = Nothing /\ \A q \in Keys \ {k} : M[q] = db[d].meta[q]
        /\ B[q] = db[d].base[q]
  BY Fields
<1>7. R[k] = c /\ \A q \in Keys \ {k} : R[q] = db[d].row[q]
  BY Fields
<1> HIDE DEF x, R, M, B
<1>8. db' \in [Devices -> Database] /\ db'[d] = x /\ \A e \in Devices \ {d} : db'[e] = db[e]
  BY <1>3, <1>5, DbSet
<1>9. held' \in [Devices -> [Keys -> Nat]] /\ held'[d][k] = r
        /\ (\A q \in Keys \ {k} : held'[d][q] = held[d][q])
        /\ (\A e \in Devices \ {d} : held'[e] = held[e])
  BY <1>0 DEF TakeIn, TypeOK
<1>10. /\ DOMAIN run' = Devices
       /\ \A e \in Devices \ {d} : run'[e] = run[e]
       /\ \A e \in Devices : LET pushed == DOMAIN run'[e].prep
                             IN  pushed \subseteq Keys /\ run'[e] \in Run(pushed)
       /\ run'[d].page = run[d].page \ {r} /\ run'[d].top = r /\ run'[d].low = run[d].low
       /\ run'[d].stamp = k /\ run'[d].prep = run[d].prep /\ run'[d].pc = "stamp"
  <2>1. k \in Keys \cup {NoKey}
    OBVIOUS
  <2>2. run'[d].pc = (IF k = NoKey THEN "apply" ELSE "stamp")
    BY <1>0, <2>1, AppliedEffect
  <2>3. run'[d].pc = "stamp"
    BY <1>0, <2>2
  <2> QED
    BY <1>0, <2>1, <2>3, AppliedEffect
<1>11. UNCHANGED <<log, handles, late, minted, mishaps>>
  BY <1>0 DEF Applying
<1>12. TypeOK'
  BY <1>8, <1>9, <1>10, <1>11 DEF TypeOK
<1>13. Elsewhere(d)
  BY <1>8, <1>9, <1>10, <1>11 DEF Elsewhere
<1>14. db'[d].row = x.row /\ db'[d].meta = x.meta /\ db'[d].base = x.base
         /\ db'[d].outbox = x.outbox /\ db'[d].watermark = x.watermark /\ db'[d].dead = x.dead
  BY <1>8
<1> QED
  BY <1>4, <1>6, <1>7, <1>9, <1>10, <1>12, <1>13, <1>14 DEF TookIn

(* What the local row of k winning over change r comes to.                    *)
LocalWon(d, r, k, c) ==
  /\ TypeOK' /\ Elsewhere(d)
  /\ run'[d].page = run[d].page \ {r} /\ run'[d].top = r /\ run'[d].low = run[d].low
  /\ run'[d].stamp = NoKey /\ run'[d].prep = run[d].prep /\ run'[d].pc = "apply"
  /\ held'[d][k] = r /\ \A q \in Keys \ {k} : held'[d][q] = held[d][q]
  /\ db'[d].outbox = Repush(d, k, c)
  /\ db'[d].watermark = db[d].watermark /\ db'[d].dead = db[d].dead
  /\ db'[d].meta[k] = r /\ db'[d].base = db[d].base /\ db'[d].row = db[d].row
  /\ \A q \in Keys \ {k} : db'[d].meta[q] = db[d].meta[q]

(* What does a local row that wins.                                           *)
LEMMA LocalWinsEffect ==
  ASSUME TypeOK, NEW d \in Devices, PageInv(d), NEW r, NEW k \in Keys, NEW c, QueueInv(d),
         LocalWins(d, r, k, c)
  PROVE  LocalWon(d, r, k, c)
<1>0. Applied(d, r, NoKey) /\ Applying(d, r, k, c) /\ r \in Nat /\ k # NoKey
  BY EngineAssumption, ApplyingIs DEF LocalWins, Upserting
<1> DEFINE M == [db[d].meta EXCEPT ![k] = r]
           O == Repush(d, k, c)
           x == [db[d] EXCEPT !.meta = M, !.outbox = O]
<1>1. M \in [Keys -> Nat]
  BY <1>0, Fields
<1>2. O \subseteq Entry
  BY Fields, QueuedIs DEF Repush
<1>3. x \in Database
  <2>1. db[d] \in Database
    BY Fields
  <2> HIDE DEF M, O
  <2> QED
    BY <2>1, <1>1, <1>2 DEF Database
<1>4. x.meta = M /\ x.outbox = O /\ x.row = db[d].row /\ x.base = db[d].base
        /\ x.watermark = db[d].watermark /\ x.dead = db[d].dead
  <2> HIDE DEF M, O
  <2> QED
    BY Fields DEF Database
<1>5. db' = [db EXCEPT ![d] = x]
  BY DEF LocalWins
<1>6. M[k] = r /\ \A q \in Keys \ {k} : M[q] = db[d].meta[q]
  BY Fields
<1> HIDE DEF x, M, O
<1>7. db' \in [Devices -> Database] /\ db'[d] = x /\ \A e \in Devices \ {d} : db'[e] = db[e]
  BY <1>3, <1>5, DbSet
<1>8. held' \in [Devices -> [Keys -> Nat]] /\ held'[d][k] = r
        /\ (\A q \in Keys \ {k} : held'[d][q] = held[d][q])
        /\ (\A e \in Devices \ {d} : held'[e] = held[e])
  BY <1>0 DEF LocalWins, TypeOK
<1>9. /\ DOMAIN run' = Devices
      /\ \A e \in Devices \ {d} : run'[e] = run[e]
      /\ \A e \in Devices : LET pushed == DOMAIN run'[e].prep
                            IN  pushed \subseteq Keys /\ run'[e] \in Run(pushed)
      /\ run'[d].page = run[d].page \ {r} /\ run'[d].top = r /\ run'[d].low = run[d].low
      /\ run'[d].stamp = NoKey /\ run'[d].prep = run[d].prep /\ run'[d].pc = "apply"
  <2>1. NoKey \in Keys \cup {NoKey}
    OBVIOUS
  <2>2. run'[d].pc = (IF NoKey = NoKey THEN "apply" ELSE "stamp")
    BY <1>0, <2>1, AppliedEffect
  <2>3. run'[d].pc = "apply"
    BY <1>0, <2>2
  <2> QED
    BY <1>0, <2>1, <2>3, AppliedEffect
<1>10. UNCHANGED <<log, handles, late, minted, mishaps>>
  BY <1>0 DEF Applying
<1>11. TypeOK'
  BY <1>7, <1>8, <1>9, <1>10 DEF TypeOK
<1>12. Elsewhere(d)
  BY <1>7, <1>8, <1>9, <1>10 DEF Elsewhere
<1>13. db'[d].row = x.row /\ db'[d].meta = x.meta /\ db'[d].base = x.base
         /\ db'[d].outbox = x.outbox /\ db'[d].watermark = x.watermark /\ db'[d].dead = x.dead
  BY <1>7
<1> USE DEF O
<1> QED
  BY <1>4, <1>6, <1>8, <1>9, <1>11, <1>12, <1>13 DEF LocalWon

-----------------------------------------------------------------------------
(* Effects: the rest of a pull, the tail, the start of a drain.               *)

(* What the stamp of a baseline does.                                         *)
LEMMA StampEffect ==
  ASSUME TypeOK, NEW d \in Devices, NEW k \in Keys, k = run[d].stamp, Stamp(d)
  PROVE  /\ TypeOK' /\ Elsewhere(d) /\ held' = held
         /\ run'[d].pc = "apply" /\ run'[d].prep = run[d].prep /\ run'[d].page = run[d].page
              /\ run'[d].top = run[d].top /\ run'[d].low = run[d].low
         /\ \A q \in Keys \ {k} : db'[d].base[q] = db[d].base[q]
         /\ db'[d].row = db[d].row /\ db'[d].meta = db[d].meta
              /\ db'[d].outbox = db[d].outbox /\ db'[d].watermark = db[d].watermark
              /\ db'[d].dead = db[d].dead
<1> DEFINE B == [db[d].base EXCEPT ![k] = IF db[d].meta[k] > 0 THEN db[d].row[k]
             ELSE db[d].base[k]]
           x == [db[d] EXCEPT !.base = B]
<1>1. B \in [Keys -> Contents \cup {Nothing}]
  BY Fields
<1>2. x \in Database
  <2>1. db[d] \in Database
    BY Fields
  <2> HIDE DEF B
  <2> QED
    BY <2>1, <1>1 DEF Database
<1>3. x.base = B /\ x.row = db[d].row /\ x.meta = db[d].meta /\ x.outbox = db[d].outbox
        /\ x.watermark = db[d].watermark /\ x.dead = db[d].dead
  <2> HIDE DEF B
  <2> QED
    BY Fields DEF Database
<1>4. db' = [db EXCEPT ![d] = x]
  BY DEF Stamp
<1>5. \A q \in Keys \ {k} : B[q] = db[d].base[q]
  BY Fields
<1> HIDE DEF x, B
<1>6. db' \in [Devices -> Database] /\ db'[d] = x /\ \A e \in Devices \ {d} : db'[e] = db[e]
  BY <1>2, <1>4, DbSet
<1>7. /\ DOMAIN run' = Devices
      /\ \A e \in Devices \ {d} : run'[e] = run[e]
      /\ \A e \in Devices : LET pushed == DOMAIN run'[e].prep
                            IN  pushed \subseteq Keys /\ run'[e] \in Run(pushed)
      /\ run'[d].pc = "apply" /\ run'[d].prep = run[d].prep /\ run'[d].page = run[d].page
           /\ run'[d].top = run[d].top /\ run'[d].low = run[d].low
  BY StampRun
<1>8. UNCHANGED <<log, handles, late, minted, held>> /\ mishaps' \in 0 .. MaxMishaps
  BY DEF Stamp, TypeOK
<1>9. TypeOK'
  BY <1>6, <1>7, <1>8 DEF TypeOK
<1>10. Elsewhere(d)
  BY <1>6, <1>7, <1>8 DEF Elsewhere
<1>11. db'[d].row = x.row /\ db'[d].meta = x.meta /\ db'[d].base = x.base
         /\ db'[d].outbox = x.outbox /\ db'[d].watermark = x.watermark /\ db'[d].dead = x.dead
  BY <1>6
<1> QED
  BY <1>3, <1>5, <1>8, <1>7, <1>9, <1>10, <1>11

(* The watermark a page leads to is a natural, and the advance never goes     *)
(* back.                                                                      *)
LEMMA NextIs ==
  ASSUME TypeOK, NEW d \in Devices
  PROVE  /\ NextWatermark(d) \in Nat
         /\ Max({db[d].watermark, NextWatermark(d)}) \in {db[d].watermark, NextWatermark(d)}
         /\ Max({db[d].watermark, NextWatermark(d)}) \in Nat
         /\ Max({db[d].watermark, NextWatermark(d)}) >= db[d].watermark
<1>1. run[d].low \in Nat /\ run[d].top \in Nat /\ db[d].watermark \in Nat
  BY Fields
<1>2. NextWatermark(d) \in Nat
  BY <1>1 DEF NextWatermark
<1> QED
  BY <1>1, <1>2, Extremes

(* What the end of a page does.                                               *)
LEMMA FinishEffect ==
  ASSUME TypeOK, NEW d \in Devices, FinishPage(d)
  PROVE  /\ TypeOK' /\ Elsewhere(d) /\ held' = held
         /\ run'[d].pc \in {"idle", "pull"} /\ DOMAIN run'[d].prep = {}
         /\ db'[d].watermark = Max({db[d].watermark, NextWatermark(d)})
         /\ db'[d].row = db[d].row /\ db'[d].meta = db[d].meta /\ db'[d].base = db[d].base
              /\ db'[d].outbox = db[d].outbox /\ db'[d].dead = db[d].dead
<1> DEFINE W == Max({db[d].watermark, NextWatermark(d)})
           x == [db[d] EXCEPT !.watermark = W]
<1>1. W \in Nat
  BY NextIs
<1>2. x \in Database
  <2>1. db[d] \in Database
    BY Fields
  <2> HIDE DEF W
  <2> QED
    BY <2>1, <1>1 DEF Database
<1>3. x.watermark = W /\ x.row = db[d].row /\ x.meta = db[d].meta /\ x.base = db[d].base
        /\ x.outbox = db[d].outbox /\ x.dead = db[d].dead
  <2> HIDE DEF W
  <2> QED
    BY Fields DEF Database
<1>4. db' = [db EXCEPT ![d] = x]
  BY DEF FinishPage, Advance
<1> HIDE DEF x, W
<1>5. db' \in [Devices -> Database] /\ db'[d] = x /\ \A e \in Devices \ {d} : db'[e] = db[e]
  BY <1>2, <1>4, DbSet
<1>6. /\ DOMAIN run' = Devices
      /\ \A e \in Devices \ {d} : run'[e] = run[e]
      /\ \A e \in Devices : LET pushed == DOMAIN run'[e].prep
                            IN  pushed \subseteq Keys /\ run'[e] \in Run(pushed)
      /\ run'[d].pc \in {"idle", "pull"} /\ DOMAIN run'[d].prep = {}
  BY FinishRun DEF FinishPage
<1>7. UNCHANGED <<log, handles, late, minted, held>> /\ mishaps' \in 0 .. MaxMishaps
  BY DEF FinishPage, TypeOK
<1>8. TypeOK'
  BY <1>5, <1>6, <1>7 DEF TypeOK
<1>9. Elsewhere(d)
  BY <1>5, <1>6, <1>7 DEF Elsewhere
<1>10. db'[d].row = x.row /\ db'[d].meta = x.meta /\ db'[d].base = x.base
         /\ db'[d].outbox = x.outbox /\ db'[d].watermark = x.watermark /\ db'[d].dead = x.dead
  BY <1>5
<1> USE DEF W
<1> QED
  BY <1>3, <1>7, <1>6, <1>8, <1>9, <1>10

(* What a session locked in the middle of a page does.                        *)
LEMMA LockEffect ==
  ASSUME TypeOK, NEW d \in Devices, LockSession(d)
  PROVE  /\ TypeOK' /\ Elsewhere(d) /\ held' = held
         /\ run'[d].pc = "idle" /\ DOMAIN run'[d].prep = {}
         /\ db'[d].watermark = Max({db[d].watermark, NextWatermark(d)})
         /\ db'[d].row = db[d].row /\ db'[d].meta = db[d].meta /\ db'[d].base = db[d].base
              /\ db'[d].outbox = db[d].outbox /\ db'[d].dead = db[d].dead
<1> DEFINE W == Max({db[d].watermark, NextWatermark(d)})
           x == [db[d] EXCEPT !.watermark = W]
<1>1. W \in Nat
  BY NextIs
<1>2. x \in Database
  <2>1. db[d] \in Database
    BY Fields
  <2> HIDE DEF W
  <2> QED
    BY <2>1, <1>1 DEF Database
<1>3. x.watermark = W /\ x.row = db[d].row /\ x.meta = db[d].meta /\ x.base = db[d].base
        /\ x.outbox = db[d].outbox /\ x.dead = db[d].dead
  <2> HIDE DEF W
  <2> QED
    BY Fields DEF Database
<1>4. db' = [db EXCEPT ![d] = x]
  BY DEF LockSession, Advance
<1> HIDE DEF x, W
<1>5. db' \in [Devices -> Database] /\ db'[d] = x /\ \A e \in Devices \ {d} : db'[e] = db[e]
  BY <1>2, <1>4, DbSet
<1>6. /\ DOMAIN run' = Devices
      /\ \A e \in Devices \ {d} : run'[e] = run[e]
      /\ \A e \in Devices : LET pushed == DOMAIN run'[e].prep
                            IN  pushed \subseteq Keys /\ run'[e] \in Run(pushed)
      /\ run'[d].pc = "idle" /\ DOMAIN run'[d].prep = {}
  BY IdleEffect DEF LockSession
<1>7. UNCHANGED <<log, handles, late, minted, held>> /\ mishaps' \in 0 .. MaxMishaps
  BY EngineAssumption DEF LockSession, Mishap, TypeOK
<1>8. TypeOK'
  BY <1>5, <1>6, <1>7 DEF TypeOK
<1>9. Elsewhere(d)
  BY <1>5, <1>6, <1>7 DEF Elsewhere
<1>10. db'[d].row = x.row /\ db'[d].meta = x.meta /\ db'[d].base = x.base
         /\ db'[d].outbox = x.outbox /\ db'[d].watermark = x.watermark /\ db'[d].dead = x.dead
  BY <1>5
<1> USE DEF W
<1> QED
  BY <1>3, <1>7, <1>6, <1>8, <1>9, <1>10

(* What a write to a row that is gone does.                                   *)
LEMMA EditGoneEffect ==
  ASSUME TypeOK, NEW d \in Devices, NEW k \in Keys, QueueInv(d), EditGone(d, k)
  PROVE  /\ TypeOK' /\ Elsewhere(d) /\ held' = held
         /\ run' = run
         /\ db'[d].outbox = Queued(d, k, "upsert")
         /\ db'[d].row = db[d].row /\ db'[d].meta = db[d].meta /\ db'[d].base = db[d].base
              /\ db'[d].watermark = db[d].watermark /\ db'[d].dead = db[d].dead
<1> DEFINE O == Queued(d, k, "upsert")
           x == [db[d] EXCEPT !.outbox = O]
<1>1. O \subseteq Entry
  BY QueuedIs
<1>2. x \in Database
  <2>1. db[d] \in Database
    BY Fields
  <2> HIDE DEF O
  <2> QED
    BY <2>1, <1>1 DEF Database
<1>3. x.outbox = O /\ x.row = db[d].row /\ x.meta = db[d].meta /\ x.base = db[d].base
        /\ x.watermark = db[d].watermark /\ x.dead = db[d].dead
  <2> HIDE DEF O
  <2> QED
    BY Fields DEF Database
<1>4. db' = [db EXCEPT ![d] = x]
  BY DEF EditGone
<1> HIDE DEF x, O
<1>5. db' \in [Devices -> Database] /\ db'[d] = x /\ \A e \in Devices \ {d} : db'[e] = db[e]
  BY <1>2, <1>4, DbSet
<1>6. /\ DOMAIN run' = Devices
      /\ \A e \in Devices \ {d} : run'[e] = run[e]
      /\ \A e \in Devices : LET pushed == DOMAIN run'[e].prep
                            IN  pushed \subseteq Keys /\ run'[e] \in Run(pushed)
      /\ run' = run
  BY DEF EditGone, TypeOK
<1>7. UNCHANGED <<log, handles, late, held>> /\ minted' \subseteq Contents
        /\ mishaps' \in 0 .. MaxMishaps
  BY DEF EditGone, TypeOK
<1>8. TypeOK'
  BY <1>5, <1>6, <1>7 DEF TypeOK
<1>9. Elsewhere(d)
  BY <1>5, <1>6, <1>7 DEF Elsewhere
<1>10. db'[d].row = x.row /\ db'[d].meta = x.meta /\ db'[d].base = x.base
         /\ db'[d].outbox = x.outbox /\ db'[d].watermark = x.watermark /\ db'[d].dead = x.dead
  BY <1>5
<1> USE DEF O
<1> QED
  BY <1>3, <1>7, <1>6, <1>8, <1>9, <1>10

(* What the backfill of a row does.                                           *)
LEMMA BackfillEffect ==
  ASSUME TypeOK, NEW d \in Devices, NEW k \in Keys, QueueInv(d), Backfill(d, k)
  PROVE  /\ TypeOK' /\ Elsewhere(d) /\ held' = held
         /\ run' = run
         /\ db'[d].outbox = Queued(d, k, "upsert")
         /\ db'[d].row = db[d].row /\ db'[d].meta = db[d].meta /\ db'[d].base = db[d].base
              /\ db'[d].watermark = db[d].watermark /\ db'[d].dead = db[d].dead
<1> DEFINE O == Queued(d, k, "upsert")
           x == [db[d] EXCEPT !.outbox = O]
<1>1. O \subseteq Entry
  BY QueuedIs
<1>2. x \in Database
  <2>1. db[d] \in Database
    BY Fields
  <2> HIDE DEF O
  <2> QED
    BY <2>1, <1>1 DEF Database
<1>3. x.outbox = O /\ x.row = db[d].row /\ x.meta = db[d].meta /\ x.base = db[d].base
        /\ x.watermark = db[d].watermark /\ x.dead = db[d].dead
  <2> HIDE DEF O
  <2> QED
    BY Fields DEF Database
<1>4. db' = [db EXCEPT ![d] = x]
  BY DEF Backfill
<1> HIDE DEF x, O
<1>5. db' \in [Devices -> Database] /\ db'[d] = x /\ \A e \in Devices \ {d} : db'[e] = db[e]
  BY <1>2, <1>4, DbSet
<1>6. /\ DOMAIN run' = Devices
      /\ \A e \in Devices \ {d} : run'[e] = run[e]
      /\ \A e \in Devices : LET pushed == DOMAIN run'[e].prep
                            IN  pushed \subseteq Keys /\ run'[e] \in Run(pushed)
      /\ run' = run
  BY DEF Backfill, InTail, TypeOK
<1>7. UNCHANGED <<log, handles, late, minted, held>> /\ mishaps' \in 0 .. MaxMishaps
  BY DEF Backfill, InTail, TypeOK
<1>8. TypeOK'
  BY <1>5, <1>6, <1>7 DEF TypeOK
<1>9. Elsewhere(d)
  BY <1>5, <1>6, <1>7 DEF Elsewhere
<1>10. db'[d].row = x.row /\ db'[d].meta = x.meta /\ db'[d].base = x.base
         /\ db'[d].outbox = x.outbox /\ db'[d].watermark = x.watermark /\ db'[d].dead = x.dead
  BY <1>5
<1> USE DEF O
<1> QED
  BY <1>3, <1>7, <1>6, <1>8, <1>9, <1>10

(* What the reconciliation of a row does.                                     *)
LEMMA ReconcileEffect ==
  ASSUME TypeOK, NEW d \in Devices, NEW k \in Keys, QueueInv(d), Reconcile(d, k)
  PROVE  /\ TypeOK' /\ Elsewhere(d) /\ held' = held
         /\ run' = run
         /\ \A q \in Keys \ {k} : db'[d].base[q] = db[d].base[q]
         /\ db'[d].base[k] = db[d].row[k]
         /\ db'[d].outbox = IF db[d].base[k] = Nothing THEN db[d].outbox
              ELSE Queued(d, k, "upsert")
         /\ db'[d].row = db[d].row /\ db'[d].meta = db[d].meta
              /\ db'[d].watermark = db[d].watermark /\ db'[d].dead = db[d].dead
<1> DEFINE B == [db[d].base EXCEPT ![k] = db[d].row[k]]
           O == IF db[d].base[k] = Nothing THEN db[d].outbox ELSE Queued(d, k, "upsert")
           x == [db[d] EXCEPT !.base = B, !.outbox = O]
<1>1. B \in [Keys -> Contents \cup {Nothing}]
  BY Fields
<1>2. O \subseteq Entry
  BY Fields, QueuedIs
<1>3. x \in Database
  <2>1. db[d] \in Database
    BY Fields
  <2> HIDE DEF B, O
  <2> QED
    BY <2>1, <1>1, <1>2 DEF Database
<1>4. x.base = B /\ x.outbox = O /\ x.row = db[d].row /\ x.meta = db[d].meta
        /\ x.watermark = db[d].watermark /\ x.dead = db[d].dead
  <2> HIDE DEF B, O
  <2> QED
    BY Fields DEF Database
<1>5. db' = [db EXCEPT ![d] = x]
  BY DEF Reconcile
<1>6. B[k] = db[d].row[k] /\ \A q \in Keys \ {k} : B[q] = db[d].base[q]
  BY Fields
<1> HIDE DEF x, B, O
<1>7. db' \in [Devices -> Database] /\ db'[d] = x /\ \A e \in Devices \ {d} : db'[e] = db[e]
  BY <1>3, <1>5, DbSet
<1>8. /\ DOMAIN run' = Devices
      /\ \A e \in Devices \ {d} : run'[e] = run[e]
      /\ \A e \in Devices : LET pushed == DOMAIN run'[e].prep
                            IN  pushed \subseteq Keys /\ run'[e] \in Run(pushed)
      /\ run' = run
  BY DEF Reconcile, InTail, TypeOK
<1>9. UNCHANGED <<log, handles, late, minted, held>> /\ mishaps' \in 0 .. MaxMishaps
  BY DEF Reconcile, InTail, TypeOK
<1>10. TypeOK'
  BY <1>7, <1>8, <1>9 DEF TypeOK
<1>11. Elsewhere(d)
  BY <1>7, <1>8, <1>9 DEF Elsewhere
<1>12. db'[d].row = x.row /\ db'[d].meta = x.meta /\ db'[d].base = x.base
         /\ db'[d].outbox = x.outbox /\ db'[d].watermark = x.watermark /\ db'[d].dead = x.dead
  BY <1>7
<1> USE DEF O
<1> QED
  BY <1>4, <1>6, <1>9, <1>8, <1>10, <1>11, <1>12

(* A sealed record is of the right type.                                      *)
LEMMA SealedTyped ==
  ASSUME TypeOK, NEW d \in Devices, NEW k \in Keys
  PROVE  Sealed(d, k) \in Prepared
<1>1. {e.seq : e \in Pending(d, k)} \subseteq Nat
  BY Fields DEF Pending, Entry
<1>2. db[d].meta[k] \in Nat /\ db[d].row[k] \in Contents \cup {Nothing}
  BY Fields
<1> QED
  BY <1>1, <1>2 DEF Sealed, Prepared

(* What the start of a drain does.                                            *)
LEMMA StartDrainEffect ==
  ASSUME TypeOK, NEW d \in Devices, StartDrain(d)
  PROVE  /\ TypeOK' /\ Elsewhere(d) /\ held' = held
         /\ run'[d].pc = "push" /\ DOMAIN run'[d].prep = Sendable(d)
         /\ \A k \in Sendable(d) : run'[d].prep[k] = Sealed(d, k)
         /\ db'[d].outbox = {e \in db[d].outbox : e.key \in Sendable(d)}
         /\ db'[d].row = db[d].row /\ db'[d].meta = db[d].meta /\ db'[d].base = db[d].base
              /\ db'[d].watermark = db[d].watermark /\ db'[d].dead = db[d].dead
<1> DEFINE O == {e \in db[d].outbox : e.key \in Sendable(d)}
           x == [db[d] EXCEPT !.outbox = O]
<1>1. O \subseteq Entry
  BY Fields
<1>2. x \in Database
  <2>1. db[d] \in Database
    BY Fields
  <2> HIDE DEF O
  <2> QED
    BY <2>1, <1>1 DEF Database
<1>3. x.outbox = O /\ x.row = db[d].row /\ x.meta = db[d].meta /\ x.base = db[d].base
        /\ x.watermark = db[d].watermark /\ x.dead = db[d].dead
  <2> HIDE DEF O
  <2> QED
    BY Fields DEF Database
<1>4. db' = [db EXCEPT ![d] = x]
  BY DEF StartDrain
<1> HIDE DEF x, O
<1>5. db' \in [Devices -> Database] /\ db'[d] = x /\ \A e \in Devices \ {d} : db'[e] = db[e]
  BY <1>2, <1>4, DbSet
<1>6. /\ DOMAIN run' = Devices
      /\ \A e \in Devices \ {d} : run'[e] = run[e]
      /\ \A e \in Devices : LET pushed == DOMAIN run'[e].prep
                            IN  pushed \subseteq Keys /\ run'[e] \in Run(pushed)
      /\ run'[d].pc = "push" /\ DOMAIN run'[d].prep = Sendable(d)
      /\ \A k \in Sendable(d) : run'[d].prep[k] = Sealed(d, k)
  <2> DEFINE P == [k \in Sendable(d) |-> Sealed(d, k)]
  <2>1. DOMAIN P = Sendable(d) /\ DOMAIN P \subseteq Keys /\ P \in [DOMAIN P -> Prepared]
    BY SealedTyped DEF Sendable
  <2>2. run' = [run EXCEPT ![d] = [Idle EXCEPT !.pc = "push", !.prep = P]]
    BY DEF StartDrain
  <2> HIDE DEF P
  <2>3. run'[d].prep = P
    BY <2>1, <2>2, DrainRun
  <2>4. \A k \in Sendable(d) : P[k] = Sealed(d, k)
    BY DEF P
  <2> QED
    BY <2>1, <2>2, <2>3, <2>4, DrainRun
<1>7. UNCHANGED <<log, handles, late, minted, held>> /\ mishaps' \in 0 .. MaxMishaps
  BY DEF StartDrain, TypeOK
<1>8. TypeOK'
  BY <1>5, <1>6, <1>7 DEF TypeOK
<1>9. Elsewhere(d)
  BY <1>5, <1>6, <1>7 DEF Elsewhere
<1>10. db'[d].row = x.row /\ db'[d].meta = x.meta /\ db'[d].base = x.base
         /\ db'[d].outbox = x.outbox /\ db'[d].watermark = x.watermark /\ db'[d].dead = x.dead
  BY <1>5
<1> USE DEF O
<1> QED
  BY <1>3, <1>7, <1>6, <1>8, <1>9, <1>10

-----------------------------------------------------------------------------
(* Effects: commits, and what only moves the run on.                          *)

(* What the decision on an awaited record does.                               *)
LEMMA CommitEffect ==
  ASSUME TypeOK, LogInv, NEW d \in Devices, NEW k \in Keys, NEW room \in 0 .. 1,
         Commit(d, k, room), NEW v, v = Verdict(k, run[d].prep[k], room)
  PROVE  /\ TypeOK' /\ Grows /\ db' = db /\ held' = held
         /\ Serve(k, run[d].prep[k], v) /\ OnTheWire(d, k)
         /\ \A e \in Devices \ {d} : run'[e] = run[e]
         /\ run[d].pc = "push" /\ run'[d].pc = "push"
         /\ DOMAIN run'[d].prep = DOMAIN run[d].prep
         /\ \A q \in DOMAIN run[d].prep \ {k} : run'[d].prep[q] = run[d].prep[q]
         /\ run'[d].prep[k].op = run[d].prep[k].op /\ run'[d].prep[k].base = run[d].prep[k].base
         /\ run'[d].prep[k].seqs = run[d].prep[k].seqs
         /\ run'[d].prep[k].content = run[d].prep[k].content
         /\ run'[d].prep[k].answer = Status(v)
         /\ run'[d].prep[k].rev = IF Commits(v) THEN Len(log) + 1 ELSE Latest(k)
<1>1. k \in DOMAIN run[d].prep /\ run[d].pc = "push" /\ Serve(k, run[d].prep[k], v)
      /\ OnTheWire(d, k)
  BY DEF Commit, OnTheWire
<1>2. run[d].prep[k] \in Prepared /\ run[d].prep[k].content \in Contents \cup {Nothing}
  BY <1>1, PreparedIs
<1>3. Grows
  BY <1>1, <1>2, ServeGrows
<1>4. log' \in Seq(Change) /\ Len(log') \in Nat
  BY <1>3, GrownLog
<1>5. PICK h \in Nat : h = Len(log')
  BY <1>4
<1> DEFINE R == IF Commits(v) THEN Len(log) + 1 ELSE Latest(k)
           A == Status(v)
           p == [run[d].prep[k] EXCEPT !.answer = A, !.rev = R]
           P == [run[d].prep EXCEPT ![k] = p]
           N == IF A = "ok" THEN Max({run[d].pushed, R}) ELSE run[d].pushed
<1>6. R \in Nat
  BY LatestIs, Logged
<1>7. A \in {"none", "ok", "conflict", "tombstoned", "read", "error"}
  BY DEF Status
<1>8. N \in Nat
  <2>1. run[d].pushed \in Nat
    BY Fields
  <2> HIDE DEF A, R
  <2>2. Max({run[d].pushed, R}) \in Nat
    BY <1>6, <2>1, Extremes
  <2> QED
    BY <2>1, <2>2
<1>9. p \in Prepared /\ p.answer = A /\ p.rev = R /\ p.op = run[d].prep[k].op
      /\ p.base = run[d].prep[k].base /\ p.seqs = run[d].prep[k].seqs
      /\ p.content = run[d].prep[k].content
  <2> HIDE DEF A, R
  <2> QED
    BY <1>2, <1>6, <1>7 DEF Prepared
<1>10. run' = [run EXCEPT ![d].prep = P, ![d].head = h, ![d].pushed = N]
  BY <1>5 DEF Commit
<1>11. /\ DOMAIN P = DOMAIN run[d].prep /\ DOMAIN P \subseteq Keys
            /\ P \in [DOMAIN P -> Prepared]
       /\ P[k] = p /\ \A q \in DOMAIN run[d].prep \ {k} : P[q] = run[d].prep[q]
  <2> HIDE DEF p
  <2> QED
    BY <1>1, <1>9, Fields
<1> HIDE DEF p, P, N
<1>12. /\ DOMAIN run' = Devices
       /\ \A e \in Devices \ {d} : run'[e] = run[e]
       /\ \A e \in Devices : LET pushed == DOMAIN run'[e].prep
                             IN  pushed \subseteq Keys /\ run'[e] \in Run(pushed)
       /\ run'[d].pc = run[d].pc /\ run'[d].prep = P
  BY <1>8, <1>10, <1>11, CommitRun
<1>13. UNCHANGED <<db, handles, late, minted, mishaps, held>>
  BY DEF Commit
<1>14. TypeOK'
  BY <1>4, <1>12, <1>13 DEF TypeOK
<1> QED
  BY <1>1, <1>3, <1>9, <1>11, <1>12, <1>13, <1>14

(* What the decision on a record no one awaits does.                          *)
LEMMA CommitLateEffect ==
  ASSUME TypeOK, LogInv, CommitLate
  PROVE  TypeOK' /\ Grows /\ db' = db /\ held' = held /\ run' = run
<1>1. PICK p \in late : /\ late' = late \ {p}
                        /\ Serve(p.key, p, Verdict(p.key, p, 1)) \/ UNCHANGED log
                        /\ UNCHANGED <<db, run, handles, minted, mishaps, held>>
  BY DEF CommitLate
<1>2. p.key \in Keys /\ p.content \in Contents \cup {Nothing}
  <2>1. p \in Request
    BY DEF TypeOK
  <2> QED
    BY <2>1 DEF Request
<1>3. Grows
  BY <1>1, <1>2, ServeGrows DEF Grows
<1>4. log' \in Seq(Change)
  BY <1>3, GrownLog
<1>5. late' \subseteq Request
  BY <1>1 DEF TypeOK
<1>6. TypeOK'
  BY <1>1, <1>4, <1>5 DEF TypeOK
<1> QED
  BY <1>1, <1>3, <1>6

(* What a refusal for a tombstone does, in its first transaction.             *)
LEMMA ReadEffect ==
  ASSUME TypeOK, NEW d \in Devices, NEW k \in Keys, ReadTombstoned(d, k)
  PROVE  /\ TypeOK' /\ Elsewhere(d) /\ db' = db /\ held' = held
         /\ run[d].pc = "push" /\ run'[d].pc = "push" /\ k \in DOMAIN run[d].prep
         /\ run[d].prep[k].answer = "tombstoned"
         /\ DOMAIN run'[d].prep = DOMAIN run[d].prep
         /\ \A q \in DOMAIN run[d].prep \ {k} : run'[d].prep[q] = run[d].prep[q]
         /\ run'[d].prep[k].op = run[d].prep[k].op /\ run'[d].prep[k].seqs = run[d].prep[k].seqs
         /\ run'[d].prep[k].answer = "read"
<1>1. k \in DOMAIN run[d].prep /\ run[d].pc = "push" /\ run[d].prep[k].answer = "tombstoned"
  BY DEF ReadTombstoned, Answered
<1>2. run[d].prep[k] \in Prepared /\ db[d].row[k] \in Contents \cup {Nothing}
  BY <1>1, PreparedIs, Fields
<1> DEFINE p == [run[d].prep[k] EXCEPT !.answer = "read", !.content = db[d].row[k]]
           P == [run[d].prep EXCEPT ![k] = p]
<1>3. p \in Prepared /\ p.answer = "read" /\ p.op = run[d].prep[k].op
        /\ p.seqs = run[d].prep[k].seqs
  BY <1>2 DEF Prepared
<1>4. run' = [run EXCEPT ![d].prep = P]
  BY DEF ReadTombstoned
<1>5. /\ DOMAIN P = DOMAIN run[d].prep /\ DOMAIN P \subseteq Keys
           /\ P \in [DOMAIN P -> Prepared]
      /\ P[k] = p /\ \A q \in DOMAIN run[d].prep \ {k} : P[q] = run[d].prep[q]
  <2> HIDE DEF p
  <2> QED
    BY <1>1, <1>3, Fields
<1> HIDE DEF p, P
<1>6. /\ DOMAIN run' = Devices
      /\ \A e \in Devices \ {d} : run'[e] = run[e]
      /\ \A e \in Devices : LET pushed == DOMAIN run'[e].prep
                            IN  pushed \subseteq Keys /\ run'[e] \in Run(pushed)
      /\ run'[d].pc = run[d].pc /\ run'[d].prep = P
  BY <1>4, <1>5, PrepRun
<1>7. UNCHANGED <<log, db, handles, late, minted, mishaps, held>>
  BY DEF ReadTombstoned, Answered
<1>8. TypeOK' /\ Elsewhere(d)
  BY <1>6, <1>7 DEF TypeOK, Elsewhere
<1> QED
  BY <1>1, <1>3, <1>5, <1>6, <1>7, <1>8

(* A conflict or an error changes nothing but the run.                        *)
LEMMA PassedEffect ==
  ASSUME TypeOK, NEW d \in Devices, NEW k \in Keys, AckConflict(d, k) \/ AckError(d, k)
  PROVE  /\ TypeOK' /\ Elsewhere(d) /\ db' = db /\ held' = held
         /\ run[d].pc = "push" /\ run'[d].pc = "push" /\ k \in DOMAIN run[d].prep
         /\ DOMAIN run'[d].prep = DOMAIN run[d].prep \ {k}
         /\ \A q \in DOMAIN run[d].prep \ {k} : run'[d].prep[q] = run[d].prep[q]
<1>1. k \in DOMAIN run[d].prep /\ run[d].pc = "push"
  BY DEF AckConflict, AckError, Answered
<1>2. /\ DOMAIN run' = Devices
      /\ \A e \in Devices \ {d} : run'[e] = run[e]
      /\ \A e \in Devices : LET pushed == DOMAIN run'[e].prep
                            IN  pushed \subseteq Keys /\ run'[e] \in Run(pushed)
      /\ run'[d].pc = run[d].pc /\ DOMAIN run'[d].prep = DOMAIN run[d].prep \ {k}
      /\ \A q \in DOMAIN run[d].prep \ {k} : run'[d].prep[q] = run[d].prep[q]
  <2>1. CASE AckError(d, k)
    BY <1>1, <2>1, TakenEffect DEF AckError
  <2>2. CASE AckConflict(d, k)
    <3> DEFINE P == Others(d, k)
    <3>1. /\ DOMAIN P = DOMAIN run[d].prep \ {k}
          /\ \A q \in DOMAIN P : P[q] = run[d].prep[q]
          /\ P = [q \in DOMAIN P |-> P[q]]
      BY DEF Others, Restrict
    <3>2. run' = [run EXCEPT ![d].need = TRUE, ![d].prep = P]
      BY <2>2 DEF AckConflict
    <3> HIDE DEF P
    <3>3. DOMAIN P \subseteq Keys /\ P \in [DOMAIN P -> Prepared]
      BY <3>1, Fields
    <3>4. /\ DOMAIN run' = Devices
          /\ \A e \in Devices \ {d} : run'[e] = run[e]
          /\ \A e \in Devices : LET pushed == DOMAIN run'[e].prep
                                IN  pushed \subseteq Keys /\ run'[e] \in Run(pushed)
          /\ run'[d].pc = run[d].pc /\ run'[d].prep = P
      BY <3>2, <3>3, ConflictRun
    <3> QED
      BY <3>1, <3>4
  <2> QED
    BY <2>1, <2>2
<1>3. UNCHANGED <<log, db, handles, late, minted, mishaps, held>>
  BY DEF AckConflict, AckError, Answered
<1>4. TypeOK' /\ Elsewhere(d)
  BY <1>2, <1>3 DEF TypeOK, Elsewhere
<1> QED
  BY <1>1, <1>2, <1>3, <1>4

(* What the end of a drain does.                                              *)
LEMMA EndDrainEffect ==
  ASSUME TypeOK, NEW d \in Devices, NEW cycle \in BOOLEAN, EndDrain(d, cycle)
  PROVE  /\ TypeOK' /\ Elsewhere(d) /\ db' = db /\ held' = held
         /\ run'[d].pc \in {"idle", "pull"} /\ DOMAIN run'[d].prep = {}
<1>1. PICK c : c = (cycle /\ PullDue(d))
  OBVIOUS
<1>2. run' = [run EXCEPT ![d] = IF c THEN [Idle EXCEPT !.pc = "pull"] ELSE Idle]
  BY <1>1 DEF EndDrain
<1>3. /\ DOMAIN run' = Devices
      /\ \A e \in Devices \ {d} : run'[e] = run[e]
      /\ \A e \in Devices : LET pushed == DOMAIN run'[e].prep
                            IN  pushed \subseteq Keys /\ run'[e] \in Run(pushed)
      /\ run'[d].pc \in {"idle", "pull"} /\ DOMAIN run'[d].prep = {}
  BY <1>2, EndDrainRun
<1>4. handles' \in [Devices -> SUBSET Keys]
  BY DEF EndDrain, TypeOK, Undoable
<1>5. UNCHANGED <<log, db, late, minted, mishaps, held>>
  BY DEF EndDrain
<1>6. TypeOK' /\ Elsewhere(d)
  BY <1>3, <1>4, <1>5 DEF TypeOK, Elsewhere
<1> QED
  BY <1>3, <1>5, <1>6

(* What a cycle that starts with a pull does.                                 *)
LEMMA StartPullEffect ==
  ASSUME TypeOK, NEW d \in Devices, StartPull(d)
  PROVE  /\ TypeOK' /\ Elsewhere(d) /\ db' = db /\ held' = held
         /\ run[d].pc = "idle" /\ run'[d].pc = "pull" /\ run'[d].prep = run[d].prep
<1>1. /\ DOMAIN run' = Devices
      /\ \A e \in Devices \ {d} : run'[e] = run[e]
      /\ \A e \in Devices : LET pushed == DOMAIN run'[e].prep
                            IN  pushed \subseteq Keys /\ run'[e] \in Run(pushed)
      /\ run'[d].pc = "pull" /\ run'[d].prep = run[d].prep
  BY StartPullRun
<1>2. UNCHANGED <<log, db, handles, late, minted, mishaps, held>> /\ run[d].pc = "idle"
  BY DEF StartPull
<1>3. TypeOK' /\ Elsewhere(d)
  BY <1>1, <1>2 DEF TypeOK, Elsewhere
<1> QED
  BY <1>1, <1>2, <1>3

(* The revs a fetch of d chooses from, and its pages.                          *)
News(d) == {r \in DOMAIN log : r > db[d].watermark /\ r = Latest(log[r].key)}
FirstNews(d, n) == {r \in News(d) : Cardinality({s \in News(d) : s <= r}) <= n}

(* What the fetch of a page does.                                             *)
LEMMA FetchEffect ==
  ASSUME TypeOK, NEW d \in Devices, Fetch(d)
  PROVE  /\ TypeOK' /\ Elsewhere(d) /\ db' = db /\ held' = held
         /\ run[d].pc = "pull" /\ run'[d].pc = "apply" /\ run'[d].prep = run[d].prep
         /\ \E n \in 1 .. PageLimit : run'[d].page = FirstNews(d, n)
         /\ run'[d].top = db[d].watermark /\ run'[d].low = 0
<1>1. PICK page \in {FirstNews(d, n) : n \in 1 .. PageLimit} :
        run' = [run EXCEPT ![d].pc = "apply", ![d].page = page,
                           ![d].more = (page # News(d)),
                           ![d].top = db[d].watermark, ![d].low = 0]
  BY DEF Fetch, FirstNews, News
<1>2. PICK more : more = (page # News(d))
  OBVIOUS
<1>3. page \subseteq Nat
  BY Logged DEF FirstNews, News
<1>4. more \in BOOLEAN
  BY <1>2
<1>5. /\ DOMAIN run' = Devices
      /\ \A e \in Devices \ {d} : run'[e] = run[e]
      /\ \A e \in Devices : LET pushed == DOMAIN run'[e].prep
                            IN  pushed \subseteq Keys /\ run'[e] \in Run(pushed)
      /\ run'[d].pc = "apply" /\ run'[d].prep = run[d].prep /\ run'[d].page = page
      /\ run'[d].top = db[d].watermark /\ run'[d].low = 0
  BY ZenonT(60), <1>1, <1>2, <1>3, <1>4, FetchRun
<1>6. UNCHANGED <<log, db, handles, late, minted, mishaps, held>> /\ run[d].pc = "pull"
  BY DEF Fetch
<1>7. TypeOK' /\ Elsewhere(d)
  BY <1>5, <1>6 DEF TypeOK, Elsewhere
<1> QED
  BY <1>1, <1>5, <1>6, <1>7

(* What leaving a tombstone for the next cycle does.                          *)
LEMMA DeferEffect ==
  ASSUME TypeOK, NEW d \in Devices, PageInv(d), NEW r, NEW k, DeferTombstone(d, r, k)
  PROVE  /\ TypeOK' /\ Elsewhere(d) /\ db' = db /\ held' = held
         /\ run'[d].pc = "apply" /\ run'[d].prep = run[d].prep
         /\ run'[d].page = run[d].page \ {r} /\ run'[d].top = run[d].top
         /\ run[d].low = 0 => run'[d].low = r
         /\ run[d].low # 0 => run'[d].low = run[d].low
<1> DEFINE L == IF run[d].low = 0 THEN r ELSE Min({run[d].low, r})
<1>1. Applying(d, r, k, Nothing) /\ r \in Nat /\ run[d].low \in Nat /\ r > run[d].low
      /\ run[d].pc = "apply"
  <2>1. Applying(d, r, k, Nothing)
    BY DEF DeferTombstone
  <2> QED
    BY <2>1, ApplyingIs, Fields DEF PageInv
<1>2. L \in Nat /\ (run[d].low = 0 => L = r) /\ (run[d].low # 0 => L = run[d].low)
  <2>1. Min({run[d].low, r}) \in {run[d].low, r} /\ Min({run[d].low, r}) <= run[d].low
    BY <1>1, Extremes
  <2>2. Min({run[d].low, r}) = run[d].low
    BY <1>1, <2>1
  <2> QED
    BY <1>1, <2>2
<1>3. run' = [run EXCEPT ![d].page = @ \ {r}, ![d].more = FALSE, ![d].low = L]
  BY DEF DeferTombstone
<1> HIDE DEF L
<1>4. /\ DOMAIN run' = Devices
      /\ \A e \in Devices \ {d} : run'[e] = run[e]
      /\ \A e \in Devices : LET pushed == DOMAIN run'[e].prep
                            IN  pushed \subseteq Keys /\ run'[e] \in Run(pushed)
      /\ run'[d].pc = run[d].pc /\ run'[d].prep = run[d].prep
      /\ run'[d].page = run[d].page \ {r} /\ run'[d].top = run[d].top /\ run'[d].low = L
  BY ZenonT(60), <1>1, <1>2, <1>3, DeferRun
<1>5. UNCHANGED <<log, db, handles, late, minted, mishaps, held>>
  BY DEF DeferTombstone, Applying
<1>6. TypeOK' /\ Elsewhere(d)
  BY <1>4, <1>5 DEF TypeOK, Elsewhere
<1> QED
  BY <1>1, <1>2, <1>4, <1>5, <1>6

(* A change that is skipped changes nothing but the run.                      *)
LEMMA SkippedEffect ==
  ASSUME TypeOK, NEW d \in Devices, PageInv(d), NEW r, NEW k, NEW c,
         ApplyNothing(d, r, k, c) \/ Tamper(d, r, k, c)
  PROVE  /\ TypeOK' /\ Elsewhere(d) /\ db' = db /\ held' = held
         /\ run'[d].page = run[d].page \ {r} /\ run'[d].top = r /\ run'[d].low = run[d].low
         /\ run'[d].stamp = NoKey /\ run'[d].prep = run[d].prep /\ run'[d].pc = "apply"
<1>1. Applied(d, r, NoKey) /\ Applying(d, r, k, c) /\ r \in Nat
  BY ApplyingIs DEF ApplyNothing, Tamper, Inserting, Upserting
<1>2. /\ DOMAIN run' = Devices
      /\ \A e \in Devices \ {d} : run'[e] = run[e]
      /\ \A e \in Devices : LET pushed == DOMAIN run'[e].prep
                            IN  pushed \subseteq Keys /\ run'[e] \in Run(pushed)
      /\ run'[d].page = run[d].page \ {r} /\ run'[d].top = r /\ run'[d].low = run[d].low
      /\ run'[d].stamp = NoKey /\ run'[d].prep = run[d].prep /\ run'[d].pc = "apply"
  BY <1>1, AppliedEffect
<1>3. UNCHANGED <<log, db, handles, late, minted, mishaps, held>>
  BY <1>1 DEF ApplyNothing, Tamper, Applying
<1>4. TypeOK' /\ Elsewhere(d)
  BY <1>2, <1>3 DEF TypeOK, Elsewhere
<1> QED
  BY <1>2, <1>3, <1>4

(* What an interruption does.                                                 *)
LEMMA InterruptEffect ==
  ASSUME TypeOK, NEW d \in Devices, Interrupt(d)
  PROVE  /\ TypeOK' /\ Elsewhere(d) /\ db' = db /\ held' = held
         /\ run'[d].pc = "idle" /\ DOMAIN run'[d].prep = {}
<1>1. /\ DOMAIN run' = Devices
      /\ \A e \in Devices \ {d} : run'[e] = run[e]
      /\ \A e \in Devices : LET pushed == DOMAIN run'[e].prep
                            IN  pushed \subseteq Keys /\ run'[e] \in Run(pushed)
      /\ run'[d].pc = "idle" /\ DOMAIN run'[d].prep = {}
  BY IdleEffect DEF Interrupt
<1>2. \A k \in {q \in Keys : OnTheWire(d, q)} :
        [key |-> k, op |-> run[d].prep[k].op, base |-> run[d].prep[k].base,
         content |-> run[d].prep[k].content] \in Request
  BY PreparedIs DEF OnTheWire, Request
<1>3. late' \subseteq Request
  BY <1>2 DEF Interrupt, TypeOK
<1>4. mishaps' \in 0 .. MaxMishaps
  BY EngineAssumption DEF Interrupt, Mishap, TypeOK
<1>5. UNCHANGED <<log, db, handles, minted, held>>
  BY DEF Interrupt
<1>6. TypeOK' /\ Elsewhere(d)
  BY <1>1, <1>3, <1>4, <1>5 DEF TypeOK, Elsewhere
<1> QED
  BY <1>1, <1>5, <1>6

-----------------------------------------------------------------------------
(* What keeps each part of the invariant.                                     *)

(* What a step may make of the base of key k.                                  *)
Moves(d, k) ==
  LET r == db'[d].meta[k] IN
  \/ r = db[d].meta[k]
  \/ r = 0 /\ Tombstoned(k)
  \/ r \in DOMAIN log /\ log[r].key = k /\ log[r].content # Nothing /\ r > db[d].watermark

(* BaseInv survives a step whose bases move as Moves allows.                  *)
LEMMA BaseKeeps ==
  ASSUME TypeOK, LogInv, Grows, NEW d \in Devices, BaseInv(d), db'[d].dead \subseteq Keys,
         \A k \in Keys : Moves(d, k), \A k \in db'[d].dead : k \in db[d].dead \/ Tombstoned(k)
  PROVE  BaseInv(d)'
<1>1. \A r \in DOMAIN log : r \in DOMAIN log' /\ log'[r] = log[r]
  BY GrownLog
<1>2. \A k \in Keys : Tombstoned(k) => Tombstoned(k)'
  BY GrownLog
<1>3. ASSUME NEW k \in Keys, db'[d].meta[k] # 0
      PROVE  /\ db'[d].meta[k] \in DOMAIN log' /\ log'[db'[d].meta[k]].key = k
             /\ log'[db'[d].meta[k]].content # Nothing
  BY <1>1, <1>3 DEF BaseInv, Moves
<1>4. \A k \in db'[d].dead : Tombstoned(k)'
  BY <1>2 DEF BaseInv
<1> QED
  BY <1>3, <1>4 DEF BaseInv

(* CoverInv survives it too, unless the watermark advances.                   *)
LEMMA CoverKeeps ==
  ASSUME TypeOK, LogInv, Grows, NEW d \in Devices, CoverInv(d),
         db'[d].watermark \in Nat, db'[d].watermark <= db[d].watermark,
         \A k \in Keys : Moves(d, k)
  PROVE  CoverInv(d)'
<1>1. /\ \A r \in DOMAIN log : r \in DOMAIN log' /\ log'[r] = log[r]
      /\ \A k, r : LastOf(k, r)' => LastOf(k, r) \/ r = Len(log) + 1
      /\ Len(log') \in Nat /\ Len(log) <= Len(log')
  BY GrownLog
<1>2. db[d].watermark \in Nat /\ db[d].watermark <= Len(log) /\ Len(log) \in Nat
  BY Fields, Logged DEF CoverInv
<1>3. ASSUME NEW k \in Keys, NEW r \in DOMAIN log', LastOf(k, r)', r <= db'[d].watermark
      PROVE  db'[d].meta[k] = IF log'[r].content = Nothing THEN 0 ELSE r
  <2>1. r \in Nat
    <3>1. log' \in Seq(Change)
      BY GrownLog
    <3> QED
      BY <3>1
  <2>2. LastOf(k, r) /\ r <= db[d].watermark /\ r \in DOMAIN log
    <3>1. r <= db[d].watermark /\ r # Len(log) + 1
      BY <1>2, <1>3, <2>1
    <3> QED
      BY <1>1, <1>3, <3>1 DEF LastOf
  <2>3. db[d].meta[k] = IF log[r].content = Nothing THEN 0 ELSE r
    BY <2>2 DEF CoverInv, Has
  <2>4. log'[r] = log[r]
    BY <1>1, <2>2
  <2>5. CASE db'[d].meta[k] = db[d].meta[k]
    BY <2>3, <2>4, <2>5
  <2>6. CASE db'[d].meta[k] = 0 /\ Tombstoned(k)
    <3>1. PICK s \in DOMAIN log : log[s].key = k /\ log[s].content = Nothing
      BY <2>6 DEF Tombstoned
    <3>2. r <= s /\ s <= r /\ s \in Nat
      BY <2>2, <3>1, Logged DEF LogInv, LastOf
    <3>3. s = r
      BY <2>1, <3>2
    <3> QED
      BY <2>4, <2>6, <3>1, <3>3
  <2>7. CASE /\ db'[d].meta[k] \in DOMAIN log /\ log[db'[d].meta[k]].key = k
             /\ db'[d].meta[k] > db[d].watermark
    <3>1. db'[d].meta[k] <= r /\ db'[d].meta[k] \in Nat
      BY <2>2, <2>7, Logged DEF LastOf
    <3> QED
      BY <1>2, <2>1, <2>2, <2>7, <3>1
  <2> QED
    BY <2>5, <2>6, <2>7 DEF Moves
<1>4. db'[d].watermark <= Len(log')
  BY <1>1, <1>2
<1> QED
  BY <1>3, <1>4 DEF CoverInv, Has

(* An answer stays sound while the log grows and the base of its key stays.   *)
LEMMA AnswerKeeps ==
  ASSUME TypeOK, LogInv, Grows, NEW d \in Devices, NEW k \in Keys, NEW p, p.rev \in Nat,
         AnswerOK(d, k, p), db'[d].meta[k] = db[d].meta[k],
         db'[d].watermark \in Nat, db'[d].watermark <= db[d].watermark
  PROVE  AnswerOK(d, k, p)'
<1>1. /\ \A r \in DOMAIN log : r \in DOMAIN log' /\ log'[r] = log[r]
      /\ Tombstoned(k) => Tombstoned(k)'
  BY GrownLog
<1>2. ASSUME p.answer = "ok", p.op = "upsert"
      PROVE  /\ p.rev \in DOMAIN log' /\ p.content # Nothing
             /\ log'[p.rev] = [key |-> k, content |-> p.content]
             /\ p.rev > db'[d].watermark /\ p.rev > db'[d].meta[k]
  <2>1. /\ p.rev \in DOMAIN log /\ p.content # Nothing
        /\ log[p.rev] = [key |-> k, content |-> p.content]
        /\ p.rev > db[d].watermark /\ p.rev > db[d].meta[k]
    BY <1>2 DEF AnswerOK
  <2>2. p.rev > db'[d].watermark
    BY <2>1, Fields
  <2> QED
    BY <1>1, <2>1, <2>2
<1> QED
  BY <1>1, <1>2 DEF AnswerOK

(* PushInv survives the taking of a record whose key alone moved.             *)
LEMMA PushKeeps ==
  ASSUME TypeOK, LogInv, Grows, NEW d \in Devices, PushInv(d),
         db'[d].watermark \in Nat, db'[d].watermark <= db[d].watermark,
         run'[d].pc # "push" => DOMAIN run'[d].prep = {},
         DOMAIN run'[d].prep \subseteq DOMAIN run[d].prep,
         \A q \in DOMAIN run'[d].prep :
           run'[d].prep[q] = run[d].prep[q] /\ db'[d].meta[q] = db[d].meta[q]
  PROVE  PushInv(d)'
<1>1. ASSUME NEW q \in DOMAIN run'[d].prep, NEW p, p = run'[d].prep[q]
      PROVE  AnswerOK(d, q, p)'
  <2>1. q \in DOMAIN run[d].prep /\ q \in Keys /\ p = run[d].prep[q] /\ p.rev \in Nat
    BY <1>1, PreparedIs
  <2>2. AnswerOK(d, q, p)
    BY <2>1 DEF PushInv
  <2> QED
    BY <2>1, <2>2, AnswerKeeps
<1>2. \A q \in DOMAIN run'[d].prep : AnswerOK(d, q, run[d].prep[q])'
  <2> SUFFICES ASSUME NEW q \in DOMAIN run'[d].prep PROVE AnswerOK(d, q, run[d].prep[q])'
    OBVIOUS
  <2>1. PICK p : p = run'[d].prep[q]
    OBVIOUS
  <2> QED
    BY <1>1, <2>1 DEF AnswerOK, Tombstoned
<1> QED
  BY <1>2 DEF PushInv

(* PageInv survives a step that leaves page and bases alone, whatever the     *)
(* server commits.                                                            *)
LEMMA PageKeeps ==
  ASSUME TypeOK, LogInv, Grows, NEW d \in Devices, PageInv(d), CoverInv(d),
         db'[d].watermark \in Nat, db'[d].watermark <= db[d].watermark,
         \A k \in Keys : db'[d].meta[k] = db[d].meta[k], db'[d].dead = db[d].dead,
         run'[d].pc \in {"apply", "stamp"} => run[d].pc \in {"apply", "stamp"},
         run'[d].page = run[d].page, run'[d].top = run[d].top, run'[d].low = run[d].low
  PROVE  PageInv(d)'
<1> SUFFICES ASSUME run'[d].pc \in {"apply", "stamp"}
             PROVE  PageInv(d)'
  BY DEF PageInv
<1>1. /\ \A r \in DOMAIN log : r \in DOMAIN log' /\ log'[r] = log[r]
      /\ \A k, r : LastOf(k, r)' => LastOf(k, r) \/ r = Len(log) + 1
      /\ Len(log') \in Nat /\ Len(log) <= Len(log')
      /\ \A r \in DOMAIN log' \ DOMAIN log : r = Len(log) + 1
      /\ log' \in Seq(Change)
  BY GrownLog
<1>2. /\ run[d].top \in Nat /\ run[d].low \in Nat /\ run[d].page \subseteq Nat
      /\ db[d].watermark \in Nat /\ Len(log) \in Nat /\ DOMAIN log = 1 .. Len(log)
  BY Fields, Logged
<1>3. /\ run[d].page \subseteq DOMAIN log /\ run[d].top <= Len(log) /\ run[d].low <= Len(log)
      /\ \A r \in run[d].page : r > db[d].watermark /\ r > run[d].top /\ r > run[d].low
      /\ \A r \in run[d].page : log[r].content # Nothing => log[r].key \notin db[d].dead
  BY DEF PageInv
<1>4. ASSUME NEW r \in run[d].page, NEW t \in run[d].page, NEW s \in DOMAIN log',
             log'[s].key = log'[r].key, s > r
      PROVE  s > t
  <2>1. CASE s \in DOMAIN log
    <3>1. log[s].key = log[r].key
      BY <1>1, <1>3, <1>4, <2>1
    <3> QED
      BY <1>4, <2>1, <3>1 DEF PageInv
  <2>2. CASE s \notin DOMAIN log
    <3>1. s = Len(log) + 1 /\ t \in 1 .. Len(log)
      BY <1>1, <1>2, <1>3, <2>2
    <3> QED
      BY <1>2, <3>1
  <2> QED
    BY <2>1, <2>2
<1>5. ASSUME NEW k \in Keys, NEW r \in DOMAIN log', LastOf(k, r)', r > db'[d].watermark,
             r <= run[d].top \/ r <= run[d].low \/ \E s \in run[d].page : r <= s
      PROVE  \/ r \in run[d].page \/ (run[d].low # 0 /\ r >= run[d].low)
             \/ db'[d].meta[k] = IF log'[r].content = Nothing THEN 0 ELSE r
  <2>1. r \in Nat
    BY <1>1
  <2>2. r # Len(log) + 1
    <3>1. \A s \in run[d].page : s \in Nat /\ s <= Len(log)
      BY <1>2, <1>3
    <3> QED
      BY <1>2, <1>3, <1>5, <2>1, <3>1
  <2>3. LastOf(k, r) /\ r \in DOMAIN log /\ log'[r] = log[r]
    BY <1>1, <1>5, <2>2 DEF LastOf
  <2>4. CASE r <= db[d].watermark
    BY <2>3, <2>4 DEF CoverInv, Has
  <2>5. CASE r > db[d].watermark
    BY <1>5, <2>3, <2>5 DEF PageInv, Has
  <2> QED
    BY <1>2, <2>1, <2>4, <2>5
<1>6. \A r \in run[d].page : r > db'[d].watermark
  BY <1>2, <1>3
<1>7. run[d].page \subseteq DOMAIN log' /\ run[d].top <= Len(log') /\ run[d].low <= Len(log')
  BY <1>1, <1>2, <1>3
<1>8. \A r \in run[d].page : log'[r].content # Nothing => log'[r].key \notin db[d].dead
  BY <1>1, <1>3
<1> QED
  BY <1>3, <1>4, <1>5, <1>6, <1>7, <1>8 DEF PageInv, Has

-----------------------------------------------------------------------------
(* The page and the watermark.                                                *)

(* PageInv survives the applying of the page's lowest change.                 *)
LEMMA PageApplied ==
  ASSUME TypeOK, LogInv, NEW d \in Devices, PageInv(d), log' = log,
         run[d].pc \in {"apply", "stamp"},
         NEW r \in run[d].page, NEW k, k = log[r].key, \A t \in run[d].page : r <= t,
         run'[d].page = run[d].page \ {r}, run'[d].top = r, run'[d].low = run[d].low,
         db'[d].watermark = db[d].watermark,
         \A q \in Keys \ {k} : db'[d].meta[q] = db[d].meta[q],
         LastOf(k, r) => db'[d].meta[k] = IF log[r].content = Nothing THEN 0 ELSE r,
         \A q \in db'[d].dead : q \in db[d].dead \/ (q = k /\ log[r].content = Nothing)
  PROVE  PageInv(d)'
<1>1. /\ run[d].low \in Nat /\ run[d].top \in Nat /\ run[d].page \subseteq Nat /\ r \in Nat
      /\ db[d].watermark \in Nat /\ Len(log) \in Nat /\ DOMAIN log = 1 .. Len(log)
  BY Fields, Logged
<1>2. /\ run[d].page \subseteq DOMAIN log /\ run[d].top <= Len(log) /\ run[d].low <= Len(log)
      /\ \A t \in run[d].page : t > db[d].watermark /\ t > run[d].top /\ t > run[d].low
      /\ \A t \in run[d].page : log[t].content # Nothing => log[t].key \notin db[d].dead
      /\ \A p, t \in run[d].page, s \in DOMAIN log :
           log[s].key = log[p].key /\ s > p => s > t
  BY DEF PageInv
<1>3. \A t \in run[d].page \ {r} : t > r
  BY <1>1
<1>4. ASSUME NEW t \in run[d].page \ {r}, log[t].content # Nothing
      PROVE  log[t].key \notin db'[d].dead
  <2>1. log[t].key # k
    <3>1. SUFFICES ASSUME log[t].key = k PROVE FALSE
      OBVIOUS
    <3>2. t > t
      BY <1>2, <1>3, <3>1
    <3> QED
      BY <1>1, <3>2
  <2> QED
    BY <1>2, <1>4, <2>1
<1>5. ASSUME NEW q \in Keys, NEW s \in DOMAIN log, LastOf(q, s), s > db[d].watermark,
             s <= r \/ s <= run[d].low \/ \E t \in run[d].page \ {r} : s <= t
      PROVE  \/ s \in run[d].page \ {r} \/ (run[d].low # 0 /\ s >= run[d].low)
             \/ db'[d].meta[q] = IF log[s].content = Nothing THEN 0 ELSE s
  <2>1. s <= run[d].top \/ s <= run[d].low \/ \E t \in run[d].page : s <= t
    BY <1>5
  <2>2. s \in run[d].page \/ (run[d].low # 0 /\ s >= run[d].low) \/ Has(d, q, s)
    BY <1>5, <2>1 DEF PageInv
  <2>3. CASE s = r
    <3>1. q = k
      BY <1>5, <2>3 DEF LastOf
    <3> QED
      BY <1>5, <2>3, <3>1
  <2>4. CASE s # r /\ q # k
    BY <2>2, <2>4 DEF Has
  <2>5. CASE s # r /\ q = k
    <3>1. s > r /\ log[s].key = log[r].key /\ s \in Nat
      <4>1. r <= s /\ s \in Nat
        BY <1>1, <1>2, <1>5, <2>5 DEF LastOf
      <4> QED
        BY <1>1, <1>5, <2>5, <4>1 DEF LastOf
    <3>2. \A t \in run[d].page : s > t /\ t \in Nat
      BY <1>1, <1>2, <3>1
    <3>3. s > run[d].low
      BY <1>1, <1>2, <3>1
    <3> QED
      BY <1>1, <1>5, <3>1, <3>2, <3>3
  <2> QED
    BY <2>3, <2>4, <2>5
<1>6. run[d].page \ {r} \subseteq DOMAIN log /\ r <= Len(log)
  BY <1>1, <1>2
<1>7. /\ run'[d].page \subseteq DOMAIN log' /\ run'[d].top <= Len(log')
           /\ run'[d].low <= Len(log')
      /\ \A t \in run'[d].page :
           t > db'[d].watermark /\ t > run'[d].top /\ t > run'[d].low
      /\ \A t \in run'[d].page : log'[t].content # Nothing => log'[t].key \notin db'[d].dead
      /\ \A p, t \in run'[d].page, s \in DOMAIN log' :
           log'[s].key = log'[p].key /\ s > p => s > t
  BY <1>2, <1>3, <1>4, <1>6
<1>8. \A q \in Keys, s \in DOMAIN log' :
         /\ LastOf(q, s)' /\ s > db'[d].watermark
         /\ s <= run'[d].top \/ s <= run'[d].low \/ \E t \in run'[d].page : s <= t
         => \/ s \in run'[d].page \/ (run'[d].low # 0 /\ s >= run'[d].low)
            \/ db'[d].meta[q] = IF log'[s].content = Nothing THEN 0 ELSE s
  BY <1>5 DEF LastOf
<1> QED
  BY <1>7, <1>8 DEF PageInv, Has

(* PageInv survives the putting off of a tombstone.                           *)
LEMMA PageDeferred ==
  ASSUME TypeOK, NEW d \in Devices, PageInv(d), log' = log, run[d].pc = "apply", db' = db,
         NEW r \in run[d].page, \A t \in run[d].page : r <= t,
         run'[d].page = run[d].page \ {r}, run'[d].top = run[d].top,
         run[d].low = 0 => run'[d].low = r, run[d].low # 0 => run'[d].low = run[d].low
  PROVE  PageInv(d)'
<1>1. /\ run[d].low \in Nat /\ run[d].top \in Nat /\ run[d].page \subseteq Nat /\ r \in Nat
      /\ db[d].watermark \in Nat /\ Len(log) \in Nat /\ DOMAIN log = 1 .. Len(log)
  BY Fields, Logged
<1>2. /\ run[d].page \subseteq DOMAIN log /\ run[d].top <= Len(log) /\ run[d].low <= Len(log)
      /\ \A t \in run[d].page : t > db[d].watermark /\ t > run[d].top /\ t > run[d].low
      /\ \A t \in run[d].page : log[t].content # Nothing => log[t].key \notin db[d].dead
      /\ \A p, t \in run[d].page, s \in DOMAIN log :
           log[s].key = log[p].key /\ s > p => s > t
  BY DEF PageInv
<1>3. \A t \in run[d].page \ {r} : t > r
  BY <1>1
<1>4. run'[d].low \in Nat /\ run'[d].low <= Len(log) /\ run'[d].low # 0 /\ run'[d].low <= r
  BY <1>1, <1>2
<1>5. ASSUME NEW q \in Keys, NEW s \in DOMAIN log, LastOf(q, s), s > db[d].watermark,
             s <= run[d].top \/ s <= run'[d].low \/ \E t \in run[d].page \ {r} : s <= t
      PROVE  s \in run[d].page \ {r} \/ (run'[d].low # 0 /\ s >= run'[d].low) \/ Has(d, q, s)
  <2>1. s <= run[d].top \/ s <= run[d].low \/ \E t \in run[d].page : s <= t
    BY <1>1, <1>4, <1>5
  <2>2. s \in run[d].page \/ (run[d].low # 0 /\ s >= run[d].low) \/ Has(d, q, s)
    BY <1>5, <2>1 DEF PageInv
  <2> QED
    BY <1>1, <1>4, <2>2
<1>6. /\ run'[d].page \subseteq DOMAIN log' /\ run'[d].top <= Len(log')
           /\ run'[d].low <= Len(log')
      /\ \A t \in run'[d].page :
           t > db'[d].watermark /\ t > run'[d].top /\ t > run'[d].low
      /\ \A t \in run'[d].page : log'[t].content # Nothing => log'[t].key \notin db'[d].dead
      /\ \A p, t \in run'[d].page, s \in DOMAIN log' :
           log'[s].key = log'[p].key /\ s > p => s > t
  BY <1>1, <1>2, <1>3, <1>4
<1>7. \A q \in Keys, s \in DOMAIN log' :
         /\ LastOf(q, s)' /\ s > db'[d].watermark
         /\ s <= run'[d].top \/ s <= run'[d].low \/ \E t \in run'[d].page : s <= t
         => \/ s \in run'[d].page \/ (run'[d].low # 0 /\ s >= run'[d].low)
            \/ db'[d].meta[q] = IF log'[s].content = Nothing THEN 0 ELSE s
  BY <1>5 DEF LastOf, Has
<1> QED
  BY <1>6, <1>7 DEF PageInv, Has

(* A page holds every change below one of its own.                            *)
LEMMA FirstsAreClosed ==
  ASSUME TypeOK, NEW d \in Devices, NEW n \in Nat, NEW s \in FirstNews(d, n),
         NEW r \in News(d), r <= s
  PROVE  r \in FirstNews(d, n)
<1> DEFINE A == {t \in News(d) : t <= r}
           B == {t \in News(d) : t <= s}
<1>1. News(d) \subseteq 1 .. Len(log) /\ IsFiniteSet(1 .. Len(log)) /\ News(d) \subseteq Nat
  <2>1. Len(log) \in Int /\ DOMAIN log = 1 .. Len(log) /\ \A t \in DOMAIN log : t \in Nat
    BY Logged
  <2>2. IsFiniteSet(1 .. Len(log))
    BY <2>1, FS_Interval
  <2> QED
    BY <2>1, <2>2 DEF News
<1>2. s \in News(d) /\ Cardinality(B) <= n
  BY DEF FirstNews
<1>3. A \subseteq B
  <2>1. \A t \in News(d) : t <= r => t <= s
    BY <1>1, <1>2
  <2> QED
    BY <2>1
<1>4. IsFiniteSet(B)
  <2>1. B \subseteq 1 .. Len(log)
    BY <1>1
  <2> HIDE DEF B
  <2> QED
    BY <1>1, <2>1, FS_Subset
<1>5. Cardinality(A) <= Cardinality(B) /\ Cardinality(A) \in Nat /\ Cardinality(B) \in Nat
  <2> HIDE DEF A, B
  <2> QED
    BY <1>3, <1>4, FS_Subset, FS_CardinalityType
<1>6. Cardinality(A) <= n
  <2> HIDE DEF A, B
  <2> QED
    BY <1>2, <1>5
<1> QED
  BY <1>6 DEF FirstNews

(* PageInv holds of a page just fetched.                                      *)
LEMMA PageFetched ==
  ASSUME TypeOK, LogInv, NEW d \in Devices, BaseInv(d), CoverInv(d), log' = log, db' = db,
         NEW n \in Nat,
         run'[d].page = FirstNews(d, n), run'[d].top = db[d].watermark, run'[d].low = 0
  PROVE  PageInv(d)'
<1>1. /\ db[d].watermark \in Nat /\ db[d].watermark <= Len(log)
      /\ Len(log) \in Nat /\ DOMAIN log = 1 .. Len(log)
      /\ \A r \in DOMAIN log : r \in Nat /\ r # 0 /\ log[r].key \in Keys
  BY Fields, Logged DEF CoverInv
<1>2. \A r \in FirstNews(d, n) :
        /\ r \in DOMAIN log /\ r > db[d].watermark /\ LastOf(log[r].key, r)
  <2> SUFFICES ASSUME NEW r \in FirstNews(d, n)
               PROVE  r \in DOMAIN log /\ r > db[d].watermark /\ LastOf(log[r].key, r)
    OBVIOUS
  <2>1. r \in DOMAIN log /\ r > db[d].watermark /\ r = Latest(log[r].key)
    BY DEF FirstNews, News
  <2> QED
    BY <1>1, <2>1, LatestIs
<1>3. ASSUME NEW r \in FirstNews(d, n), log[r].content # Nothing
      PROVE  log[r].key \notin db[d].dead
  <2>1. SUFFICES ASSUME log[r].key \in db[d].dead PROVE FALSE
    OBVIOUS
  <2>2. PICK s \in DOMAIN log : log[s].key = log[r].key /\ log[s].content = Nothing
    BY <2>1 DEF BaseInv, Tombstoned
  <2>3. r <= s /\ s <= r
    BY <1>2, <2>2 DEF LogInv, LastOf
  <2> QED
    BY <1>1, <1>2, <1>3, <2>2, <2>3
<1>4. ASSUME NEW q \in Keys, NEW s \in DOMAIN log, LastOf(q, s), s > db[d].watermark,
             NEW t \in FirstNews(d, n), s <= t
      PROVE  s \in FirstNews(d, n)
  <2>1. s \in News(d)
    <3>1. Latest(q) = s
      BY <1>4, LatestIs
    <3> QED
      BY <1>4, <3>1 DEF News, LastOf
  <2> QED
    BY <1>4, <2>1, FirstsAreClosed
<1>5. \A p, t \in FirstNews(d, n), s \in DOMAIN log :
         log[s].key = log[p].key /\ s > p => s > t
  BY <1>1, <1>2 DEF LastOf
<1>6. /\ run'[d].page \subseteq DOMAIN log' /\ run'[d].top <= Len(log')
           /\ run'[d].low <= Len(log')
      /\ \A t \in run'[d].page :
           t > db'[d].watermark /\ t > run'[d].top /\ t > run'[d].low
      /\ \A t \in run'[d].page : log'[t].content # Nothing => log'[t].key \notin db'[d].dead
      /\ \A p, t \in run'[d].page, s \in DOMAIN log' :
           log'[s].key = log'[p].key /\ s > p => s > t
  <2>1. \A t \in FirstNews(d, n) : t > 0
    BY <1>1, <1>2
  <2> QED
    BY <1>1, <1>2, <1>3, <1>5, <2>1
<1>7. \A q \in Keys, s \in DOMAIN log' :
         /\ LastOf(q, s)' /\ s > db'[d].watermark
         /\ s <= run'[d].top \/ s <= run'[d].low \/ \E t \in run'[d].page : s <= t
         => s \in run'[d].page
  <2>1. \A s \in DOMAIN log : s > db[d].watermark => ~(s <= db[d].watermark) /\ ~(s <= 0)
    BY <1>1
  <2> QED
    BY <1>4, <2>1 DEF LastOf
<1> QED
  BY <1>6, <1>7 DEF PageInv, Has

(* The watermark advances over changes that were taken in, and over no        *)
(* deferred tombstone.                                                        *)
LEMMA CoverAdvances ==
  ASSUME TypeOK, LogInv, NEW d \in Devices, CoverInv(d), PageInv(d), run[d].pc = "apply",
         log' = log, db'[d].meta = db[d].meta,
         db'[d].watermark = Max({db[d].watermark, NextWatermark(d)})
  PROVE  CoverInv(d)'
<1>1. /\ run[d].low \in Nat /\ run[d].top \in Nat /\ run[d].page \subseteq Nat
      /\ db[d].watermark \in Nat /\ db[d].watermark <= Len(log) /\ Len(log) \in Nat
      /\ \A r \in DOMAIN log : r \in Nat
  BY Fields, Logged DEF CoverInv
<1>2. /\ run[d].top <= Len(log) /\ run[d].low <= Len(log)
      /\ \A t \in run[d].page : t > run[d].top /\ t > run[d].low
  BY DEF PageInv
<1>3. /\ NextWatermark(d) \in Nat
      /\ run[d].low # 0 => NextWatermark(d) = run[d].low - 1
      /\ run[d].low = 0 => NextWatermark(d) = run[d].top
  BY NextIs DEF NextWatermark
<1>4. db'[d].watermark = db[d].watermark \/ db'[d].watermark = NextWatermark(d)
  BY NextIs
<1>5. ASSUME NEW k \in Keys, NEW r \in DOMAIN log, LastOf(k, r), r <= db'[d].watermark
      PROVE  Has(d, k, r)
  <2>1. CASE r <= db[d].watermark
    BY <1>5, <2>1 DEF CoverInv
  <2>2. CASE r > db[d].watermark
    <3>1. r <= NextWatermark(d)
      BY <1>1, <1>4, <1>5, <2>2
    <3>2. r <= run[d].top \/ r <= run[d].low
      BY <1>1, <1>3, <3>1
    <3>3. r \in run[d].page \/ (run[d].low # 0 /\ r >= run[d].low) \/ Has(d, k, r)
      BY <1>5, <2>2, <3>2 DEF PageInv
    <3>4. ~(run[d].low # 0 /\ r >= run[d].low)
      BY <1>1, <1>3, <3>1
    <3>5. r \notin run[d].page
      BY <1>1, <1>2, <3>2
    <3> QED
      BY <3>3, <3>4, <3>5
  <2> QED
    BY <1>1, <2>1, <2>2
<1>6. db'[d].watermark <= Len(log)
  BY <1>1, <1>2, <1>3, <1>4
<1>7. ASSUME NEW k \in Keys, NEW r \in DOMAIN log', LastOf(k, r)', r <= db'[d].watermark
      PROVE  db'[d].meta[k] = IF log'[r].content = Nothing THEN 0 ELSE r
  <2>1. LastOf(k, r)
    BY <1>7 DEF LastOf
  <2>2. Has(d, k, r)
    BY <1>5, <1>7, <2>1
  <2> QED
    BY <2>2 DEF Has
<1> QED
  BY <1>6, <1>7 DEF CoverInv, Has

-----------------------------------------------------------------------------
(* The invariant of one device, and a step about one of its keys.             *)

DeviceInv(d) ==
  /\ BaseInv(d) /\ CoverInv(d) /\ PushInv(d) /\ PageInv(d)
  /\ QueueInv(d) /\ StampInv(d)
  /\ ~Undos => HeldInv(d)
  /\ ~Undos /\ ~Deferral => TendInv(d)

(* QueueInv survives a step about one key k.                                  *)
LEMMA QueueKeeps ==
  ASSUME TypeOK, NEW d \in Devices, QueueInv(d), NEW k,
         \A q \in Keys \ {k} : Kept(d, q), IsFiniteSet(db'[d].outbox),
         DOMAIN run'[d].prep \subseteq DOMAIN run[d].prep,
         \A q \in DOMAIN run'[d].prep : /\ run'[d].prep[q].op = run[d].prep[q].op
                                        /\ run'[d].prep[q].seqs = run[d].prep[q].seqs,
         k \in Keys /\ PendingDelete(d, k)' => db'[d].row[k] = Nothing,
         k \in DOMAIN run'[d].prep /\ run[d].prep[k].op = "upsert" => \A e \in Pending(d, k)' :
           e.op = "delete" => e \in Pending(d, k) \/ e.seq \notin run[d].prep[k].seqs
  PROVE  QueueInv(d)'
<1>1. ASSUME NEW q \in Keys, PendingDelete(d, q)'
      PROVE  db'[d].row[q] = Nothing
  <2>1. CASE q = k
    BY <1>1, <2>1
  <2>2. CASE q # k
    <3>1. Kept(d, q)
      BY <2>2
    <3>2. PendingDelete(d, q)
      BY <1>1, <3>1 DEF Kept, PendingDelete
    <3> QED
      BY <3>1, <3>2 DEF QueueInv, Kept
  <2> QED
    BY <2>1, <2>2
<1>2. ASSUME NEW q \in DOMAIN run'[d].prep
      PROVE  /\ IsFiniteSet(run'[d].prep[q].seqs)
             /\ run'[d].prep[q].op = "upsert" => \A e \in Pending(d, q)' :
                  e.op = "delete" => e.seq \notin run'[d].prep[q].seqs
  <2>1. /\ q \in DOMAIN run[d].prep /\ q \in Keys /\ IsFiniteSet(run[d].prep[q].seqs)
        /\ run[d].prep[q].op = "upsert" => \A e \in Pending(d, q) :
             e.op = "delete" => e.seq \notin run[d].prep[q].seqs
    BY PreparedIs DEF QueueInv
  <2>2. CASE q = k
    BY <2>1, <2>2
  <2>3. CASE q # k
    <3>1. Pending(d, q)' = Pending(d, q)
      BY <2>1, <2>3 DEF Kept
    <3> QED
      BY <2>1, <3>1
  <2> QED
    BY <2>2, <2>3
<1> QED
  BY <1>1, <1>2 DEF QueueInv

(* HeldInv survives a step about one key k.                                   *)
LEMMA HeldKeeps ==
  ASSUME TypeOK, NEW d \in Devices, HeldInv(d), NEW k,
         \A q \in Keys \ {k} : Kept(d, q),
         DOMAIN run'[d].prep \subseteq DOMAIN run[d].prep,
         \A q \in DOMAIN run'[d].prep :
           run'[d].prep[q].answer = "none" => run'[d].prep[q] = run[d].prep[q],
         k \in Keys /\ db'[d].row[k] # Nothing /\ db'[d].meta[k] # 0
           => held'[d][k] = db'[d].meta[k],
         k \in DOMAIN run'[d].prep
           => db'[d].meta[k] = db[d].meta[k] /\ held'[d][k] = held[d][k]
  PROVE  HeldInv(d)'
<1>1. ASSUME NEW q \in Keys, db'[d].row[q] # Nothing, db'[d].meta[q] # 0
      PROVE  held'[d][q] = db'[d].meta[q]
  <2>1. CASE q = k
    BY <1>1, <2>1
  <2>2. CASE q # k
    BY <1>1, <2>2 DEF Kept, HeldInv
  <2> QED
    BY <2>1, <2>2
<1>2. ASSUME NEW q \in DOMAIN run'[d].prep, run'[d].prep[q].answer = "none",
             run'[d].prep[q].op = "upsert"
      PROVE  /\ run'[d].prep[q].base = db'[d].meta[q]
             /\ run'[d].prep[q].base # 0 => held'[d][q] = run'[d].prep[q].base
  <2>1. q \in DOMAIN run[d].prep /\ q \in Keys /\ run'[d].prep[q] = run[d].prep[q]
    BY <1>2, PreparedIs
  <2>2. db'[d].meta[q] = db[d].meta[q] /\ held'[d][q] = held[d][q]
    BY <2>1 DEF Kept
  <2> QED
    BY <1>2, <2>1, <2>2 DEF HeldInv
<1> QED
  BY <1>1, <1>2 DEF HeldInv

(* TendInv survives a step about one key k.                                   *)
LEMMA TendKeeps ==
  ASSUME TypeOK, LogInv, Grows, NEW d \in Devices, BaseInv(d), TendInv(d), NEW k,
         \A q \in Keys \ {k} : Kept(d, q),
         DOMAIN run'[d].prep \subseteq DOMAIN run[d].prep,
         \A q \in DOMAIN run'[d].prep : run'[d].prep[q].op = run[d].prep[q].op,
         k \in Keys /\ db'[d].meta[k] # 0 /\ log'[db'[d].meta[k]].content # db'[d].row[k]
           => Tended(d, k)',
         k \in DOMAIN run'[d].prep /\ run[d].prep[k].op = "upsert" /\ db'[d].row[k] = Nothing
           => PendingDelete(d, k)'
  PROVE  TendInv(d)'
<1>1. \A r \in DOMAIN log : log'[r] = log[r]
  BY GrownLog
<1>2. ASSUME NEW q \in Keys, db'[d].meta[q] # 0,
             log'[db'[d].meta[q]].content # db'[d].row[q]
      PROVE  Tended(d, q)'
  <2>1. CASE q = k
    BY <1>2, <2>1
  <2>2. CASE q # k
    <3>1. Kept(d, q)
      BY <2>2
    <3>2. db[d].meta[q] # 0 /\ log[db[d].meta[q]].content # db[d].row[q]
      BY <1>1, <1>2, <3>1 DEF Kept, BaseInv
    <3>3. Tended(d, q)
      BY <3>2 DEF TendInv
    <3> QED
      BY <3>1, <3>3 DEF Kept, Tended, PendingDelete
  <2> QED
    BY <2>1, <2>2
<1>3. ASSUME NEW q \in DOMAIN run'[d].prep, run'[d].prep[q].op = "upsert",
             db'[d].row[q] = Nothing
      PROVE  PendingDelete(d, q)'
  <2>1. q \in DOMAIN run[d].prep /\ q \in Keys /\ run[d].prep[q].op = "upsert"
    BY <1>3, PreparedIs
  <2>2. CASE q = k
    BY <1>3, <2>1, <2>2
  <2>3. CASE q # k
    BY <1>3, <2>1, <2>3 DEF Kept, TendInv, PendingDelete
  <2> QED
    BY <2>2, <2>3
<1> QED
  BY <1>2, <1>3 DEF TendInv

(* A step about one key k of one device keeps its invariant: what there is to *)
(* show of k.                                                                 *)
LEMMA KeyStep ==
  ASSUME TypeOK, TypeOK', LogInv, Grows, NEW d \in Devices, DeviceInv(d), NEW k,
         \A q \in Keys \ {k} : Kept(d, q),
         db'[d].watermark <= db[d].watermark,
         \A q \in db'[d].dead : q \in db[d].dead \/ Tombstoned(q),
         k \in Keys => Moves(d, k),
         IsFiniteSet(db'[d].outbox),
         run'[d].pc # "push" => DOMAIN run'[d].prep = {},
         DOMAIN run'[d].prep \subseteq DOMAIN run[d].prep,
         \A q \in DOMAIN run'[d].prep : run'[d].prep[q] = run[d].prep[q],
         k \in DOMAIN run'[d].prep
           => db'[d].meta[k] = db[d].meta[k] /\ held'[d][k] = held[d][k],
         k \in Keys /\ PendingDelete(d, k)' => db'[d].row[k] = Nothing,
         k \in DOMAIN run'[d].prep /\ run[d].prep[k].op = "upsert" => \A e \in Pending(d, k)' :
           e.op = "delete" => e \in Pending(d, k) \/ e.seq \notin run[d].prep[k].seqs,
         ~Undos /\ k \in Keys /\ db'[d].row[k] # Nothing /\ db'[d].meta[k] # 0
           => held'[d][k] = db'[d].meta[k],
         ~Undos /\ ~Deferral /\ k \in Keys /\ db'[d].meta[k] # 0
                /\ log'[db'[d].meta[k]].content # db'[d].row[k] => Tended(d, k)',
         ~Undos /\ ~Deferral /\ k \in DOMAIN run'[d].prep /\ run[d].prep[k].op = "upsert"
                /\ db'[d].row[k] = Nothing => PendingDelete(d, k)',
         PageInv(d)', StampInv(d)'
  PROVE  DeviceInv(d)'
<1>1. db'[d].watermark \in Nat /\ db'[d].dead \subseteq Keys
  <2>1. db'[d] \in Database
    BY DEF TypeOK
  <2> QED
    BY <2>1 DEF Database
<1>2. \A q \in Keys : Moves(d, q)
  BY DEF Kept, Moves
<1>3. BaseInv(d) /\ CoverInv(d) /\ PushInv(d) /\ QueueInv(d)
  BY DEF DeviceInv
<1>4. BaseInv(d)'
  BY <1>1, <1>2, <1>3, BaseKeeps
<1>5. CoverInv(d)'
  BY <1>1, <1>2, <1>3, CoverKeeps
<1>6. PushInv(d)'
  <2>1. \A q \in DOMAIN run'[d].prep : db'[d].meta[q] = db[d].meta[q]
    <3> SUFFICES ASSUME NEW q \in DOMAIN run'[d].prep PROVE db'[d].meta[q] = db[d].meta[q]
      OBVIOUS
    <3>1. q \in Keys
      BY PreparedIs
    <3> QED
      BY <3>1 DEF Kept
  <2> QED
    BY <1>1, <1>3, <2>1, PushKeeps
<1>7. QueueInv(d)'
  BY <1>3, QueueKeeps
<1>8. ASSUME ~Undos PROVE HeldInv(d)'
  BY <1>8, HeldKeeps DEF DeviceInv
<1>9. ASSUME ~Undos, ~Deferral PROVE TendInv(d)'
  BY <1>3, <1>9, TendKeeps DEF DeviceInv
<1> QED
  BY <1>4, <1>5, <1>6, <1>7, <1>8, <1>9 DEF DeviceInv

(* A device that takes no part in a step keeps its invariant.                 *)
LEMMA Bystander ==
  ASSUME TypeOK, LogInv, Grows, NEW d \in Devices, DeviceInv(d),
         db'[d] = db[d], run'[d] = run[d], held'[d] = held[d]
  PROVE  DeviceInv(d)'
<1>1. db[d].watermark \in Nat /\ db[d].dead \subseteq Keys
  BY Fields
<1>2. db'[d].watermark <= db[d].watermark
  BY <1>1
<1>3. \A q \in Keys : Kept(d, q) /\ Moves(d, q)
  BY DEF Kept, Moves, Pending
<1>4. BaseInv(d) /\ CoverInv(d) /\ PushInv(d) /\ QueueInv(d) /\ PageInv(d) /\ StampInv(d)
  BY DEF DeviceInv
<1>5. BaseInv(d)'
  BY <1>1, <1>3, <1>4, BaseKeeps
<1>6. CoverInv(d)'
  BY <1>1, <1>2, <1>3, <1>4, CoverKeeps
<1>7. PushInv(d)'
  BY <1>1, <1>2, <1>4, PushKeeps DEF PushInv
<1>8. PageInv(d)'
  BY <1>1, <1>2, <1>4, PageKeeps
<1>9. QueueInv(d)' /\ StampInv(d)'
  BY <1>4 DEF QueueInv, StampInv, PendingDelete, Pending
<1>10. ASSUME ~Undos PROVE HeldInv(d)'
  BY <1>10 DEF DeviceInv, HeldInv
<1>11. ASSUME ~Undos, ~Deferral PROVE TendInv(d)'
  <2>1. NoKey \notin Keys /\ NoKey \notin DOMAIN run[d].prep
    BY EngineAssumption, Fields
  <2>2. TendInv(d)
    BY <1>11 DEF DeviceInv
  <2>3. \A q \in DOMAIN run'[d].prep : run'[d].prep[q].op = run[d].prep[q].op
    OBVIOUS
  <2> QED
    BY <1>3, <1>4, <2>1, <2>2, <2>3, TendKeeps
<1> QED
  BY <1>5, <1>6, <1>7, <1>8, <1>9, <1>10, <1>11 DEF DeviceInv

-----------------------------------------------------------------------------
(* The user and the tail keep the invariant.                                  *)

(* A step that leaves the run of d, its bases and its dead keys alone.           *)
LEMMA RunStays ==
  ASSUME TypeOK, TypeOK', LogInv, NEW d \in Devices, Elsewhere(d), DeviceInv(d), run' = run,
         db'[d].meta = db[d].meta, db'[d].dead = db[d].dead,
         db'[d].watermark <= db[d].watermark
  PROVE  /\ Grows /\ PageInv(d)' /\ \A q \in Keys : Moves(d, q)
         /\ run'[d].pc # "push" => DOMAIN run'[d].prep = {}
         /\ \A q \in db'[d].dead : q \in db[d].dead \/ Tombstoned(q)
<1>1. Grows
  BY DEF Grows, Elsewhere
<1>2. db'[d].watermark \in Nat
  <2>1. db'[d] \in Database
    BY DEF TypeOK
  <2> QED
    BY <2>1 DEF Database
<1>3. PageInv(d)'
  BY <1>1, <1>2, PageKeeps DEF DeviceInv
<1> QED
  BY <1>1, <1>3 DEF Moves, DeviceInv, PushInv

(* StampInv survives a step that leaves the baselines alone.                  *)
LEMMA StampStays ==
  ASSUME NEW d \in Devices, StampInv(d), run'[d].pc = "stamp" => run'[d] = run[d],
         db'[d].base = db[d].base
  PROVE  StampInv(d)'
BY DEF StampInv

(* An entry more, and the invariant of the outbox.                            *)
LEMMA OutboxGrows ==
  ASSUME TypeOK, NEW d \in Devices, QueueInv(d), NEW k \in Keys,
         NEW op \in {"upsert", "delete"},
         db'[d].outbox = Queued(d, k, op)
  PROVE  /\ IsFiniteSet(db'[d].outbox)
         /\ Pending(d, k)' # {} /\ \A q \in Keys \ {k} : Pending(d, q)' = Pending(d, q)
         /\ op = "delete" => PendingDelete(d, k)'
         /\ op = "upsert" /\ PendingDelete(d, k)' => PendingDelete(d, k)
         /\ k \in DOMAIN run[d].prep => \A e \in Pending(d, k)' :
              e \in Pending(d, k) \/ e.seq \notin run[d].prep[k].seqs
<1>1. /\ Pending(d, k)' = Pending(d, k) \cup {NewEntry(d, k, op)}
      /\ \A q \in Keys \ {k} : Pending(d, q)' = Pending(d, q)
  BY PendingQueued
<1>2. NewEntry(d, k, op).op = op /\ NewEntry(d, k, op).seq = FreshSeq(d, k)
  BY DEF NewEntry
<1>3. k \in DOMAIN run[d].prep => FreshSeq(d, k) \notin run[d].prep[k].seqs
  <2> SUFFICES ASSUME k \in DOMAIN run[d].prep, FreshSeq(d, k) \in run[d].prep[k].seqs
               PROVE FALSE
    OBVIOUS
  <2>1. FreshSeq(d, k) < FreshSeq(d, k) /\ FreshSeq(d, k) \in Nat
    BY FreshSeqIs
  <2> QED
    BY <2>1
<1>4. IsFiniteSet(db'[d].outbox)
  BY QueuedIs
<1> QED
  BY <1>1, <1>2, <1>3, <1>4 DEF PendingDelete

(* An outbox left alone stays finite, with the same deletions queued.         *)
LEMMA OutboxStays ==
  ASSUME NEW d \in Devices, QueueInv(d), db'[d].outbox = db[d].outbox
  PROVE  /\ IsFiniteSet(db'[d].outbox)
         /\ \A q \in Keys : Pending(d, q)' = Pending(d, q)
              /\ (PendingDelete(d, q)' <=> PendingDelete(d, q))
BY DEF Pending, PendingDelete, QueueInv

(* A write keeps the invariant of its device.                                 *)
LEMMA WriteStep ==
  ASSUME TypeOK, LogInv, NEW d \in Devices, DeviceInv(d), NEW k \in Keys, NEW c \in Contents,
         NEW O,
         Writing(d, k, c, O), O = Queued(d, k, "upsert") \/ (Deferral /\ O = db[d].outbox),
         ~PendingDelete(d, k), db[d].row[k] # Nothing \/ db[d].meta[k] = 0
  PROVE  TypeOK' /\ Elsewhere(d) /\ DeviceInv(d)'
<1>0. QueueInv(d) /\ StampInv(d)
  BY DEF DeviceInv
<1>1. O \subseteq Entry
  BY <1>0, Fields, QueuedIs
<1>2. /\ TypeOK' /\ Elsewhere(d) /\ run' = run /\ held' = held
      /\ db'[d].row[k] = c /\ \A q \in Keys \ {k} : db'[d].row[q] = db[d].row[q]
      /\ db'[d].meta = db[d].meta /\ db'[d].base = db[d].base /\ db'[d].outbox = O
      /\ db'[d].watermark = db[d].watermark /\ db'[d].dead = db[d].dead
  BY <1>1, WritingEffect
<1>3. db'[d].watermark <= db[d].watermark
  BY <1>2, Fields
<1>4. /\ Grows /\ PageInv(d)' /\ \A q \in Keys : Moves(d, q)
      /\ run'[d].pc # "push" => DOMAIN run'[d].prep = {}
      /\ \A q \in db'[d].dead : q \in db[d].dead \/ Tombstoned(q)
  BY <1>2, <1>3, RunStays
<1>5. /\ IsFiniteSet(db'[d].outbox)
      /\ \A q \in Keys \ {k} : Pending(d, q)' = Pending(d, q)
      /\ ~PendingDelete(d, k)' /\ (~Deferral => Pending(d, k)' # {})
  BY <1>0, <1>2, OutboxGrows, OutboxStays
<1>6. \A q \in Keys \ {k} : Kept(d, q)
  BY <1>2, <1>5 DEF Kept
<1>7. StampInv(d)'
  BY <1>0, <1>2, StampStays
<1>8. c # Nothing
  BY DEF Contents, Nothing
<1>9. ~Undos /\ db'[d].meta[k] # 0 => held'[d][k] = db'[d].meta[k]
  BY <1>2 DEF DeviceInv, HeldInv
<1>10. ~Deferral => Tended(d, k)'
  BY <1>2, <1>5, <1>8 DEF Tended
<1>11. \A e \in Pending(d, k)' : e.op # "delete"
  BY <1>5 DEF PendingDelete
<1> QED
  BY <1>2, <1>3, <1>4, <1>5, <1>6, <1>7, <1>8, <1>9, <1>10, <1>11, KeyStep

(* A step of the user keeps it.                                               *)
LEMMA UserStep ==
  ASSUME TypeOK, LogInv, NEW d \in Devices, DeviceInv(d), NEW k \in Keys, User(d, k)
  PROVE  TypeOK' /\ Elsewhere(d) /\ DeviceInv(d)'
<1>0. QueueInv(d) /\ StampInv(d)
  BY DEF DeviceInv
<1>1. CASE Edit(d, k) \/ EditDeferred(d, k)
  <2>1. db[d].row[k] # Nothing
    BY <1>1 DEF Edit, EditDeferred
  <2>2. ~PendingDelete(d, k)
    BY <1>0, <2>1 DEF QueueInv
  <2>3. \E c \in Contents : \/ Writing(d, k, c, Queued(d, k, "upsert"))
                            \/ Deferral /\ Writing(d, k, c, db[d].outbox)
    BY <1>1 DEF Edit, EditDeferred
  <2> QED
    BY <2>1, <2>2, <2>3, WriteStep
<1>2. CASE Create(d, k)
  <2>1. /\ db[d].meta[k] = 0 /\ Pending(d, k) = {}
        /\ \E c \in Contents : Writing(d, k, c, Queued(d, k, "upsert"))
    BY <1>2 DEF Create
  <2>2. ~PendingDelete(d, k)
    BY <2>1 DEF PendingDelete
  <2> QED
    BY <2>1, <2>2, WriteStep
<1>3. CASE Delete(d, k)
  <2>1. /\ TypeOK' /\ Elsewhere(d) /\ run' = run /\ held' = held
        /\ db'[d].row[k] = Nothing /\ \A q \in Keys \ {k} : db'[d].row[q] = db[d].row[q]
        /\ db'[d].meta = db[d].meta /\ db'[d].base = db[d].base
        /\ db'[d].outbox = Queued(d, k, "delete")
        /\ db'[d].watermark = db[d].watermark /\ db'[d].dead = db[d].dead
    BY <1>0, <1>3, EngineAssumption, DeleteEffect
  <2>2. db'[d].watermark <= db[d].watermark
    BY <2>1, Fields
  <2>3. /\ Grows /\ PageInv(d)' /\ \A q \in Keys : Moves(d, q)
        /\ run'[d].pc # "push" => DOMAIN run'[d].prep = {}
        /\ \A q \in db'[d].dead : q \in db[d].dead \/ Tombstoned(q)
    BY <2>1, <2>2, RunStays
  <2>4. /\ IsFiniteSet(db'[d].outbox)
        /\ \A q \in Keys \ {k} : Pending(d, q)' = Pending(d, q)
        /\ PendingDelete(d, k)'
        /\ k \in DOMAIN run[d].prep => \A e \in Pending(d, k)' :
              e \in Pending(d, k) \/ e.seq \notin run[d].prep[k].seqs
    BY <1>0, <2>1, OutboxGrows
  <2>5. \A q \in Keys \ {k} : Kept(d, q)
    BY <2>1, <2>4 DEF Kept
  <2>6. StampInv(d)'
    BY <1>0, <2>1, StampStays
  <2>7. Tended(d, k)'
    BY <2>1, <2>4 DEF Tended
  <2> QED
    BY <2>1, <2>2, <2>3, <2>4, <2>5, <2>6, <2>7, KeyStep
<1>4. CASE Undo(d, k)
  <2>1. /\ TypeOK' /\ Elsewhere(d) /\ run' = run /\ held' = held /\ Undos
        /\ \A q \in Keys \ {k} : db'[d].row[q] = db[d].row[q]
        /\ db'[d].meta = db[d].meta /\ db'[d].base = db[d].base
        /\ db'[d].outbox = db[d].outbox \ Pending(d, k)
        /\ db'[d].watermark <= db[d].watermark /\ db'[d].dead = db[d].dead
    BY <1>0, <1>4, UndoEffect
  <2>2. /\ Grows /\ PageInv(d)' /\ \A q \in Keys : Moves(d, q)
        /\ run'[d].pc # "push" => DOMAIN run'[d].prep = {}
        /\ \A q \in db'[d].dead : q \in db[d].dead \/ Tombstoned(q)
    BY <2>1, RunStays
  <2>3. /\ Pending(d, k)' = {} /\ \A q \in Keys \ {k} : Pending(d, q)' = Pending(d, q)
    BY <2>1, PendingDropped
  <2>4. IsFiniteSet(db'[d].outbox)
    BY <1>0, <2>1, FS_Subset DEF QueueInv
  <2>5. \A q \in Keys \ {k} : Kept(d, q)
    BY <2>1, <2>3 DEF Kept
  <2>6. StampInv(d)'
    BY <1>0, <2>1, StampStays
  <2>7. ~PendingDelete(d, k)'
    BY <2>3 DEF PendingDelete
  <2> QED
    BY <2>1, <2>2, <2>3, <2>4, <2>5, <2>6, <2>7, KeyStep
<1>5. CASE EditGone(d, k)
  <2>1. /\ TypeOK' /\ Elsewhere(d) /\ run' = run /\ held' = held
        /\ db'[d].row = db[d].row /\ db'[d].meta = db[d].meta /\ db'[d].base = db[d].base
        /\ db'[d].outbox = Queued(d, k, "upsert")
        /\ db'[d].watermark = db[d].watermark /\ db'[d].dead = db[d].dead
    BY <1>0, <1>5, EditGoneEffect
  <2>2. db'[d].watermark <= db[d].watermark
    BY <2>1, Fields
  <2>3. /\ Grows /\ PageInv(d)' /\ \A q \in Keys : Moves(d, q)
        /\ run'[d].pc # "push" => DOMAIN run'[d].prep = {}
        /\ \A q \in db'[d].dead : q \in db[d].dead \/ Tombstoned(q)
    BY <2>1, <2>2, RunStays
  <2>4. /\ IsFiniteSet(db'[d].outbox)
        /\ \A q \in Keys \ {k} : Pending(d, q)' = Pending(d, q)
        /\ PendingDelete(d, k)' => PendingDelete(d, k)
        /\ k \in DOMAIN run[d].prep => \A e \in Pending(d, k)' :
              e \in Pending(d, k) \/ e.seq \notin run[d].prep[k].seqs
    BY <1>0, <2>1, OutboxGrows
  <2>5. \A q \in Keys \ {k} : Kept(d, q)
    BY <2>1, <2>4 DEF Kept
  <2>6. StampInv(d)'
    BY <1>0, <2>1, StampStays
  <2>7. db[d].row[k] = Nothing
    BY <1>5 DEF EditGone
  <2>8. PendingDelete(d, k) => PendingDelete(d, k)'
    <3>1. Pending(d, k) \subseteq Pending(d, k)'
      BY <2>1, PendingQueued
    <3> QED
      BY <3>1 DEF PendingDelete
  <2>9. ASSUME ~Undos, ~Deferral
        PROVE  /\ db'[d].meta[k] # 0 /\ log'[db'[d].meta[k]].content # db'[d].row[k]
                    => Tended(d, k)'
               /\ k \in DOMAIN run[d].prep /\ run[d].prep[k].op = "upsert"
                    => PendingDelete(d, k)'
    <3>1. log' = log
      BY <2>1 DEF Elsewhere
    <3>2. TendInv(d)
      BY <2>9 DEF DeviceInv
    <3> QED
      BY <2>1, <2>7, <2>8, <3>1, <3>2 DEF TendInv, Tended
  <2> QED
    BY <2>1, <2>2, <2>3, <2>4, <2>5, <2>6, <2>7, <2>9, KeyStep
<1> QED
  BY <1>1, <1>2, <1>3, <1>4, <1>5 DEF User

(* Backfill and reconciliation keep it.                                       *)
LEMMA TailStep ==
  ASSUME TypeOK, LogInv, NEW d \in Devices, DeviceInv(d), NEW k \in Keys,
         Backfill(d, k) \/ Reconcile(d, k)
  PROVE  TypeOK' /\ Elsewhere(d) /\ DeviceInv(d)'
<1>0. QueueInv(d) /\ StampInv(d)
  BY DEF DeviceInv
<1>1. /\ run[d].pc = "idle" /\ Pending(d, k) = {} /\ db[d].row[k] # Nothing
      /\ Backfill(d, k) => db[d].meta[k] = 0
  BY DEF Backfill, Reconcile, InTail
<1>2. ~PendingDelete(d, k)
  BY <1>1 DEF PendingDelete
<1>3. /\ TypeOK' /\ Elsewhere(d) /\ run' = run /\ held' = held
      /\ db'[d].row = db[d].row /\ db'[d].meta = db[d].meta
      /\ \A q \in Keys \ {k} : db'[d].base[q] = db[d].base[q]
      /\ db'[d].outbox = Queued(d, k, "upsert") \/ db'[d].outbox = db[d].outbox
      /\ db'[d].watermark = db[d].watermark /\ db'[d].dead = db[d].dead
  <2>1. CASE Backfill(d, k)
    BY <1>0, <2>1, BackfillEffect
  <2>2. CASE Reconcile(d, k)
    BY <1>0, <2>2, ReconcileEffect
  <2> QED
    BY <2>1, <2>2
<1>4. db'[d].watermark <= db[d].watermark
  BY <1>3, Fields
<1>5. /\ Grows /\ PageInv(d)' /\ \A q \in Keys : Moves(d, q)
      /\ run'[d].pc # "push" => DOMAIN run'[d].prep = {}
      /\ \A q \in db'[d].dead : q \in db[d].dead \/ Tombstoned(q)
  BY <1>3, <1>4, RunStays
<1>6. /\ IsFiniteSet(db'[d].outbox)
      /\ \A q \in Keys \ {k} : Pending(d, q)' = Pending(d, q)
      /\ ~PendingDelete(d, k)'
      /\ db'[d].outbox = Queued(d, k, "upsert") => Pending(d, k)' # {}
  BY <1>0, <1>2, <1>3, OutboxGrows, OutboxStays
<1>7. \A q \in Keys \ {k} : Kept(d, q)
  BY <1>3, <1>6 DEF Kept
<1>8. StampInv(d)'
  BY <1>1, <1>3 DEF StampInv
<1>9. ~Undos /\ db'[d].meta[k] # 0 => held'[d][k] = db'[d].meta[k]
  BY <1>1, <1>3 DEF DeviceInv, HeldInv
<1>10. ASSUME ~Undos, ~Deferral, db'[d].meta[k] # 0,
              log'[db'[d].meta[k]].content # db'[d].row[k]
       PROVE  Tended(d, k)'
  <2>1. Reconcile(d, k)
    BY <1>1, <1>3, <1>10
  <2>2. log' = log
    BY <1>3 DEF Elsewhere
  <2>3. Tended(d, k)
    BY <1>3, <1>10, <2>2 DEF DeviceInv, TendInv
  <2>4. db[d].base[k] # Nothing
    BY <1>1, <2>3 DEF Tended
  <2>5. db'[d].outbox = Queued(d, k, "upsert")
    BY <1>0, <2>1, <2>4, ReconcileEffect
  <2> QED
    BY <1>1, <1>3, <1>6, <2>5 DEF Tended
<1>11. \A e \in Pending(d, k)' : e.op # "delete"
  BY <1>6 DEF PendingDelete
<1> QED
  BY <1>1, <1>3, <1>4, <1>5, <1>6, <1>7, <1>8, <1>9, <1>10, <1>11, KeyStep

-----------------------------------------------------------------------------
(* The start of a drain and the commits keep it.                              *)

(* With no deletion queued, the last operation queued for a key is an upsert. *)
LEMMA LastOpIs ==
  ASSUME TypeOK, NEW d \in Devices, QueueInv(d), NEW k \in Keys,
         Pending(d, k) # {}, ~PendingDelete(d, k)
  PROVE  LastOp(Pending(d, k)) = "upsert"
<1>1. PICK P : P = Pending(d, k)
  OBVIOUS
<1>2. P # {} /\ IsFiniteSet(P) /\ \A e \in P : e.seq \in Nat /\ e.op \in {"upsert", "delete"}
  <2>1. P \subseteq db[d].outbox /\ db[d].outbox \subseteq Entry
    BY <1>1, Fields DEF Pending
  <2>2. \A e \in P : e.seq \in Nat /\ e.op \in {"upsert", "delete"}
    BY <2>1 DEF Entry
  <2> QED
    BY <1>1, <2>1, <2>2, FS_Subset DEF QueueInv
<1>3. \A e \in P : e.op # "delete"
  BY <1>1 DEF PendingDelete
<1> DEFINE S == {e.seq : e \in P}
<1>4. S \subseteq Int /\ IsFiniteSet(S) /\ S # {}
  BY <1>2, SeqsFinite
<1>5. \E e \in P : \A f \in P : f.seq <= e.seq
  <2>1. Max(S) \in S /\ \A y \in S : Max(S) >= y
    <3> HIDE DEF S
    <3> QED
      BY <1>4, MaxIsThere
  <2>2. PICK e \in P : e.seq = Max(S)
    BY <2>1
  <2>3. \A f \in P : f.seq \in S
    OBVIOUS
  <2>4. \A f \in P : f.seq <= e.seq
    <3> HIDE DEF S
    <3> QED
      BY <1>2, <2>1, <2>2, <2>3
  <2> QED
    BY <2>4
<1> DEFINE last == CHOOSE e \in P : \A f \in P : f.seq <= e.seq
<1>6. last \in P
  BY <1>5
<1>7. last.op = "upsert"
  <2> HIDE DEF last
  <2> QED
    BY <1>2, <1>3, <1>6
<1> QED
  BY <1>1, <1>7 DEF LastOp

(* The start of a drain keeps the invariant.                                  *)
LEMMA StartDrainStep ==
  ASSUME TypeOK, LogInv, NEW d \in Devices, DeviceInv(d), StartDrain(d)
  PROVE  TypeOK' /\ Elsewhere(d) /\ DeviceInv(d)'
<1>0. BaseInv(d) /\ CoverInv(d) /\ QueueInv(d)
  BY DEF DeviceInv
<1>1. /\ TypeOK' /\ Elsewhere(d) /\ held' = held
      /\ run'[d].pc = "push" /\ DOMAIN run'[d].prep = Sendable(d)
      /\ \A k \in Sendable(d) : run'[d].prep[k] = Sealed(d, k)
      /\ db'[d].outbox = {e \in db[d].outbox : e.key \in Sendable(d)}
      /\ db'[d].row = db[d].row /\ db'[d].meta = db[d].meta /\ db'[d].base = db[d].base
      /\ db'[d].watermark = db[d].watermark /\ db'[d].dead = db[d].dead
  BY StartDrainEffect
<1>2. Grows /\ log' = log
  BY <1>1 DEF Grows, Elsewhere
<1>3. /\ db'[d].watermark \in Nat /\ db'[d].watermark <= db[d].watermark
      /\ db'[d].dead \subseteq Keys /\ \A k \in Keys : Moves(d, k)
  BY <1>1, Fields DEF Moves
<1>4. BaseInv(d)' /\ CoverInv(d)'
  BY <1>0, <1>1, <1>2, <1>3, BaseKeeps, CoverKeeps
<1>5. \A k \in Sendable(d) : k \in Keys /\ Pending(d, k)' = Pending(d, k)
  BY <1>1 DEF Sendable, Pending
<1>6. \A k \in Keys : Pending(d, k)' \subseteq Pending(d, k)
  BY <1>1 DEF Pending
<1>7. ASSUME NEW k \in Sendable(d)
      PROVE  /\ Sealed(d, k).answer = "none" /\ Sealed(d, k).base = db[d].meta[k]
             /\ Sealed(d, k).seqs = {e.seq : e \in Pending(d, k)}
             /\ Sealed(d, k).op = "upsert" <=> Upserts(d, k)
             /\ Sealed(d, k).op = "upsert" <=> Sealed(d, k).content # Nothing
             /\ Upserts(d, k) => db[d].row[k] # Nothing
  BY DEF Sealed, Upserts
<1>8. PushInv(d)'
  <2>1. \A k \in Sendable(d) : AnswerOK(d, k, run[d].prep[k])'
    <3> SUFFICES ASSUME NEW k \in Sendable(d) PROVE AnswerOK(d, k, run[d].prep[k])'
      OBVIOUS
    <3>1. PICK p : p = Sealed(d, k)
      OBVIOUS
    <3>2. run'[d].prep[k] = p /\ p.answer = "none" /\ (p.op = "upsert" <=> p.content # Nothing)
      BY <1>1, <1>7, <3>1
    <3> QED
      BY <3>2 DEF AnswerOK
  <2> QED
    BY <1>1, <2>1 DEF PushInv
<1>9. PageInv(d)' /\ StampInv(d)'
  BY <1>1 DEF PageInv, StampInv
<1>10. QueueInv(d)'
  <2>1. IsFiniteSet(db'[d].outbox)
    <3>1. db'[d].outbox \subseteq db[d].outbox
      BY <1>1
    <3> QED
      BY <1>0, <3>1, FS_Subset DEF QueueInv
  <2>2. \A k \in Keys : PendingDelete(d, k)' => db'[d].row[k] = Nothing
    BY <1>0, <1>1, <1>6 DEF QueueInv, PendingDelete
  <2>3. ASSUME NEW k \in Sendable(d)
        PROVE  /\ IsFiniteSet(Sealed(d, k).seqs)
               /\ Sealed(d, k).op = "upsert" => \A e \in Pending(d, k)' : e.op # "delete"
    <3>1. IsFiniteSet(Pending(d, k))
      <4>1. Pending(d, k) \subseteq db[d].outbox
        BY DEF Pending
      <4> QED
        BY <1>0, <4>1, FS_Subset DEF QueueInv
    <3>2. IsFiniteSet({e.seq : e \in Pending(d, k)})
      BY <3>1, SeqsFinite
    <3> QED
      BY ZenonT(60), <1>0, <1>5, <1>7, <3>2 DEF QueueInv, PendingDelete
  <2> QED
    BY <1>1, <2>1, <2>2, <2>3 DEF QueueInv
<1>11. ASSUME ~Undos PROVE HeldInv(d)'
  <2>1. HeldInv(d)
    BY <1>11 DEF DeviceInv
  <2>2. \A k \in Keys :
          db'[d].row[k] # Nothing /\ db'[d].meta[k] # 0 => held'[d][k] = db'[d].meta[k]
    BY <1>1, <2>1 DEF HeldInv
  <2>3. ASSUME NEW k \in Sendable(d), Sealed(d, k).op = "upsert"
        PROVE  /\ Sealed(d, k).base = db'[d].meta[k]
               /\ Sealed(d, k).base # 0 => held'[d][k] = Sealed(d, k).base
    BY <1>1, <1>5, <1>7, <2>2, <2>3
  <2> QED
    BY <1>1, <2>2, <2>3 DEF HeldInv
<1>12. ASSUME ~Undos, ~Deferral PROVE TendInv(d)'
  <2>1. TendInv(d)
    BY <1>12 DEF DeviceInv
  <2>2. ASSUME NEW k \in Keys, db[d].meta[k] # 0, log[db[d].meta[k]].content # db[d].row[k]
        PROVE  Tended(d, k)'
    <3>1. Tended(d, k)
      BY <2>1, <2>2 DEF TendInv
    <3>2. CASE db[d].row[k] = Nothing
      <4>1. PendingDelete(d, k) /\ ~Upserts(d, k)
        BY <3>1, <3>2 DEF Tended, Upserts
      <4>2. db[d].meta[k] > 0
        BY <2>2, Fields
      <4>3. k \in Sendable(d)
        BY <4>1, <4>2 DEF Sendable, Deletes
      <4> QED
        BY <1>1, <1>5, <3>2, <4>1, <4>3 DEF Tended, PendingDelete
    <3>3. CASE db[d].row[k] # Nothing /\ Pending(d, k) # {}
      <4>1. ~PendingDelete(d, k)
        BY <1>0, <3>3 DEF QueueInv
      <4>2. Upserts(d, k)
        BY <1>0, <3>3, <4>1, LastOpIs DEF Upserts
      <4>3. k \in Sendable(d)
        BY <4>2 DEF Sendable
      <4> QED
        BY <1>1, <1>5, <3>3, <4>3 DEF Tended
    <3>4. CASE db[d].row[k] # Nothing /\ db[d].base[k] \notin {Nothing, db[d].row[k]}
      BY <1>1, <3>4 DEF Tended
    <3> QED
      BY <3>1, <3>2, <3>3, <3>4 DEF Tended
  <2>3. \A k \in Sendable(d) : Sealed(d, k).op = "upsert" => db[d].row[k] # Nothing
    BY <1>7
  <2> QED
    BY <1>1, <1>2, <2>2, <2>3 DEF TendInv
<1> QED
  BY <1>1, <1>4, <1>8, <1>9, <1>10, <1>11, <1>12 DEF DeviceInv

(* The key NoKey, for a step that is about no key.                             *)
LEMMA NoKeyIs ==
  ASSUME TypeOK, NEW d \in Devices
  PROVE  NoKey \notin Keys /\ NoKey \notin DOMAIN run[d].prep
BY EngineAssumption, Fields

(* A step that leaves the database of d leaves every key of d.                *)
LEMMA AllKept ==
  ASSUME NEW d \in Devices, db'[d] = db[d], held'[d] = held[d]
  PROVE  \A q \in Keys : Kept(d, q) /\ Moves(d, q)
BY DEF Kept, Moves, Pending

(* The decision on an awaited record keeps the invariant of its device.       *)
LEMMA CommitStep ==
  ASSUME TypeOK, LogInv, NEW d \in Devices, DeviceInv(d), NEW k \in Keys, NEW room \in 0 .. 1,
         Commit(d, k, room)
  PROVE  /\ TypeOK' /\ Grows /\ db' = db /\ held' = held /\ DeviceInv(d)'
         /\ \A e \in Devices \ {d} : run'[e] = run[e]
<1>0. BaseInv(d) /\ CoverInv(d) /\ QueueInv(d) /\ PushInv(d)
  BY DEF DeviceInv
<1>1. PICK v : v = Verdict(k, run[d].prep[k], room)
  OBVIOUS
<1>2. /\ TypeOK' /\ Grows /\ db' = db /\ held' = held
      /\ Serve(k, run[d].prep[k], v) /\ OnTheWire(d, k)
      /\ \A e \in Devices \ {d} : run'[e] = run[e]
      /\ run[d].pc = "push" /\ run'[d].pc = "push"
      /\ DOMAIN run'[d].prep = DOMAIN run[d].prep
      /\ \A q \in DOMAIN run[d].prep \ {k} : run'[d].prep[q] = run[d].prep[q]
      /\ run'[d].prep[k].op = run[d].prep[k].op
      /\ run'[d].prep[k].seqs = run[d].prep[k].seqs
      /\ run'[d].prep[k].content = run[d].prep[k].content
      /\ run'[d].prep[k].answer = Status(v)
      /\ run'[d].prep[k].rev = IF Commits(v) THEN Len(log) + 1 ELSE Latest(k)
  BY <1>1, CommitEffect
<1>3. k \in DOMAIN run[d].prep /\ run[d].prep[k].answer = "none"
  BY <1>2 DEF OnTheWire
<1>4. /\ db'[d].watermark \in Nat /\ db'[d].watermark <= db[d].watermark
      /\ db'[d].dead \subseteq Keys /\ \A q \in Keys : Kept(d, q) /\ Moves(d, q)
  BY <1>2, AllKept, Fields
<1>5. BaseInv(d)' /\ CoverInv(d)'
  BY <1>0, <1>2, <1>4, BaseKeeps, CoverKeeps
<1>6. PageInv(d)' /\ StampInv(d)'
  BY <1>2 DEF PageInv, StampInv
<1>7. PICK p : p = run'[d].prep[k]
  OBVIOUS
<1>8. AnswerOK(d, k, p)'
  <2>1. /\ v = "tombstoned" \/ v = "already_deleted" => Tombstoned(k)
        /\ v = "already_deleted" => p.op = "delete"
        /\ v = "delete" => p.op = "delete"
        /\ v = "write" => p.op # "delete"
    BY <1>1, <1>2, <1>7, VerdictIs
  <2>2. /\ p.content \in Contents \cup {Nothing} /\ p.op \in {"upsert", "delete"}
        /\ p.op = "upsert" <=> p.content # Nothing
    <3>1. PICK o : o = run[d].prep[k]
      OBVIOUS
    <3>2. o.content \in Contents \cup {Nothing} /\ o.op \in {"upsert", "delete"}
            /\ o.answer = "none"
      BY <1>3, <3>1, PreparedIs
    <3>3. AnswerOK(d, k, o)
      BY <1>0, <1>3, <3>1 DEF PushInv
    <3>4. o.op = "upsert" <=> o.content # Nothing
      BY <3>2, <3>3 DEF AnswerOK
    <3>5. p.content = o.content /\ p.op = o.op
      BY <1>2, <1>7, <3>1
    <3> QED
      BY <3>2, <3>4, <3>5
  <2>3. /\ Tombstoned(k) => Tombstoned(k)' /\ \A r \in DOMAIN log : r \in DOMAIN log'
    BY <1>2, GrownLog
  <2>4. ASSUME Commits(v)
        PROVE  /\ p.rev = Len(log) + 1 /\ p.rev \in DOMAIN log'
               /\ log'[p.rev] = [key |-> k, content |-> p.content]
    <3>1. log' = Append(log, [key |-> k, content |-> p.content])
      BY <1>2, <1>7, <2>4 DEF Serve
    <3>2. log \in Seq(Change) /\ [key |-> k, content |-> p.content] \in Change
      BY <2>2 DEF TypeOK, Change
    <3>3. log'[Len(log) + 1] = [key |-> k, content |-> p.content]
            /\ Len(log) + 1 \in DOMAIN log'
      BY <3>1, <3>2
    <3> QED
      BY <1>2, <1>7, <2>4, <3>3
  <2>5. ASSUME p.answer = "ok", p.op = "upsert"
        PROVE  /\ p.rev \in DOMAIN log' /\ p.content # Nothing
               /\ log'[p.rev] = [key |-> k, content |-> p.content]
               /\ p.rev > db'[d].watermark /\ p.rev > db'[d].meta[k]
    <3>1. Commits(v)
      BY <1>2, <1>7, <2>1, <2>5 DEF Status, Commits
    <3>2. /\ p.rev = Len(log) + 1 /\ Len(log) \in Nat /\ db[d].watermark \in Nat
          /\ db[d].watermark <= Len(log) /\ db[d].meta[k] <= Len(log) /\ db[d].meta[k] \in Nat
      <4>1. /\ db[d].meta[k] \in Nat /\ DOMAIN log = 1 .. Len(log) /\ Len(log) \in Nat
            /\ db[d].meta[k] # 0 => db[d].meta[k] \in DOMAIN log
        BY <1>0, Fields, Logged DEF BaseInv
      <4> QED
        BY <1>0, <2>4, <3>1, <4>1, Fields DEF CoverInv
    <3>3. p.rev > db[d].watermark /\ p.rev > db[d].meta[k]
      BY <3>2
    <3> QED
      BY <1>2, <2>2, <2>4, <2>5, <3>1, <3>3
  <2>6. ASSUME p.answer = "ok", p.op = "delete"
        PROVE  Tombstoned(k)'
    <3>1. v = "already_deleted" \/ (v = "delete" /\ Commits(v))
      BY <1>2, <1>7, <2>1, <2>6 DEF Status, Commits
    <3>2. CASE Commits(v)
      <4>1. log'[p.rev].key = k /\ log'[p.rev].content = Nothing
        BY <2>2, <2>4, <2>6, <3>2
      <4> QED
        BY <2>4, <3>2, <4>1 DEF Tombstoned
    <3> QED
      BY <2>1, <2>3, <3>1, <3>2
  <2>7. p.answer \in {"tombstoned", "read"} => Tombstoned(k)'
    BY <1>2, <1>7, <2>1, <2>3 DEF Status
  <2>8. p.answer # "none"
    BY <1>2, <1>7 DEF Status
  <2> QED
    BY <2>5, <2>6, <2>7, <2>8 DEF AnswerOK
<1>9. PushInv(d)'
  <2>1. ASSUME NEW q \in DOMAIN run[d].prep
        PROVE  AnswerOK(d, q, run[d].prep[q])'
    <3>1. CASE q = k
      BY <1>7, <1>8, <3>1 DEF AnswerOK, Tombstoned
    <3>2. CASE q # k
      <4>1. PICK o : o = run[d].prep[q]
        OBVIOUS
      <4>2. q \in Keys /\ o.rev \in Nat /\ AnswerOK(d, q, o) /\ run'[d].prep[q] = o
        BY <1>0, <1>2, <3>2, <4>1, PreparedIs DEF PushInv
      <4>3. AnswerOK(d, q, o)'
        BY <1>2, <1>4, <4>2, AnswerKeeps
      <4> QED
        BY <4>2, <4>3 DEF AnswerOK, Tombstoned
    <3> QED
      BY <3>1, <3>2
  <2> QED
    BY <1>2, <2>1 DEF PushInv
<1>10. \A q \in DOMAIN run'[d].prep : /\ run'[d].prep[q].op = run[d].prep[q].op
                                     /\ run'[d].prep[q].seqs = run[d].prep[q].seqs
  BY <1>2
<1>11. QueueInv(d)'
  <2>1. IsFiniteSet(db'[d].outbox)
    BY <1>0, <1>2 DEF QueueInv
  <2> QED
    BY <1>0, <1>2, <1>4, <1>10, <2>1, NoKeyIs, QueueKeeps
<1>12. ASSUME ~Undos PROVE HeldInv(d)'
  <2>1. HeldInv(d)
    BY <1>12 DEF DeviceInv
  <2>2. \A q \in DOMAIN run'[d].prep :
          run'[d].prep[q].answer = "none" => run'[d].prep[q] = run[d].prep[q]
    BY <1>2 DEF Status
  <2> QED
    BY <1>2, <1>4, <2>1, <2>2, NoKeyIs, HeldKeeps
<1>13. ASSUME ~Undos, ~Deferral PROVE TendInv(d)'
  <2>1. TendInv(d)
    BY <1>13 DEF DeviceInv
  <2> QED
    BY <1>0, <1>2, <1>4, <1>10, <2>1, NoKeyIs, TendKeeps
<1> QED
  BY <1>2, <1>5, <1>6, <1>9, <1>11, <1>12, <1>13 DEF DeviceInv

-----------------------------------------------------------------------------
(* The answers keep it.                                                       *)

(* Clearing the covered entries, and the invariant of the outbox.             *)
LEMMA OutboxShrinks ==
  ASSUME TypeOK, NEW d \in Devices, QueueInv(d), NEW k \in Keys, NEW seqs,
         db'[d].outbox = Without(db[d].outbox, k, seqs)
  PROVE  /\ IsFiniteSet(db'[d].outbox)
         /\ Pending(d, k)' = {e \in Pending(d, k) : e.seq \notin seqs}
         /\ \A q \in Keys \ {k} : Pending(d, q)' = Pending(d, q)
         /\ PendingDelete(d, k)' => PendingDelete(d, k)
<1>1. /\ Pending(d, k)' = {e \in Pending(d, k) : e.seq \notin seqs}
      /\ \A q \in Keys \ {k} : Pending(d, q)' = Pending(d, q)
  BY PendingWithout
<1>2. db'[d].outbox \subseteq db[d].outbox
  BY DEF Without
<1>3. IsFiniteSet(db'[d].outbox)
  BY <1>2, FS_Subset DEF QueueInv
<1> QED
  BY <1>1, <1>3 DEF PendingDelete

(* The acknowledgement of an upsert keeps the invariant.                      *)
LEMMA AckUpsertStep ==
  ASSUME TypeOK, LogInv, NEW d \in Devices, DeviceInv(d), NEW k \in Keys, AckUpsert(d, k)
  PROVE  TypeOK' /\ Elsewhere(d) /\ DeviceInv(d)'
<1>0. QueueInv(d) /\ PushInv(d)
  BY DEF DeviceInv
<1>1. PICK p : p = run[d].prep[k]
  OBVIOUS
<1>2. /\ TypeOK' /\ Elsewhere(d)
      /\ run'[d].pc = "push" /\ run[d].pc = "push" /\ k \in DOMAIN run[d].prep
      /\ DOMAIN run'[d].prep = DOMAIN run[d].prep \ {k}
      /\ \A q \in DOMAIN run[d].prep \ {k} : run'[d].prep[q] = run[d].prep[q]
      /\ db'[d].row = db[d].row /\ db'[d].watermark = db[d].watermark
           /\ db'[d].dead = db[d].dead
      /\ db'[d].meta[k] = IF p.rev > db[d].meta[k] THEN p.rev ELSE db[d].meta[k]
      /\ db'[d].base[k] = IF p.rev > db[d].meta[k] THEN p.content ELSE db[d].base[k]
      /\ \A q \in Keys \ {k} : db'[d].meta[q] = db[d].meta[q] /\ db'[d].base[q] = db[d].base[q]
      /\ held'[d][k] = p.rev /\ \A q \in Keys \ {k} : held'[d][q] = held[d][q]
      /\ db'[d].outbox = Without(db[d].outbox, k, p.seqs)
  BY <1>1, AckUpsertEffect
<1>3. p.answer = "ok" /\ p.op = "upsert"
  BY <1>1 DEF AckUpsert, Answered
<1>4. /\ p.rev \in DOMAIN log /\ p.content # Nothing
      /\ log[p.rev] = [key |-> k, content |-> p.content]
      /\ p.rev > db[d].watermark /\ p.rev > db[d].meta[k]
  <2>1. AnswerOK(d, k, p)
    BY <1>0, <1>1, <1>2 DEF PushInv
  <2> QED
    BY <1>3, <2>1 DEF AnswerOK
<1>5. db'[d].meta[k] = p.rev /\ db'[d].base[k] = p.content /\ held'[d][k] = p.rev
  BY <1>2, <1>4
<1>6. log' = log /\ Grows
  BY <1>2 DEF Elsewhere, Grows
<1>7. /\ IsFiniteSet(db'[d].outbox)
      /\ Pending(d, k)' = {e \in Pending(d, k) : e.seq \notin p.seqs}
      /\ \A q \in Keys \ {k} : Pending(d, q)' = Pending(d, q)
      /\ PendingDelete(d, k)' => PendingDelete(d, k)
  BY <1>0, <1>2, OutboxShrinks
<1>8. PendingDelete(d, k) => PendingDelete(d, k)' /\ db[d].row[k] = Nothing
  BY <1>0, <1>1, <1>2, <1>3, <1>7 DEF QueueInv, PendingDelete
<1>9. \A q \in Keys \ {k} : Kept(d, q)
  BY <1>2, <1>7 DEF Kept
<1>10. Moves(d, k)
  BY <1>4, <1>5 DEF Moves
<1>11. db'[d].watermark <= db[d].watermark
  BY <1>2, Fields
<1>12. PageInv(d)' /\ StampInv(d)'
  BY <1>2 DEF PageInv, StampInv
<1>13. ASSUME ~Undos, ~Deferral, log'[db'[d].meta[k]].content # db'[d].row[k]
       PROVE  Tended(d, k)'
  <2>1. p.content # db'[d].row[k]
    BY <1>4, <1>5, <1>6, <1>13
  <2>2. db[d].row[k] = Nothing => PendingDelete(d, k)
    <3>1. TendInv(d)
      BY <1>13 DEF DeviceInv
    <3> QED
      BY <1>1, <1>2, <1>3, <3>1 DEF TendInv
  <2> QED
    BY <1>2, <1>4, <1>5, <1>8, <2>1, <2>2 DEF Tended
<1>14. k \notin DOMAIN run'[d].prep
  BY <1>2
<1> QED
  BY <1>2, <1>5, <1>6, <1>7, <1>8, <1>9, <1>10, <1>11, <1>12, <1>13, <1>14, KeyStep

(* The death of a pushed key keeps the invariant.                             *)
LEMMA AckDeadStep ==
  ASSUME TypeOK, LogInv, NEW d \in Devices, DeviceInv(d), NEW k \in Keys,
         AckDelete(d, k) \/ AckTombstoned(d, k)
  PROVE  TypeOK' /\ Elsewhere(d) /\ DeviceInv(d)'
<1>0. QueueInv(d) /\ PushInv(d)
  BY DEF DeviceInv
<1>1. PICK p : p = run[d].prep[k]
  OBVIOUS
<1>2. /\ TypeOK' /\ Elsewhere(d)
      /\ run'[d].pc = "push" /\ run[d].pc = "push" /\ k \in DOMAIN run[d].prep
      /\ DOMAIN run'[d].prep = DOMAIN run[d].prep \ {k}
      /\ \A q \in DOMAIN run[d].prep \ {k} : run'[d].prep[q] = run[d].prep[q]
      /\ db'[d].watermark = db[d].watermark /\ db'[d].dead = db[d].dead \cup {k}
      /\ db'[d].meta[k] = 0 /\ held'[d][k] = 0
      /\ \A q \in Keys \ {k} : db'[d].meta[q] = db[d].meta[q] /\ db'[d].base[q] = db[d].base[q]
      /\ \A q \in Keys \ {k} : held'[d][q] = held[d][q]
      /\ db'[d].row[k] = Nothing \/ db'[d].row[k] = db[d].row[k]
      /\ \A q \in Keys \ {k} : db'[d].row[q] = db[d].row[q]
      /\ db'[d].outbox = Without(db[d].outbox, k, p.seqs)
  <2>1. CASE AckDelete(d, k)
    BY <1>1, <2>1, AckDeleteEffect
  <2>2. CASE AckTombstoned(d, k)
    BY <1>1, <2>2, AckTombstonedEffect
  <2> QED
    BY <2>1, <2>2
<1>3. (p.answer = "ok" /\ p.op = "delete") \/ p.answer = "read"
  BY <1>1 DEF AckDelete, AckTombstoned, Answered
<1>4. Tombstoned(k)
  <2>1. AnswerOK(d, k, p)
    BY <1>0, <1>1, <1>2 DEF PushInv
  <2> QED
    BY <1>3, <2>1 DEF AnswerOK
<1>6. log' = log /\ Grows
  BY <1>2 DEF Elsewhere, Grows
<1>7. /\ IsFiniteSet(db'[d].outbox)
      /\ \A q \in Keys \ {k} : Pending(d, q)' = Pending(d, q)
      /\ PendingDelete(d, k)' => PendingDelete(d, k)
  BY <1>0, <1>2, OutboxShrinks
<1>8. PendingDelete(d, k)' => db'[d].row[k] = Nothing
  BY <1>0, <1>2, <1>7 DEF QueueInv
<1>9. \A q \in Keys \ {k} : Kept(d, q)
  BY <1>2, <1>7 DEF Kept
<1>10. Moves(d, k)
  BY <1>2, <1>4 DEF Moves
<1>11. db'[d].watermark <= db[d].watermark
  BY <1>2, Fields
<1>12. PageInv(d)' /\ StampInv(d)'
  BY <1>2 DEF PageInv, StampInv
<1>13. \A q \in db'[d].dead : q \in db[d].dead \/ Tombstoned(q)
  BY <1>2, <1>4
<1>14. k \notin DOMAIN run'[d].prep
  BY <1>2
<1> QED
  BY <1>2, <1>6, <1>7, <1>8, <1>9, <1>10, <1>11, <1>12, <1>13, <1>14, KeyStep

(* Nothing changes but what the drain or pull of d is at.                      *)
LEMMA QuietStep ==
  ASSUME TypeOK, TypeOK', LogInv, NEW d \in Devices, Elsewhere(d), DeviceInv(d),
         db' = db, held' = held,
         run'[d].pc # "push" => DOMAIN run'[d].prep = {},
         DOMAIN run'[d].prep \subseteq DOMAIN run[d].prep,
         \A q \in DOMAIN run'[d].prep : run'[d].prep[q] = run[d].prep[q],
         PageInv(d)', StampInv(d)'
  PROVE  DeviceInv(d)'
<1>1. Grows /\ NoKey \notin Keys /\ NoKey \notin DOMAIN run[d].prep
  BY NoKeyIs DEF Elsewhere, Grows
<1>2. \A q \in Keys \ {NoKey} : Kept(d, q)
  BY AllKept
<1>3. db'[d].watermark <= db[d].watermark /\ IsFiniteSet(db'[d].outbox)
  BY Fields DEF DeviceInv, QueueInv
<1>4. \A q \in db'[d].dead : q \in db[d].dead \/ Tombstoned(q)
  OBVIOUS
<1>5. NoKey \notin DOMAIN run'[d].prep
  BY <1>1
<1> QED
  BY <1>1, <1>2, <1>3, <1>4, <1>5, KeyStep

(* The first transaction of a refusal for a tombstone keeps the invariant.    *)
LEMMA ReadStep ==
  ASSUME TypeOK, LogInv, NEW d \in Devices, DeviceInv(d), NEW k \in Keys, ReadTombstoned(d, k)
  PROVE  TypeOK' /\ Elsewhere(d) /\ DeviceInv(d)'
<1>0. BaseInv(d) /\ CoverInv(d) /\ QueueInv(d) /\ PushInv(d)
  BY DEF DeviceInv
<1>1. /\ TypeOK' /\ Elsewhere(d) /\ db' = db /\ held' = held
      /\ run[d].pc = "push" /\ run'[d].pc = "push" /\ k \in DOMAIN run[d].prep
      /\ run[d].prep[k].answer = "tombstoned"
      /\ DOMAIN run'[d].prep = DOMAIN run[d].prep
      /\ \A q \in DOMAIN run[d].prep \ {k} : run'[d].prep[q] = run[d].prep[q]
      /\ run'[d].prep[k].op = run[d].prep[k].op /\ run'[d].prep[k].seqs = run[d].prep[k].seqs
      /\ run'[d].prep[k].answer = "read"
  BY ReadEffect
<1>2. log' = log /\ Grows
  BY <1>1 DEF Elsewhere, Grows
<1>3. /\ db'[d].watermark \in Nat /\ db'[d].watermark <= db[d].watermark
      /\ db'[d].dead \subseteq Keys /\ \A q \in Keys : Kept(d, q) /\ Moves(d, q)
  BY <1>1, AllKept, Fields
<1>4. BaseInv(d)' /\ CoverInv(d)'
  BY <1>0, <1>1, <1>2, <1>3, BaseKeeps, CoverKeeps
<1>5. PageInv(d)' /\ StampInv(d)'
  BY <1>1 DEF PageInv, StampInv
<1>6. PushInv(d)'
  <2>1. AnswerOK(d, k, run[d].prep[k])'
    <3>1. PICK o : o = run[d].prep[k]
      OBVIOUS
    <3>2. PICK p : p = run'[d].prep[k]
      OBVIOUS
    <3>3. AnswerOK(d, k, o) /\ o.answer = "tombstoned"
      BY <1>0, <1>1, <3>1 DEF PushInv
    <3>4. Tombstoned(k)'
      BY <1>2, <3>3 DEF AnswerOK, Tombstoned
    <3>5. p.answer = "read"
      BY <1>1, <3>2
    <3>6. AnswerOK(d, k, p)'
      BY <3>4, <3>5 DEF AnswerOK
    <3> QED
      BY <3>2, <3>6 DEF AnswerOK, Tombstoned
  <2>2. ASSUME NEW q \in DOMAIN run[d].prep, q # k
        PROVE  AnswerOK(d, q, run[d].prep[q])'
    <3>1. PICK o : o = run[d].prep[q]
      OBVIOUS
    <3>2. q \in Keys /\ o.rev \in Nat /\ AnswerOK(d, q, o) /\ run'[d].prep[q] = o
      BY <1>0, <1>1, <2>2, <3>1, PreparedIs DEF PushInv
    <3>3. AnswerOK(d, q, o)'
      BY <1>1, <1>2, <1>3, <3>2, AnswerKeeps
    <3> QED
      BY <3>2, <3>3 DEF AnswerOK, Tombstoned
  <2> QED
    BY <1>1, <2>1, <2>2 DEF PushInv
<1>7. \A q \in DOMAIN run'[d].prep : /\ run'[d].prep[q].op = run[d].prep[q].op
                                     /\ run'[d].prep[q].seqs = run[d].prep[q].seqs
  BY <1>1
<1>8. QueueInv(d)'
  <2>1. IsFiniteSet(db'[d].outbox)
    BY <1>0, <1>1 DEF QueueInv
  <2> QED
    BY <1>0, <1>1, <1>3, <1>7, <2>1, NoKeyIs, QueueKeeps
<1>9. ASSUME ~Undos PROVE HeldInv(d)'
  <2>1. HeldInv(d)
    BY <1>9 DEF DeviceInv
  <2>2. \A q \in DOMAIN run'[d].prep :
          run'[d].prep[q].answer = "none" => run'[d].prep[q] = run[d].prep[q]
    BY <1>1
  <2> QED
    BY <1>1, <1>3, <2>1, <2>2, NoKeyIs, HeldKeeps
<1>10. ASSUME ~Undos, ~Deferral PROVE TendInv(d)'
  <2>1. TendInv(d)
    BY <1>10 DEF DeviceInv
  <2> QED
    BY <1>0, <1>1, <1>2, <1>3, <1>7, <2>1, NoKeyIs, TendKeeps
<1> QED
  BY <1>1, <1>4, <1>5, <1>6, <1>8, <1>9, <1>10 DEF DeviceInv

(* Every answer keeps the invariant.                                          *)
LEMMA AckStep ==
  ASSUME TypeOK, LogInv, NEW d \in Devices, DeviceInv(d), NEW k \in Keys, Ack(d, k)
  PROVE  TypeOK' /\ Elsewhere(d) /\ DeviceInv(d)'
<1>1. CASE AckConflict(d, k) \/ AckError(d, k)
  <2>1. /\ TypeOK' /\ Elsewhere(d) /\ db' = db /\ held' = held
        /\ run[d].pc = "push" /\ run'[d].pc = "push" /\ k \in DOMAIN run[d].prep
        /\ DOMAIN run'[d].prep = DOMAIN run[d].prep \ {k}
        /\ \A q \in DOMAIN run[d].prep \ {k} : run'[d].prep[q] = run[d].prep[q]
    BY <1>1, PassedEffect
  <2>2. PageInv(d)' /\ StampInv(d)'
    BY <2>1 DEF PageInv, StampInv
  <2> QED
    BY <2>1, <2>2, QuietStep
<1> QED
  BY <1>1, AckUpsertStep, AckDeadStep, ReadStep DEF Ack

-----------------------------------------------------------------------------
(* The pull keeps it.                                                         *)

(* Leaving a drain, starting a pull and an interruption keep the invariant.   *)
LEMMA LeaveStep ==
  ASSUME TypeOK, LogInv, NEW d \in Devices, DeviceInv(d),
         (\E cycle \in BOOLEAN : EndDrain(d, cycle)) \/ StartPull(d) \/ Interrupt(d)
  PROVE  TypeOK' /\ Elsewhere(d) /\ DeviceInv(d)'
<1>1. /\ TypeOK' /\ Elsewhere(d) /\ db' = db /\ held' = held
      /\ run'[d].pc \in {"idle", "pull"} /\ DOMAIN run'[d].prep = {}
  <2>1. CASE \E cycle \in BOOLEAN : EndDrain(d, cycle)
    BY <2>1, EndDrainEffect
  <2>2. CASE StartPull(d)
    BY <2>2, StartPullEffect DEF DeviceInv, PushInv
  <2>3. CASE Interrupt(d)
    BY <2>3, InterruptEffect
  <2> QED
    BY <2>1, <2>2, <2>3
<1>2. PageInv(d)' /\ StampInv(d)'
  BY <1>1 DEF PageInv, StampInv
<1> QED
  BY <1>1, <1>2, QuietStep

(* The fetch of a page keeps the invariant.                                   *)
LEMMA FetchStep ==
  ASSUME TypeOK, LogInv, NEW d \in Devices, DeviceInv(d), Fetch(d)
  PROVE  TypeOK' /\ Elsewhere(d) /\ DeviceInv(d)'
<1>0. BaseInv(d) /\ CoverInv(d) /\ PushInv(d)
  BY DEF DeviceInv
<1>1. /\ TypeOK' /\ Elsewhere(d) /\ db' = db /\ held' = held
      /\ run[d].pc = "pull" /\ run'[d].pc = "apply" /\ run'[d].prep = run[d].prep
      /\ \E n \in 1 .. PageLimit : run'[d].page = FirstNews(d, n)
      /\ run'[d].top = db[d].watermark /\ run'[d].low = 0
  BY FetchEffect
<1>2. DOMAIN run'[d].prep = {} /\ StampInv(d)'
  BY <1>0, <1>1 DEF PushInv, StampInv
<1>3. PICK n \in 1 .. PageLimit : run'[d].page = FirstNews(d, n)
  BY <1>1
<1>4. n \in Nat /\ log' = log
  BY <1>1 DEF Elsewhere
<1>5. PageInv(d)'
  BY <1>0, <1>1, <1>3, <1>4, PageFetched
<1> QED
  BY <1>1, <1>2, <1>5, QuietStep

(* A deferred tombstone keeps the invariant.                                  *)
LEMMA DeferStep ==
  ASSUME TypeOK, LogInv, NEW d \in Devices, DeviceInv(d), NEW r, NEW k, DeferTombstone(d, r, k)
  PROVE  TypeOK' /\ Elsewhere(d) /\ DeviceInv(d)'
<1>0. PageInv(d) /\ PushInv(d)
  BY DEF DeviceInv
<1>1. /\ TypeOK' /\ Elsewhere(d) /\ db' = db /\ held' = held
      /\ run'[d].pc = "apply" /\ run'[d].prep = run[d].prep
      /\ run'[d].page = run[d].page \ {r} /\ run'[d].top = run[d].top
      /\ run[d].low = 0 => run'[d].low = r
      /\ run[d].low # 0 => run'[d].low = run[d].low
  BY <1>0, DeferEffect
<1>2. run[d].pc = "apply" /\ r \in run[d].page /\ \A t \in run[d].page : r <= t
  BY <1>0, ApplyingIs DEF DeferTombstone
<1>3. DOMAIN run'[d].prep = {} /\ StampInv(d)' /\ log' = log
  BY <1>0, <1>1, <1>2 DEF PushInv, StampInv, Elsewhere
<1>4. PageInv(d)'
  BY <1>0, <1>1, <1>2, <1>3, PageDeferred
<1> QED
  BY <1>1, <1>3, <1>4, QuietStep

(* A skipped change keeps the invariant, and the alarm is never among them.   *)
LEMMA SkippedStep ==
  ASSUME TypeOK, LogInv, NEW d \in Devices, DeviceInv(d), NEW r, NEW k, NEW c,
         ApplyNothing(d, r, k, c) \/ Tamper(d, r, k, c)
  PROVE  TypeOK' /\ Elsewhere(d) /\ DeviceInv(d)'
<1>0. BaseInv(d) /\ PageInv(d) /\ PushInv(d)
  BY DEF DeviceInv
<1>1. /\ TypeOK' /\ Elsewhere(d) /\ db' = db /\ held' = held
      /\ run'[d].page = run[d].page \ {r} /\ run'[d].top = r /\ run'[d].low = run[d].low
      /\ run'[d].stamp = NoKey /\ run'[d].prep = run[d].prep /\ run'[d].pc = "apply"
  BY <1>0, SkippedEffect
<1>2. /\ run[d].pc = "apply" /\ r \in run[d].page /\ r \in DOMAIN log /\ r \in Nat
      /\ k = log[r].key /\ c = log[r].content /\ k \in Keys
      /\ \A t \in run[d].page : r <= t
  BY <1>0, ApplyingIs DEF ApplyNothing, Tamper, Inserting, Upserting
<1>3. DOMAIN run'[d].prep = {} /\ StampInv(d)' /\ log' = log
  BY <1>0, <1>1, <1>2 DEF PushInv, StampInv, Elsewhere
<1>4. r # 0 /\ db[d].meta[k] \in Nat
  BY <1>2, Logged, Fields
<1>5. ASSUME LastOf(k, r) PROVE db[d].meta[k] = IF c = Nothing THEN 0 ELSE r
  <2>1. /\ db[d].meta[k] # 0 => /\ db[d].meta[k] \in DOMAIN log /\ log[db[d].meta[k]].key = k
                               /\ log[db[d].meta[k]].content # Nothing
    BY <1>0, <1>2 DEF BaseInv
  <2>2. db[d].meta[k] # 0 => db[d].meta[k] <= r
    BY <1>5, <2>1 DEF LastOf
  <2>3. r <= db[d].meta[k] => db[d].meta[k] = r /\ c # Nothing
    BY <1>2, <1>4, <2>1, <2>2
  <2>4. CASE ApplyNothing(d, r, k, c)
    <3>1. r <= db[d].meta[k] \/ (c = Nothing /\ ~(db[d].meta[k] > 0))
      BY <2>4 DEF ApplyNothing, Known
    <3> QED
      BY <1>4, <2>3, <3>1
  <2>5. CASE Tamper(d, r, k, c)
    <3>1. k \in db[d].dead /\ c # Nothing
      BY <2>5 DEF Tamper, Inserting, Upserting
    <3> QED
      BY <1>0, <1>2, <3>1 DEF PageInv
  <2> QED
    BY <2>4, <2>5
<1>6. PageInv(d)'
  BY <1>0, <1>1, <1>2, <1>3, <1>5, PageApplied
<1> QED
  BY <1>1, <1>3, <1>6, QuietStep

(* An applied tombstone keeps the invariant.                                  *)
LEMMA ApplyTombstoneStep ==
  ASSUME TypeOK, LogInv, NEW d \in Devices, DeviceInv(d), NEW r, NEW k, ApplyTombstone(d, r, k)
  PROVE  TypeOK' /\ Elsewhere(d) /\ DeviceInv(d)'
<1>0. PageInv(d) /\ PushInv(d) /\ QueueInv(d)
  BY DEF DeviceInv
<1>1. /\ run[d].pc = "apply" /\ r \in run[d].page /\ r \in DOMAIN log /\ r \in Nat
      /\ k = log[r].key /\ log[r].content = Nothing /\ k \in Keys
      /\ \A t \in run[d].page : r <= t
  BY <1>0, ApplyingIs DEF ApplyTombstone
<1>2. /\ TypeOK' /\ Elsewhere(d)
      /\ db'[d].watermark = db[d].watermark /\ db'[d].dead = db[d].dead \cup {k}
      /\ db'[d].meta[k] = 0 /\ held'[d][k] = 0
      /\ \A q \in Keys \ {k} : db'[d].meta[q] = db[d].meta[q] /\ db'[d].base[q] = db[d].base[q]
      /\ \A q \in Keys \ {k} : held'[d][q] = held[d][q]
      /\ run'[d].page = run[d].page \ {r} /\ run'[d].top = r /\ run'[d].low = run[d].low
      /\ run'[d].stamp = NoKey /\ run'[d].prep = run[d].prep /\ run'[d].pc = "apply"
      /\ db'[d].row[k] = Nothing
      /\ \A q \in Keys \ {k} : db'[d].row[q] = db[d].row[q]
      /\ db'[d].outbox = db[d].outbox \ Pending(d, k)
  BY <1>0, <1>1, ApplyTombstoneEffect
<1>3. DOMAIN run'[d].prep = {} /\ StampInv(d)' /\ log' = log /\ Grows
  BY <1>0, <1>1, <1>2 DEF PushInv, StampInv, Elsewhere, Grows
<1>4. Tombstoned(k)
  BY <1>1 DEF Tombstoned
<1>5. PageInv(d)'
  <2>1. \A q \in db'[d].dead : q \in db[d].dead \/ (q = k /\ log[r].content = Nothing)
    BY <1>1, <1>2
  <2> QED
    BY <1>0, <1>1, <1>2, <1>3, <2>1, PageApplied
<1>6. Pending(d, k)' = {} /\ \A q \in Keys \ {k} : Pending(d, q)' = Pending(d, q)
  BY <1>1, <1>2, PendingDropped
<1>7. IsFiniteSet(db'[d].outbox)
  BY <1>0, <1>2, FS_Subset DEF QueueInv
<1>8. \A q \in Keys \ {k} : Kept(d, q)
  BY <1>2, <1>6 DEF Kept
<1>9. Moves(d, k)
  BY <1>2, <1>4 DEF Moves
<1>10. db'[d].watermark <= db[d].watermark
  BY <1>2, Fields
<1>11. \A q \in db'[d].dead : q \in db[d].dead \/ Tombstoned(q)
  BY <1>2, <1>4
<1>12. k \notin DOMAIN run'[d].prep
  BY <1>3
<1> QED
  BY <1>2, <1>3, <1>5, <1>7, <1>8, <1>9, <1>10, <1>11, <1>12, KeyStep

(* A hidden foreign edit keeps the invariant.                                 *)
LEMMA SuppressStep ==
  ASSUME TypeOK, LogInv, NEW d \in Devices, DeviceInv(d), NEW r, NEW k, NEW c,
         Suppress(d, r, k, c)
  PROVE  TypeOK' /\ Elsewhere(d) /\ DeviceInv(d)'
<1>0. PageInv(d) /\ PushInv(d) /\ QueueInv(d)
  BY DEF DeviceInv
<1>1. /\ run[d].pc = "apply" /\ r \in run[d].page /\ r \in DOMAIN log /\ r \in Nat
      /\ k = log[r].key /\ c = log[r].content /\ k \in Keys
      /\ \A t \in run[d].page : r <= t
  BY <1>0, ApplyingIs DEF Suppress, Inserting, Upserting
<1>2. c # Nothing /\ db[d].row[k] = Nothing /\ PendingDelete(d, k)
  BY DEF Suppress, Inserting, Upserting
<1>3. /\ TypeOK' /\ Elsewhere(d)
      /\ run'[d].page = run[d].page \ {r} /\ run'[d].top = r /\ run'[d].low = run[d].low
      /\ run'[d].stamp = NoKey /\ run'[d].prep = run[d].prep /\ run'[d].pc = "apply"
      /\ held' = held /\ db'[d].row = db[d].row /\ db'[d].outbox = db[d].outbox
      /\ db'[d].watermark = db[d].watermark /\ db'[d].dead = db[d].dead
      /\ db'[d].meta[k] = r /\ db'[d].base[k] = Nothing
      /\ \A q \in Keys \ {k} : db'[d].meta[q] = db[d].meta[q] /\ db'[d].base[q] = db[d].base[q]
  <2>1. k \in Keys
    BY <1>1
  <2>2. Hid(d, r, k)
    BY <1>0, <2>1, SuppressEffect
  <2> QED
    BY <2>2 DEF Hid
<1>4. DOMAIN run'[d].prep = {} /\ StampInv(d)' /\ log' = log /\ Grows
  BY <1>0, <1>1, <1>3 DEF PushInv, StampInv, Elsewhere, Grows
<1>5. PageInv(d)'
  BY <1>0, <1>1, <1>2, <1>3, <1>4, PageApplied
<1>6. /\ IsFiniteSet(db'[d].outbox)
      /\ \A q \in Keys : Pending(d, q)' = Pending(d, q)
           /\ (PendingDelete(d, q)' <=> PendingDelete(d, q))
  BY <1>0, <1>3, OutboxStays
<1>7. \A q \in Keys \ {k} : Kept(d, q)
  BY <1>3, <1>6 DEF Kept
<1>8. Moves(d, k)
  BY <1>0, <1>1, <1>2, <1>3 DEF Moves, PageInv
<1>9. db'[d].watermark <= db[d].watermark
  BY <1>3, Fields
<1>10. Tended(d, k)' /\ k \notin DOMAIN run'[d].prep /\ db'[d].row[k] = Nothing
  BY <1>1, <1>2, <1>3, <1>4, <1>6 DEF Tended
<1> QED
  BY <1>3, <1>4, <1>5, <1>6, <1>7, <1>8, <1>9, <1>10, KeyStep

(* A row taken in keeps the invariant.                                        *)
LEMMA TakeInStep ==
  ASSUME TypeOK, LogInv, NEW d \in Devices, DeviceInv(d), NEW r, NEW k, NEW c,
         Insert(d, r, k, c) \/ PulledWins(d, r, k, c)
  PROVE  TypeOK' /\ Elsewhere(d) /\ DeviceInv(d)'
<1>0. PageInv(d) /\ PushInv(d) /\ QueueInv(d)
  BY DEF DeviceInv
<1>1. c # Nothing /\ Applying(d, r, k, c) /\ TakeIn(d, r, k, c)
  BY DEF Insert, PulledWins, Inserting, Upserting
<1>2. /\ run[d].pc = "apply" /\ r \in run[d].page /\ r \in DOMAIN log /\ r \in Nat
      /\ k = log[r].key /\ c = log[r].content /\ k \in Keys
      /\ \A t \in run[d].page : r <= t
  BY <1>0, <1>1, ApplyingIs
<1>3. ~PendingDelete(d, k)
  BY <1>0, <1>2 DEF Insert, PulledWins, QueueInv
<1>4. /\ TypeOK' /\ Elsewhere(d)
      /\ run'[d].page = run[d].page \ {r} /\ run'[d].top = r /\ run'[d].low = run[d].low
      /\ run'[d].stamp = k /\ run'[d].prep = run[d].prep /\ run'[d].pc = "stamp"
      /\ held'[d][k] = r /\ \A q \in Keys \ {k} : held'[d][q] = held[d][q]
      /\ db'[d].outbox = db[d].outbox
      /\ db'[d].watermark = db[d].watermark /\ db'[d].dead = db[d].dead
      /\ db'[d].meta[k] = r /\ db'[d].base[k] = Nothing /\ db'[d].row[k] = c
      /\ \A q \in Keys \ {k} : db'[d].meta[q] = db[d].meta[q] /\ db'[d].base[q] = db[d].base[q]
      /\ \A q \in Keys \ {k} : db'[d].row[q] = db[d].row[q]
  <2>1. k \in Keys
    BY <1>2
  <2>2. PageInv(d) /\ Applying(d, r, k, c) /\ TakeIn(d, r, k, c)
    BY <1>0, <1>1
  <2>3. TookIn(d, r, k, c)
    BY <2>1, <2>2, TakeInEffect
  <2> QED
    BY <2>3 DEF TookIn
<1>5. DOMAIN run'[d].prep = {} /\ StampInv(d)' /\ log' = log /\ Grows
  BY <1>0, <1>2, <1>4 DEF PushInv, StampInv, Elsewhere, Grows
<1>6. PageInv(d)'
  BY <1>0, <1>1, <1>2, <1>4, <1>5, PageApplied
<1>7. /\ IsFiniteSet(db'[d].outbox)
      /\ \A q \in Keys : Pending(d, q)' = Pending(d, q)
           /\ (PendingDelete(d, q)' <=> PendingDelete(d, q))
  BY <1>0, <1>4, OutboxStays
<1>8. \A q \in Keys \ {k} : Kept(d, q)
  BY <1>4, <1>7 DEF Kept
<1>9. Moves(d, k)
  BY <1>0, <1>1, <1>2, <1>4 DEF Moves, PageInv
<1>10. db'[d].watermark <= db[d].watermark
  BY <1>4, Fields
<1>11. /\ k \notin DOMAIN run'[d].prep /\ ~PendingDelete(d, k)'
       /\ held'[d][k] = db'[d].meta[k] /\ log'[db'[d].meta[k]].content = db'[d].row[k]
  BY <1>2, <1>3, <1>4, <1>5, <1>7
<1> QED
  BY <1>4, <1>5, <1>6, <1>7, <1>8, <1>9, <1>10, <1>11, KeyStep

(* A local row that wins keeps the invariant.                                 *)
LEMMA LocalWinsStep ==
  ASSUME TypeOK, LogInv, NEW d \in Devices, DeviceInv(d), NEW r, NEW k, NEW c,
         LocalWins(d, r, k, c)
  PROVE  TypeOK' /\ Elsewhere(d) /\ DeviceInv(d)'
<1>0. PageInv(d) /\ PushInv(d) /\ QueueInv(d)
  BY DEF DeviceInv
<1>1. /\ c # Nothing /\ Applying(d, r, k, c)
      /\ db[d].row[k] # Nothing /\ c <= db[d].row[k]
  BY DEF LocalWins, Upserting
<1>2. /\ run[d].pc = "apply" /\ r \in run[d].page /\ r \in DOMAIN log /\ r \in Nat
      /\ k = log[r].key /\ c = log[r].content /\ k \in Keys /\ c \in Contents \cup {Nothing}
      /\ \A t \in run[d].page : r <= t
  BY <1>0, <1>1, ApplyingIs
<1>3. ~PendingDelete(d, k)
  BY <1>0, <1>1, <1>2 DEF QueueInv
<1>4. /\ TypeOK' /\ Elsewhere(d)
      /\ run'[d].page = run[d].page \ {r} /\ run'[d].top = r /\ run'[d].low = run[d].low
      /\ run'[d].stamp = NoKey /\ run'[d].prep = run[d].prep /\ run'[d].pc = "apply"
      /\ held'[d][k] = r /\ \A q \in Keys \ {k} : held'[d][q] = held[d][q]
      /\ db'[d].outbox = Repush(d, k, c)
      /\ db'[d].watermark = db[d].watermark /\ db'[d].dead = db[d].dead
      /\ db'[d].meta[k] = r /\ db'[d].base = db[d].base /\ db'[d].row = db[d].row
      /\ \A q \in Keys \ {k} : db'[d].meta[q] = db[d].meta[q]
  <2>1. k \in Keys
    BY <1>2
  <2>2. LocalWon(d, r, k, c)
    BY <1>0, <2>1, LocalWinsEffect
  <2> QED
    BY <2>2 DEF LocalWon
<1>5. DOMAIN run'[d].prep = {} /\ StampInv(d)' /\ log' = log /\ Grows
  BY <1>0, <1>2, <1>4 DEF PushInv, StampInv, Elsewhere, Grows
<1>6. PageInv(d)'
  BY <1>0, <1>1, <1>2, <1>4, <1>5, PageApplied
<1>7. \/ db'[d].outbox = Queued(d, k, "upsert")
      \/ db'[d].outbox = db[d].outbox /\ c = db[d].row[k]
  <2>1. c \in Int /\ db[d].row[k] \in Int
    <3>1. db[d].row[k] \in Contents \cup {Nothing}
      BY <1>2, Fields
    <3> QED
      BY <1>2, <3>1, EngineAssumption DEF Contents, Nothing
  <2> QED
    BY <1>1, <1>4, <2>1 DEF Repush
<1>8. /\ IsFiniteSet(db'[d].outbox)
      /\ \A q \in Keys \ {k} : Pending(d, q)' = Pending(d, q)
      /\ ~PendingDelete(d, k)'
      /\ db'[d].outbox = Queued(d, k, "upsert") => Pending(d, k)' # {}
  BY <1>0, <1>2, <1>3, <1>7, OutboxGrows, OutboxStays
<1>9. \A q \in Keys \ {k} : Kept(d, q)
  BY <1>4, <1>8 DEF Kept
<1>10. Moves(d, k)
  BY <1>0, <1>1, <1>2, <1>4 DEF Moves, PageInv
<1>11. db'[d].watermark <= db[d].watermark
  BY <1>4, Fields
<1>12. /\ k \notin DOMAIN run'[d].prep /\ held'[d][k] = db'[d].meta[k]
  BY <1>2, <1>4, <1>5
<1>13. log'[db'[d].meta[k]].content # db'[d].row[k] => Tended(d, k)'
  BY <1>1, <1>2, <1>4, <1>5, <1>7, <1>8 DEF Tended
<1> QED
  BY <1>4, <1>5, <1>6, <1>8, <1>9, <1>10, <1>11, <1>12, <1>13, KeyStep

(* A stamped baseline keeps the invariant.                                    *)
LEMMA StampStep ==
  ASSUME TypeOK, LogInv, NEW d \in Devices, DeviceInv(d), Stamp(d)
  PROVE  TypeOK' /\ Elsewhere(d) /\ DeviceInv(d)'
<1>0. PageInv(d) /\ PushInv(d) /\ QueueInv(d) /\ StampInv(d) /\ CoverInv(d)
  BY DEF DeviceInv
<1>1. PICK k : k = run[d].stamp
  OBVIOUS
<1>2. k \in Keys /\ db[d].base[k] = Nothing /\ run[d].pc = "stamp"
  BY <1>0, <1>1 DEF Stamp, StampInv
<1>3. /\ TypeOK' /\ Elsewhere(d) /\ held' = held
      /\ run'[d].pc = "apply" /\ run'[d].prep = run[d].prep /\ run'[d].page = run[d].page
      /\ run'[d].top = run[d].top /\ run'[d].low = run[d].low
      /\ \A q \in Keys \ {k} : db'[d].base[q] = db[d].base[q]
      /\ db'[d].row = db[d].row /\ db'[d].meta = db[d].meta /\ db'[d].outbox = db[d].outbox
      /\ db'[d].watermark = db[d].watermark /\ db'[d].dead = db[d].dead
  BY <1>1, <1>2, StampEffect
<1>4. DOMAIN run'[d].prep = {} /\ StampInv(d)' /\ log' = log /\ Grows
  BY <1>0, <1>2, <1>3 DEF PushInv, StampInv, Elsewhere, Grows
<1>5. db'[d].watermark \in Nat /\ db'[d].watermark <= db[d].watermark
  BY <1>3, Fields
<1>6. PageInv(d)'
  BY <1>0, <1>2, <1>3, <1>4, <1>5, PageKeeps
<1>7. /\ IsFiniteSet(db'[d].outbox)
      /\ \A q \in Keys : Pending(d, q)' = Pending(d, q)
           /\ (PendingDelete(d, q)' <=> PendingDelete(d, q))
  BY <1>0, <1>3, OutboxStays
<1>8. \A q \in Keys \ {k} : Kept(d, q)
  BY <1>3, <1>7 DEF Kept
<1>9. Moves(d, k) /\ k \notin DOMAIN run'[d].prep
  BY <1>3, <1>4 DEF Moves
<1>10. PendingDelete(d, k)' => db'[d].row[k] = Nothing
  BY <1>0, <1>2, <1>3, <1>7 DEF QueueInv
<1>11. ASSUME ~Undos, db'[d].row[k] # Nothing, db'[d].meta[k] # 0
       PROVE  held'[d][k] = db'[d].meta[k]
  <2>1. HeldInv(d)
    BY <1>11 DEF DeviceInv
  <2> QED
    BY <1>2, <1>3, <1>11, <2>1 DEF HeldInv
<1>12. ASSUME ~Undos, ~Deferral, db'[d].meta[k] # 0,
              log'[db'[d].meta[k]].content # db'[d].row[k]
       PROVE  Tended(d, k)'
  <2>1. Tended(d, k)
    BY <1>2, <1>3, <1>4, <1>12 DEF DeviceInv, TendInv
  <2>2. IF db[d].row[k] = Nothing THEN PendingDelete(d, k) ELSE Pending(d, k) # {}
    BY <1>2, <2>1 DEF Tended
  <2> QED
    BY <1>2, <1>3, <1>7, <2>2 DEF Tended
<1> QED
  BY <1>3, <1>4, <1>5, <1>6, <1>7, <1>8, <1>9, <1>10, <1>11, <1>12, KeyStep

(* The end of a page, or a session locked inside one, keeps the invariant.    *)
LEMMA AdvanceStep ==
  ASSUME TypeOK, LogInv, NEW d \in Devices, DeviceInv(d), FinishPage(d) \/ LockSession(d)
  PROVE  TypeOK' /\ Elsewhere(d) /\ DeviceInv(d)'
<1>0. BaseInv(d) /\ CoverInv(d) /\ PageInv(d) /\ PushInv(d) /\ QueueInv(d)
  BY DEF DeviceInv
<1>1. /\ TypeOK' /\ Elsewhere(d) /\ held' = held
      /\ run'[d].pc \in {"idle", "pull"} /\ DOMAIN run'[d].prep = {}
      /\ db'[d].watermark = Max({db[d].watermark, NextWatermark(d)})
      /\ db'[d].row = db[d].row /\ db'[d].meta = db[d].meta /\ db'[d].base = db[d].base
      /\ db'[d].outbox = db[d].outbox /\ db'[d].dead = db[d].dead
  BY FinishEffect, LockEffect
<1>2. run[d].pc = "apply" /\ log' = log /\ Grows
  BY <1>1 DEF FinishPage, LockSession, InPage, Elsewhere, Grows
<1>3. CoverInv(d)'
  BY <1>0, <1>1, <1>2, CoverAdvances
<1>4. /\ IsFiniteSet(db'[d].outbox)
      /\ \A q \in Keys : Pending(d, q)' = Pending(d, q)
  BY <1>0, <1>1, OutboxStays
<1>5. db'[d].dead \subseteq Keys /\ \A q \in Keys : Kept(d, q) /\ Moves(d, q)
  BY <1>1, <1>4, Fields DEF Kept, Moves
<1>6. BaseInv(d)'
  BY <1>0, <1>1, <1>2, <1>5, BaseKeeps
<1>7. PushInv(d)' /\ PageInv(d)' /\ StampInv(d)'
  BY <1>1 DEF PushInv, PageInv, StampInv
<1>8. QueueInv(d)'
  BY <1>0, <1>1, <1>4, <1>5, NoKeyIs, QueueKeeps
<1>9. ASSUME ~Undos PROVE HeldInv(d)'
  <2>1. HeldInv(d)
    BY <1>9 DEF DeviceInv
  <2> QED
    BY <1>1, <1>5, <2>1, NoKeyIs, HeldKeeps
<1>10. ASSUME ~Undos, ~Deferral PROVE TendInv(d)'
  <2>1. TendInv(d)
    BY <1>10 DEF DeviceInv
  <2> QED
    BY <1>0, <1>1, <1>2, <1>5, <2>1, NoKeyIs, TendKeeps
<1> QED
  BY <1>1, <1>3, <1>6, <1>7, <1>8, <1>9, <1>10 DEF DeviceInv

-----------------------------------------------------------------------------
(* The invariant, and the theorems.                                           *)

(* Every change of a page keeps the invariant.                                *)
LEMMA ApplyStep ==
  ASSUME TypeOK, LogInv, NEW d \in Devices, DeviceInv(d), ApplyNext(d)
  PROVE  TypeOK' /\ Elsewhere(d) /\ DeviceInv(d)'
<1>1. PICK r \in run[d].page : Apply(d, r, log[r].key, log[r].content)
  BY DEF ApplyNext
<1>2. PICK k, c : k = log[r].key /\ c = log[r].content
  OBVIOUS
<1>3. Apply(d, r, k, c)
  BY <1>1, <1>2
<1> QED
  BY <1>3, DeferStep, ApplyTombstoneStep, SkippedStep, SuppressStep, TakeInStep,
     LocalWinsStep
     DEF Apply

(* A step is a commit, or one of a single device that keeps the log.          *)
LEMMA NextCases ==
  ASSUME TypeOK, LogInv, \A d \in Devices : DeviceInv(d), Next
  PROVE  \/ \E d \in Devices, k \in Keys, room \in 0 .. 1 : Commit(d, k, room)
         \/ CommitLate
         \/ \E d \in Devices : TypeOK' /\ Elsewhere(d) /\ DeviceInv(d)'
<1>1. ASSUME NEW d \in Devices, NEW k \in Keys,
             User(d, k) \/ Ack(d, k) \/ Backfill(d, k) \/ Reconcile(d, k)
      PROVE  TypeOK' /\ Elsewhere(d) /\ DeviceInv(d)'
  BY <1>1, UserStep, AckStep, TailStep
<1>2. ASSUME NEW d \in Devices,
             \/ StartDrain(d) \/ (\E cycle \in BOOLEAN : EndDrain(d, cycle))
             \/ StartPull(d) \/ Fetch(d) \/ ApplyNext(d) \/ Stamp(d) \/ FinishPage(d)
             \/ LockSession(d) \/ Interrupt(d)
      PROVE  TypeOK' /\ Elsewhere(d) /\ DeviceInv(d)'
  BY <1>2, StartDrainStep, LeaveStep, FetchStep, ApplyStep, StampStep, AdvanceStep
<1> QED
  BY <1>1, <1>2 DEF Next

(* The inductive invariant, by device.                                        *)
LEMMA InvIs == IndInv <=> TypeOK /\ LogInv /\ \A d \in Devices : DeviceInv(d)
BY DEF IndInv, DeviceInv

(* ... and in the next state.                                                 *)
LEMMA InvIsNext == IndInv' <=> TypeOK' /\ LogInv' /\ \A d \in Devices : DeviceInv(d)'
BY DEF IndInv, DeviceInv

(* Every step keeps the inductive invariant.                                  *)
LEMMA InvStep ==
  ASSUME IndInv, [Next]_vars
  PROVE  IndInv'
<1>0. TypeOK /\ LogInv /\ \A d \in Devices : DeviceInv(d)
  BY InvIs
<1>1. CASE UNCHANGED vars
  <2>1. db' = db /\ run' = run /\ held' = held /\ log' = log /\ Grows /\ TypeOK'
    BY <1>0, <1>1 DEF vars, Grows, TypeOK
  <2>2. LogInv'
    BY <1>0, <2>1, GrownLog
  <2>3. \A d \in Devices : DeviceInv(d)'
    BY <1>0, <2>1, Bystander
  <2> QED
    BY <2>1, <2>2, <2>3, InvIsNext
<1>2. ASSUME NEW d \in Devices, NEW k \in Keys, NEW room \in 0 .. 1, Commit(d, k, room)
      PROVE  IndInv'
  <2>1. /\ TypeOK' /\ Grows /\ db' = db /\ held' = held /\ DeviceInv(d)'
        /\ \A e \in Devices \ {d} : run'[e] = run[e]
    BY <1>0, <1>2, CommitStep
  <2>2. LogInv'
    BY <1>0, <2>1, GrownLog
  <2>3. \A e \in Devices \ {d} : DeviceInv(e)'
    BY <1>0, <2>1, Bystander
  <2> QED
    BY <2>1, <2>2, <2>3, InvIsNext
<1>3. CASE CommitLate
  <2>1. TypeOK' /\ Grows /\ db' = db /\ held' = held /\ run' = run
    BY <1>0, <1>3, CommitLateEffect
  <2>2. LogInv'
    BY <1>0, <2>1, GrownLog
  <2>3. \A e \in Devices : DeviceInv(e)'
    BY <1>0, <2>1, Bystander
  <2> QED
    BY <2>1, <2>2, <2>3, InvIsNext
<1>4. ASSUME NEW d \in Devices, TypeOK', Elsewhere(d), DeviceInv(d)'
      PROVE  IndInv'
  <2>1. log' = log /\ Grows
    BY <1>4 DEF Elsewhere, Grows
  <2>2. LogInv'
    BY <1>0, <2>1, GrownLog
  <2>3. \A e \in Devices \ {d} : DeviceInv(e)'
    BY <1>0, <1>4, <2>1, Bystander DEF Elsewhere
  <2> QED
    BY <1>4, <2>2, <2>3, InvIsNext
<1>5. CASE Next
  BY <1>0, <1>2, <1>3, <1>4, <1>5, NextCases
<1> QED
  BY <1>1, <1>5

(* Devices start in step with a log that holds live rows only.                *)
LEMMA InStepTyped ==
  ASSUME Init
  PROVE  /\ log \in Seq(Change) /\ \A r \in DOMAIN log : log[r].content # Nothing
         /\ minted \subseteq Contents
         /\ InStep(log) \in Database
         /\ \A k \in Keys : /\ InStep(log).meta[k] = Latest(k)
                            /\ Latest(k) # 0 => InStep(log).row[k] = log[Latest(k)].content
         /\ InStep(log).outbox = {} /\ InStep(log).dead = {} /\ InStep(log).watermark = Len(log)
<1>1. log \in Seq([key : Keys, content : Contents])
  BY EngineAssumption DEF Init
<1>2. /\ Len(log) \in Nat /\ DOMAIN log = 1 .. Len(log)
      /\ \A r \in DOMAIN log : log[r] \in [key : Keys, content : Contents]
  <2> DEFINE T == [key : Keys, content : Contents]
  <2>1. log \in Seq(T)
    BY <1>1
  <2> HIDE DEF T
  <2>2. Len(log) \in Nat /\ DOMAIN log = 1 .. Len(log) /\ \A r \in DOMAIN log : log[r] \in T
    BY <2>1
  <2> QED
    BY <2>2 DEF T
<1>3. \A r \in DOMAIN log : log[r].key \in Keys /\ log[r].content \in Contents
  BY <1>2
<1>4. Nothing \notin Contents
  BY DEF Contents, Nothing
<1>5. log \in Seq(Change)
  <2>1. \A r \in DOMAIN log : log[r] \in Change
    BY <1>2 DEF Change
  <2> QED
    BY <1>1, <1>2, <2>1
<1>6. minted \subseteq Contents
  BY <1>3 DEF Init
<1>7. ASSUME NEW k \in Keys
      PROVE  Latest(k) \in Nat /\ (Latest(k) # 0 => Latest(k) \in DOMAIN log)
  <2> DEFINE S == {r \in DOMAIN log : log[r].key = k}
  <2>1. S \subseteq Nat /\ IsFiniteSet(S) /\ S \subseteq DOMAIN log
    <3>1. S \subseteq DOMAIN log /\ DOMAIN log \subseteq Nat
      BY <1>2
    <3>2. IsFiniteSet(1 .. Len(log))
      BY <1>2, FS_Interval
    <3> HIDE DEF S
    <3> QED
      BY <1>2, <3>1, <3>2, FS_Subset
  <2> HIDE DEF S
  <2>2. Highest(S) \in Nat /\ Highest(S) \in S \cup {0}
    BY <2>1, HighestIs
  <2>3. Latest(k) = Highest(S)
    BY DEF Latest, S
  <2> QED
    BY <2>1, <2>2, <2>3
<1> DEFINE row == [k \in Keys |-> IF Latest(k) = 0 THEN Nothing ELSE log[Latest(k)].content]
           meta == [k \in Keys |-> Latest(k)]
           x == [row |-> row, meta |-> meta, base |-> row,
                 outbox |-> {}, watermark |-> Len(log),
                 trash |-> [k \in Keys |-> Nothing], dead |-> {},
                 suppressed |-> [k \in Keys |-> 0]]
<1>8. InStep(log) = x
  BY DEF InStep, Latest
<1>9. row \in [Keys -> Contents \cup {Nothing}] /\ meta \in [Keys -> Nat]
  <2>1. \A k \in Keys : row[k] \in Contents \cup {Nothing}
    BY <1>3, <1>7
  <2> QED
    BY <1>7, <2>1
<1>10. x \in Database
  <2> HIDE DEF row, meta
  <2>1. /\ [k \in Keys |-> Nothing] \in [Keys -> Contents \cup {Nothing}]
        /\ [k \in Keys |-> 0] \in [Keys -> Nat] /\ {} \in SUBSET Entry /\ {} \in SUBSET Keys
    OBVIOUS
  <2> QED
    BY <1>2, <1>9, <2>1 DEF Database
<1>11. /\ x.meta = meta /\ x.row = row
       /\ x.outbox = {} /\ x.dead = {} /\ x.watermark = Len(log)
  OBVIOUS
<1>12. \A k \in Keys : meta[k] = Latest(k) /\ (Latest(k) # 0 => row[k] = log[Latest(k)].content)
  OBVIOUS
<1> HIDE DEF x, row, meta
<1> QED
  BY <1>3, <1>4, <1>5, <1>6, <1>8, <1>10, <1>11, <1>12

(* The initial states satisfy the inductive invariant.                        *)
LEMMA InvInit ==
  ASSUME Init
  PROVE  IndInv
<1>1. /\ log \in Seq(Change) /\ \A r \in DOMAIN log : log[r].content # Nothing
      /\ minted \subseteq Contents
      /\ InStep(log) \in Database
      /\ \A k \in Keys : /\ InStep(log).meta[k] = Latest(k)
                         /\ Latest(k) # 0 => InStep(log).row[k] = log[Latest(k)].content
      /\ InStep(log).outbox = {} /\ InStep(log).dead = {} /\ InStep(log).watermark = Len(log)
  BY InStepTyped
<1>2. PICK x : x = InStep(log)
  OBVIOUS
<1>3. /\ db = [d \in Devices |-> x] /\ run = [d \in Devices |-> Idle]
      /\ held = [d \in Devices |-> x.meta]
      /\ handles = [d \in Devices |-> {}] /\ late = {} /\ mishaps = 0
  BY <1>2 DEF Init
<1>4. TypeOK
  <2>1. db \in [Devices -> Database]
    BY <1>1, <1>2, <1>3
  <2>2. x.meta \in [Keys -> Nat]
    BY <1>1, <1>2 DEF Database
  <2>3. held \in [Devices -> [Keys -> Nat]]
    BY <1>3, <2>2
  <2>4. DOMAIN run = Devices /\ \A d \in Devices : RunTyped(run[d])
    BY <1>3, IdleTyped
  <2>5. handles \in [Devices -> SUBSET Keys] /\ late \subseteq Request
    BY <1>3
  <2>6. mishaps \in 0 .. MaxMishaps
    BY <1>3, EngineAssumption
  <2> QED
    BY <1>1, <2>1, <2>3, <2>4, <2>5, <2>6 DEF TypeOK, RunTyped
<1>5. LogInv
  BY <1>1 DEF LogInv
<1>6. ASSUME NEW d \in Devices PROVE DeviceInv(d)
  <2>1. /\ run[d].pc = "idle" /\ DOMAIN run[d].prep = {}
    BY <1>3, IdleTyped DEF Idle
  <2>2. /\ db[d] = x /\ held[d] = x.meta
        /\ db[d].outbox = {} /\ db[d].dead = {} /\ db[d].watermark = Len(log)
        /\ \A k \in Keys : /\ db[d].meta[k] = Latest(k) /\ held[d][k] = Latest(k)
                           /\ Latest(k) # 0 => db[d].row[k] = log[Latest(k)].content
    BY <1>1, <1>2, <1>3
  <2>3. \A k \in Keys : /\ Latest(k) # 0 => LastOf(k, Latest(k))
                        /\ \A r : LastOf(k, r) => Latest(k) = r
    BY <1>4, LatestIs
  <2>4. BaseInv(d)
    BY <1>1, <2>2, <2>3 DEF BaseInv, LastOf
  <2>5. CoverInv(d)
    <3>1. Len(log) <= Len(log)
      BY <1>4, Logged
    <3> QED
      BY <1>1, <2>2, <2>3, <3>1 DEF CoverInv, Has
  <2>6. PushInv(d) /\ PageInv(d) /\ StampInv(d)
    BY <2>1 DEF PushInv, PageInv, StampInv
  <2>7. \A k \in Keys : Pending(d, k) = {} /\ ~PendingDelete(d, k)
    BY <2>2 DEF Pending, PendingDelete
  <2>8. QueueInv(d)
    BY <2>1, <2>2, <2>7, FS_EmptySet DEF QueueInv
  <2>9. HeldInv(d)
    BY <2>1, <2>2 DEF HeldInv
  <2>10. TendInv(d)
    BY <2>1, <2>2 DEF TendInv
  <2> QED
    BY <2>4, <2>5, <2>6, <2>8, <2>9, <2>10 DEF DeviceInv
<1> QED
  BY <1>4, <1>5, <1>6, InvIs

(* The inductive invariant holds.                                              *)
THEOREM Invariance == Spec => []IndInv
<1>1. Init => IndInv
  BY InvInit
<1>2. IndInv /\ [Next]_vars => IndInv'
  BY InvStep
<1> QED
  BY <1>1, <1>2, PTL DEF Spec

(* Type correctness.                                                           *)
THEOREM TypeCorrect == Spec => []TypeOK
<1>1. IndInv => TypeOK
  BY DEF IndInv
<1> QED
  BY <1>1, Invariance, PTL

(* The base of a key whose last change the watermark is past.                 *)
LEMMA CoveredBase ==
  ASSUME IndInv, NEW d \in Devices, NEW k \in Keys, Latest(k) \in 1 .. db[d].watermark
  PROVE  db[d].meta[k] =
           IF Latest(k) = 0 \/ log[Latest(k)].content = Nothing THEN 0 ELSE Latest(k)
<1>1. TypeOK /\ CoverInv(d)
  BY DEF IndInv
<1>2. Latest(k) # 0 /\ Latest(k) <= db[d].watermark
  BY <1>1, Fields
<1>3. LastOf(k, Latest(k))
  BY <1>1, <1>2, LatestIs
<1>4. Has(d, k, Latest(k))
  BY <1>1, <1>2, <1>3 DEF CoverInv, LastOf
<1> QED
  BY <1>2, <1>4 DEF Has

(* What a watermark is past was taken in.                                      *)
THEOREM NothingSkipped == Spec => []WatermarkCovers
<1>1. IndInv => WatermarkCovers
  BY CoveredBase DEF WatermarkCovers
<1> QED
  BY <1>1, Invariance, PTL

(* An honest server never sets off the alarm.                                  *)
THEOREM AlarmIsTrue == Spec => NoFalseTamper
<1>1. ASSUME IndInv, NEW d \in Devices, NEW r \in run[d].page
      PROVE  ~Tamper(d, r, log[r].key, log[r].content)
  <2> SUFFICES ASSUME Tamper(d, r, log[r].key, log[r].content) PROVE FALSE
    OBVIOUS
  <2>1. /\ run[d].pc = "apply" /\ log[r].content # Nothing /\ log[r].key \in db[d].dead
    BY DEF Tamper, Inserting, Upserting, Applying, InPage
  <2> QED
    BY <1>1, <2>1 DEF IndInv, PageInv
<1>2. IndInv => [\A d \in Devices : \A r \in run[d].page :
                   ~Tamper(d, r, log[r].key, log[r].content)]_vars
  BY <1>1
<1> QED
  BY <1>2, Invariance, PTL DEF NoFalseTamper

(* The record that commits is the one on the wire, and its base is what the   *)
(* device squared.                                                            *)
LEMMA OverwriteStep ==
  ASSUME ~Undos, IndInv, Next, NEW d \in Devices, NEW k \in Keys,
         OnTheWire(d, k), run[d].prep[k].op = "upsert",
         ~OnTheWire(d, k)', Len(log') > Len(log), ServerContent(k) # Nothing
  PROVE  held[d][k] = Latest(k)
<1>0. TypeOK /\ LogInv /\ HeldInv(d) /\ \A e \in Devices : DeviceInv(e)
  BY InvIs DEF IndInv
<1>1. log' # log
  BY <1>0, Logged
<1>2. ~CommitLate
  <2>1. CommitLate => run' = run
    BY DEF CommitLate
  <2> QED
    BY <2>1 DEF OnTheWire
<1>3. PICK e \in Devices, q \in Keys, room \in 0 .. 1 : Commit(e, q, room)
  BY <1>0, <1>1, <1>2, NextCases DEF Elsewhere
<1>4. PICK v : v = Verdict(q, run[e].prep[q], room)
  OBVIOUS
<1>5. /\ Serve(q, run[e].prep[q], v)
      /\ \A f \in Devices \ {e} : run'[f] = run[f]
      /\ DOMAIN run'[e].prep = DOMAIN run[e].prep
      /\ \A p \in DOMAIN run[e].prep \ {q} : run'[e].prep[p] = run[e].prep[p]
  BY <1>0, <1>3, <1>4, CommitEffect
<1>6. e = d /\ q = k
  BY <1>5 DEF OnTheWire
<1>7. PICK p : p = run[d].prep[k]
  OBVIOUS
<1>8. Commits(v) /\ v = Verdict(k, p, room) /\ p.op = "upsert"
  BY <1>1, <1>4, <1>5, <1>6, <1>7 DEF Serve
<1>9. Latest(k) # 0 => Latest(k) = p.base
  <2>1. v = "write"
    BY <1>0, <1>8, VerdictIs DEF Commits
  <2> QED
    BY <1>0, <1>8, <2>1, VerdictIs
<1>10. Latest(k) # 0
  BY DEF ServerContent
<1>11. p.base # 0 => held[d][k] = p.base
  BY <1>0, <1>7, <1>8 DEF HeldInv, OnTheWire
<1> QED
  BY <1>9, <1>10, <1>11

(* Without undo no upsert replaces a version its device has not squared.        *)
THEOREM NeverBlind == ASSUME ~Undos PROVE Spec => NoBlindOverwrite
<1>1. IndInv /\ [Next]_vars =>
        [\A d \in Devices, k \in Keys :
           /\ OnTheWire(d, k) /\ run[d].prep[k].op = "upsert"
           /\ ~OnTheWire(d, k)' /\ Len(log') > Len(log)
           /\ ServerContent(k) # Nothing
           => held[d][k] = Latest(k)]_vars
  BY OverwriteStep
<1> QED
  BY <1>1, Invariance, PTL DEF NoBlindOverwrite, Spec

(* The inductive invariant holds what ChangesAreTended says.                  *)
LEMMA TendedIs ==
  ASSUME ~Undos, ~Deferral, IndInv
  PROVE  ChangesAreTended
<1>1. TypeOK /\ \A d \in Devices : TendInv(d)
  BY DEF IndInv
<1>2. \A d \in Devices, k \in Keys : db[d].meta[k] > 0 => db[d].meta[k] # 0
  OBVIOUS
<1> QED
  BY <1>1, <1>2 DEF ChangesAreTended, TendInv

(* Without undo and deferral no local change is forgotten.                      *)
THEOREM NoneForgotten == ASSUME ~Undos, ~Deferral PROVE Spec => []ChangesAreTended
<1>1. IndInv => ChangesAreTended
  BY TendedIs
<1> QED
  BY <1>1, Invariance, PTL

(* At rest a row is what the watermark covers, and the watermark covers all.  *)
LEMMA RestAgrees ==
  ASSUME ~Undos, ~Deferral, IndInv, AtRest, NEW d \in Devices, NEW k \in Keys
  PROVE  db[d].row[k] = ServerContent(k)
<1>0. TypeOK /\ BaseInv(d)
  BY DEF IndInv
<1>1. /\ db[d].outbox = {} /\ db[d].watermark = Len(log)
      /\ db[d].row[k] # Nothing => db[d].meta[k] > 0 /\ db[d].base[k] = db[d].row[k]
  BY DEF AtRest
<1>2. ~(db[d].meta[k] > 0 /\ log[db[d].meta[k]].content # db[d].row[k])
  <2>1. ~Tended(d, k)
    BY <1>1 DEF Tended, PendingDelete, Pending
  <2> QED
    BY <2>1, TendedIs DEF ChangesAreTended
<1>3. db[d].meta[k] = IF ServerContent(k) = Nothing THEN 0 ELSE Latest(k)
  <2>1. CASE Latest(k) = 0
    <3>1. \A r \in DOMAIN log : log[r].key # k
      BY <1>0, <2>1, LatestIs
    <3> QED
      BY <1>0, <2>1, <3>1 DEF BaseInv, ServerContent
  <2>2. CASE Latest(k) # 0
    <3>1. Latest(k) \in 1 .. db[d].watermark
      BY <1>0, <1>1, <2>2, LatestIs, Logged DEF LastOf
    <3> QED
      BY <2>2, <3>1, CoveredBase DEF ServerContent
  <2> QED
    BY <2>1, <2>2
<1>4. db[d].meta[k] \in Nat /\ Latest(k) \in Nat
  BY <1>0, Fields, LatestIs
<1>5. CASE ServerContent(k) = Nothing
  BY <1>1, <1>3, <1>4, <1>5
<1>6. CASE ServerContent(k) # Nothing
  <2>1. Latest(k) # 0 /\ ServerContent(k) = log[Latest(k)].content
    BY <1>6 DEF ServerContent
  <2> QED
    BY <1>2, <1>3, <1>4, <1>6, <2>1
<1> QED
  BY <1>5, <1>6

(* Devices at rest agree with the account.                                     *)
THEOREM RestIsAgreement == ASSUME ~Undos, ~Deferral PROVE Spec => []Converged
<1>1. IndInv => Converged
  BY RestAgrees DEF Converged, Agree
<1> QED
  BY <1>1, Invariance, PTL

=============================================================================
