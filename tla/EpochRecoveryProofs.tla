------------------------ MODULE EpochRecoveryProofs ------------------------
(***************************************************************************)
(* That every device comes back from a restore of the server with what the   *)
(* server holds, and brings its bytes back: Reunited and                     *)
(* BytesClimbBackIfListed, for any devices, keys, page limit and bounds.      *)
(*                                                                         *)
(* Revs are given in order (ServerInv), so whatever is added to the log lies  *)
(* past what any device knows (UntouchedKeeps).  A device knows and holds     *)
(* what is behind its watermark, but for rows a recovery has still to push    *)
(* and changes that are queued (KnowInv).  A step of one device keeps the     *)
(* invariant of the others (StepKeeps), and its own by what the operators it  *)
(* is made of do to one key: SendableFacts, AckFacts, TakenFacts, Pushed.     *)
(***************************************************************************)
EXTENDS EpochRecovery, FiniteSetTheorems, WellFoundedInduction, TLAPS

(* A family of subsets of a finite set has one that contains no other.        *)
LEMMA SmallestSubset ==
  ASSUME NEW S, IsFiniteSet(S), NEW F, F \subseteq SUBSET S, F # {}
  PROVE  \E T \in F : \A U \in SUBSET T : U # T => U \notin F
<1>1. F \subseteq FiniteSubsetsOf(S)
  BY FS_FiniteSubsetsOfFinite
<1>2. PICK T \in F : \A U \in F : <<U, T>> \notin StrictSubsetOrdering(S)
  BY <1>1, FS_StrictSubsetOrderingWellFounded, WFMin
<1>3. ASSUME NEW U \in SUBSET T, U # T, U \in F PROVE FALSE
  <2>1. <<U, T>> \in (SUBSET S) \X (SUBSET S)
    OBVIOUS
  <2>2. <<U, T>> \in StrictSubsetOrdering(S)
    BY <1>3, <2>1 DEF StrictSubsetOrdering
  <2> QED
    BY <1>2, <1>3, <2>2
<1> QED
  BY <1>2, <1>3

(* Of a finite set of integers one element is the greatest: of the sets of what  *)
(* lies above an element, one contains no other.                              *)
LEMMA MaxIsThere ==
  ASSUME NEW S, S \subseteq Int, IsFiniteSet(S), S # {}
  PROVE  Max(S) \in S /\ \A y \in S : Max(S) >= y
<1> DEFINE Above(x) == {y \in S : y >= x}
           Cuts == {Above(x) : x \in S}
<1>1. PICK U \in Cuts : \A V \in SUBSET U : V # U => V \notin Cuts
  <2>1. Cuts \subseteq SUBSET S /\ Cuts # {}
    OBVIOUS
  <2> HIDE DEF Cuts
  <2> QED
    BY <2>1, SmallestSubset
<1>2. PICK x \in S : U = Above(x)
  BY <1>1
<1>3. ASSUME NEW z \in S PROVE x >= z
  <2>1. x \in Int /\ z \in Int
    OBVIOUS
  <2>2. SUFFICES ASSUME z > x PROVE FALSE
    BY <2>1
  <2>3. x \in U /\ x \notin Above(z) /\ Above(z) \in Cuts
    BY <1>2, <2>1, <2>2
  <2>4. Above(z) \subseteq U
    <3>1. \A y \in S : y >= z => y >= x
      BY <2>1, <2>2
    <3> QED
      BY <1>2, <3>1
  <2> HIDE DEF Above, Cuts
  <2> QED
    BY <1>1, <2>3, <2>4
<1> QED
  BY <1>3 DEF Max

-----------------------------------------------------------------------------
(* The values of a function on a finite set are finitely many.                 *)
LEMMA ImageFinite ==
  ASSUME NEW S, IsFiniteSet(S), NEW f
  PROVE  IsFiniteSet({f[x] : x \in S})
<1> DEFINE T == {f[x] : x \in S}
           g == [x \in S |-> f[x]]
<1>1. g \in Surjection(S, T)
  <2>1. g \in [S -> T]
    OBVIOUS
  <2>2. \A t \in T : \E x \in S : g[x] = t
    OBVIOUS
  <2> QED BY <2>1, <2>2 DEF Surjection
<1> QED BY <1>1, FS_Surjection

(* Of the watermark and the revs of a page, or of the seqs in use, the greatest  *)
(* is one of them.                                                            *)
LEMMA MaxOfMore ==
  ASSUME NEW n \in Nat, NEW S \in SUBSET Nat, IsFiniteSet(S)
  PROVE  /\ Max({n} \cup S) \in {n} \cup S /\ Max({n} \cup S) \in Nat
         /\ Max({n} \cup S) >= n /\ \A m \in S : Max({n} \cup S) >= m
<1>1. {n} \cup S \subseteq Int /\ IsFiniteSet({n} \cup S) /\ {n} \cup S # {}
  <2>1. IsFiniteSet({n})
    BY FS_Singleton
  <2>2. IsFiniteSet({n} \cup S)
    BY <2>1, FS_Union
  <2> QED BY <2>2
<1>2. Max({n} \cup S) \in {n} \cup S /\ \A m \in {n} \cup S : Max({n} \cup S) >= m
  BY <1>1, MaxIsThere
<1> QED BY <1>2

(* Every image of the keys is finite.                                         *)
LEMMA KeysFinite ==
  ASSUME NEW S \in SUBSET Keys
  PROVE  IsFiniteSet(S) /\ Cardinality(S) \in Nat
BY RecoveryAssumption, FS_Subset, FS_CardinalityType

(* The answers a run waits for, each about a finite number of queued changes.    *)
Answers(a) ==
  /\ DOMAIN a \subseteq Keys /\ a \in [DOMAIN a -> Answered]
  /\ \A k \in DOMAIN a : IsFiniteSet(a[k].seqs)

(* A fresh seq is past every seq of its key, queued or on the wire.             *)
LEMMA FreshIsNew ==
  ASSUME NEW s \in Database, IsFiniteSet(s.outbox), NEW r, Answers(r.answers), NEW k \in Keys
  PROVE  /\ FreshSeq(s, r, k) \in Nat /\ FreshSeq(s, r, k) # 0
         /\ \A e \in Pending(s, k) : e.seq < FreshSeq(s, r, k)
         /\ k \in DOMAIN r.answers => \A n \in r.answers[k].seqs : n < FreshSeq(s, r, k)
<1> DEFINE queued == {e.seq : e \in Pending(s, k)}
           sent == IF k \in DOMAIN r.answers THEN r.answers[k].seqs ELSE {}
<1>1. IsFiniteSet(queued) /\ queued \subseteq Nat
  <2>1. Pending(s, k) \subseteq Entry /\ IsFiniteSet(Pending(s, k))
    BY FS_Subset DEF Pending, Database
  <2>2. \A e \in Pending(s, k) : e.seq \in Nat
    BY <2>1 DEF Entry
  <2> DEFINE f == [e \in Pending(s, k) |-> e.seq]
  <2>3. queued = {f[e] : e \in Pending(s, k)}
    OBVIOUS
  <2> HIDE DEF f
  <2>4. IsFiniteSet({f[e] : e \in Pending(s, k)})
    BY <2>1, ImageFinite
  <2> QED BY <2>2, <2>3, <2>4
<1>2. IsFiniteSet(sent) /\ sent \subseteq Nat
  BY FS_EmptySet DEF Answers, Answered
<1>3. IsFiniteSet(queued \cup sent) /\ queued \cup sent \in SUBSET Nat
  BY <1>1, <1>2, FS_Union
<1>4. FreshSeq(s, r, k) = 1 + Max({0} \cup (queued \cup sent))
  <2>1. {0} \cup (queued \cup sent) = {0} \cup queued \cup sent
    OBVIOUS
  <2> QED BY <2>1 DEF FreshSeq
<1> HIDE DEF queued, sent
<1>5. PICK m : m = Max({0} \cup (queued \cup sent))
  OBVIOUS
<1>6. m \in Nat /\ \A n \in queued \cup sent : n \in Nat /\ m >= n
  BY <1>3, <1>5, MaxOfMore
<1>7. FreshSeq(s, r, k) = 1 + m
  BY <1>4, <1>5
<1> QED BY <1>6, <1>7 DEF queued, sent

(* Queueing adds one entry to each of its keys, and takes none away.             *)
LEMMA QueuedFacts ==
  ASSUME NEW s \in Database, IsFiniteSet(s.outbox), NEW r, Answers(r.answers),
         NEW keys \in SUBSET Keys, NEW op \in {"upsert", "delete"}
  PROVE  /\ Queued(s, r, keys, op) \in SUBSET Entry /\ IsFiniteSet(Queued(s, r, keys, op))
         /\ s.outbox \subseteq Queued(s, r, keys, op)
         /\ \A e \in Queued(s, r, keys, op) :
              \/ e \in s.outbox
              \/ e.key \in keys /\ e.op = op /\ e.seq = FreshSeq(s, r, e.key)
         /\ \A k \in keys : \E e \in Queued(s, r, keys, op) : e.key = k /\ e.op = op
<1> DEFINE new(k) == [seq |-> FreshSeq(s, r, k), key |-> k, op |-> op]
<1>1. \A k \in keys : FreshSeq(s, r, k) \in Nat
  BY FreshIsNew
<1>2. {new(k) : k \in keys} \subseteq Entry
  BY <1>1 DEF Entry
<1>3. IsFiniteSet({new(k) : k \in keys})
  <2> DEFINE f == [k \in keys |-> new(k)]
  <2>1. {new(k) : k \in keys} = {f[k] : k \in keys}
    OBVIOUS
  <2> HIDE DEF f
  <2>2. IsFiniteSet({f[k] : k \in keys})
    BY KeysFinite, ImageFinite
  <2> QED BY <2>1, <2>2
<1>4. Queued(s, r, keys, op) = s.outbox \cup {new(k) : k \in keys}
  BY DEF Queued
<1>5. IsFiniteSet(s.outbox \cup {new(k) : k \in keys}) /\ s.outbox \subseteq Entry
  BY <1>3, FS_Union DEF Database
<1>6. \A k \in keys : new(k) \in Queued(s, r, keys, op) /\ new(k).key = k /\ new(k).op = op
                      /\ new(k).seq = FreshSeq(s, r, k)
  BY <1>4
<1> HIDE DEF new
<1> QED BY <1>2, <1>4, <1>5, <1>6

(* Where only upserts are queued, the last of them is one.                      *)
LEMMA UpsertsAre ==
  ASSUME NEW s \in Database, IsFiniteSet(s.outbox), NEW k \in Keys, Pending(s, k) # {},
         ~PendingDelete(s, k)
  PROVE  LastOp(Pending(s, k)) = "upsert"
<1> DEFINE P == Pending(s, k)
           seqs == {e.seq : e \in P}
<1>1. P \subseteq Entry /\ IsFiniteSet(P) /\ \A e \in P : e.seq \in Nat /\ e.op = "upsert"
  BY FS_Subset DEF Pending, Database, PendingDelete, Entry
<1>2. seqs \subseteq Int /\ IsFiniteSet(seqs) /\ seqs # {}
  <2> DEFINE f == [e \in P |-> e.seq]
  <2>1. seqs = {f[e] : e \in P}
    OBVIOUS
  <2>2. seqs \subseteq Int /\ seqs # {}
    BY <1>1
  <2> HIDE DEF f, P, seqs
  <2>3. IsFiniteSet(seqs)
    BY <1>1, <2>1, ImageFinite
  <2> QED BY <2>2, <2>3
<1>3. PICK e \in P : e.seq = Max(seqs)
  <2>1. Max(seqs) \in seqs
    BY <1>2, MaxIsThere
  <2> QED BY <2>1
<1>4. \A f \in P : f.seq <= e.seq
  BY <1>1, <1>2, <1>3, MaxIsThere
<1> HIDE DEF P, seqs
<1> QED BY <1>1, <1>4 DEF LastOp, P

(* What a push sends, holds back and drops: nothing is dropped that is there to   *)
(* send, and no deletion that has a base.                                      *)
LEMMA SendableFacts ==
  ASSUME NEW s \in Database, IsFiniteSet(s.outbox), NEW k \in Keys, Tidy(s, k)
  PROVE  /\ k \in Sendable(s) => Pending(s, k) # {}
         /\ k \in Sendable(s) => (Upserts(s, k) <=> s.row[k] # Nothing)
         /\ k \in Sendable(s) /\ Upserts(s, k) => \A e \in Pending(s, k) : e.op = "upsert"
         /\ Pending(s, k) # {} /\ k \notin Sendable(s) \cup s.puts =>
              s.row[k] = Nothing /\ (k \notin s.dead => s.meta[k] = 0)
<1>1. s.row[k] # Nothing /\ Pending(s, k) # {} => Upserts(s, k)
  BY UpsertsAre DEF Upserts, Tidy
<1>2. \A e \in Pending(s, k) : e.op \in {"upsert", "delete"}
  BY DEF Pending, Database, Entry
<1>3. s.row[k] = Nothing => ~Upserts(s, k)
  BY DEF Upserts
<1>4. PendingDelete(s, k) => Pending(s, k) # {}
  BY DEF PendingDelete
<1>5. s.meta[k] \in Nat
  BY DEF Database
<1> QED BY <1>1, <1>2, <1>3, <1>4, <1>5 DEF Sendable, Deletes, Upserts, Tidy, PendingDelete

(* What queueing does to the changes pending for a key.                       *)
LEMMA PendingQueued ==
  ASSUME NEW s \in Database, IsFiniteSet(s.outbox), NEW r, Answers(r.answers),
         NEW keys \in SUBSET Keys, NEW op \in {"upsert", "delete"}, NEW t,
         t.outbox = Queued(s, r, keys, op), NEW k \in Keys
  PROVE  /\ Pending(s, k) \subseteq Pending(t, k)
         /\ k \notin keys => Pending(t, k) = Pending(s, k)
         /\ k \in keys => \E e \in Pending(t, k) :
              e.op = op /\ (k \in DOMAIN r.answers => e.seq \notin r.answers[k].seqs)
         /\ \A e \in Pending(t, k) : e \in Pending(s, k) \/
              (k \in keys /\ e.op = op /\ (k \in DOMAIN r.answers => e.seq \notin r.answers[k].seqs))
         /\ Awaited(s, r.answers, k) => Awaited(t, r.answers, k)
<1>1. /\ s.outbox \subseteq t.outbox
      /\ \A e \in t.outbox : \/ e \in s.outbox
                             \/ e.key \in keys /\ e.op = op /\ e.seq = FreshSeq(s, r, e.key)
      /\ k \in keys => \E e \in t.outbox : e.key = k /\ e.op = op
  BY QueuedFacts
<1>2. /\ \A e \in Pending(s, k) : e.seq < FreshSeq(s, r, k) /\ e.seq \in Nat
      /\ FreshSeq(s, r, k) \in Nat
      /\ k \in DOMAIN r.answers => \A n \in r.answers[k].seqs : n < FreshSeq(s, r, k)
  BY FreshIsNew DEF Pending, Database, Entry
<1>3. k \in DOMAIN r.answers => FreshSeq(s, r, k) \notin r.answers[k].seqs
  BY <1>2
<1>4. Pending(s, k) \subseteq Pending(t, k)
  BY <1>1 DEF Pending
<1>5. \A e \in Pending(t, k) : e \in Pending(s, k) \/
        (k \in keys /\ e.op = op /\ e.seq = FreshSeq(s, r, k))
  BY <1>1 DEF Pending
<1>6. k \in keys => \E e \in Pending(t, k) : e.op = op /\ e.seq = FreshSeq(s, r, k)
  <2>1. SUFFICES ASSUME k \in keys
                 PROVE  \E e \in Pending(t, k) : e.op = op /\ e.seq = FreshSeq(s, r, k)
    OBVIOUS
  <2>2. [seq |-> FreshSeq(s, r, k), key |-> k, op |-> op] \in t.outbox
    BY <2>1 DEF Queued
  <2> QED BY <2>2 DEF Pending
<1>7. Awaited(s, r.answers, k) => Awaited(t, r.answers, k)
  BY <1>3, <1>4, <1>5 DEF Awaited
<1> QED BY <1>3, <1>4, <1>5, <1>6, <1>7

(* Rows that are there are queued: the queue stays tidy.                        *)
LEMMA TidyQueued ==
  ASSUME NEW s \in Database, IsFiniteSet(s.outbox), NEW r, Answers(r.answers),
         NEW keys \in SUBSET Keys, NEW t,
         t.outbox = Queued(s, r, keys, "upsert"), NEW k \in Keys, Tidy(s, k),
         t.row[k] = s.row[k] \/ (t.row[k] # Nothing /\ ~PendingDelete(s, k)),
         t.dead = s.dead, t.row[k] = Nothing => k \notin t.bytes,
         k \in keys => t.row[k] # Nothing
  PROVE  Tidy(t, k)
<1>1. /\ k \notin keys => Pending(t, k) = Pending(s, k)
      /\ \A e \in Pending(t, k) : e \in Pending(s, k) \/ e.op = "upsert"
  BY PendingQueued
<1> QED BY <1>1 DEF Tidy, PendingDelete

(* A deletion is queued and its row goes.                                      *)
LEMMA TidyDeleted ==
  ASSUME NEW s \in Database, IsFiniteSet(s.outbox), NEW r, Answers(r.answers),
         NEW j \in Keys, NEW t, t.outbox = Queued(s, r, {j}, "delete"),
         NEW k \in Keys, Tidy(s, k),
         t.row[k] = IF k = j THEN Nothing ELSE s.row[k],
         t.dead = s.dead, t.bytes = s.bytes \ {j}
  PROVE  Tidy(t, k)
<1>1. /\ k # j => Pending(t, k) = Pending(s, k)
      /\ k = j => \E e \in Pending(t, k) : e.op = "delete"
  BY PendingQueued
<1> QED BY <1>1 DEF Tidy, PendingDelete

-----------------------------------------------------------------------------
(* The records of s that are sent, with the answers the server gives them when    *)
(* o is the order of those that change it.                                    *)
Sent(s, o) ==
  [k \in Sendable(s) |->
     [op |-> IF Upserts(s, k) THEN "upsert" ELSE "delete",
      seqs |-> {e.seq : e \in Pending(s, k)},
      rev |-> IF k \in Changing(s) THEN server.head + o[k] ELSE server.rev[k],
      status |-> Status(s, k)]]

(* What is left of a database when its records are sent.                       *)
LEMMA TidySent ==
  ASSUME NEW s \in Database, IsFiniteSet(s.outbox), NEW t,
         t = [s EXCEPT !.outbox = KeptEntries(s)], NEW k \in Keys, Tidy(s, k), NEW o
  PROVE  /\ t \in Database /\ IsFiniteSet(t.outbox)
         /\ Pending(t, k) = IF k \in Sendable(s) \cup s.puts THEN Pending(s, k) ELSE {}
         /\ Tidy(t, k) /\ Awaited(t, Sent(s, o), k)
<1>1. KeptEntries(s) \subseteq s.outbox /\ s.outbox \subseteq Entry
  BY DEF KeptEntries, Database
<1>2. t \in Database /\ t.outbox = KeptEntries(s)
      /\ t.row = s.row /\ t.dead = s.dead /\ t.bytes = s.bytes
  BY <1>1 DEF Database
<1>3. IsFiniteSet(t.outbox)
  BY <1>1, <1>2, FS_Subset
<1>4. Pending(t, k) = IF k \in Sendable(s) \cup s.puts THEN Pending(s, k) ELSE {}
  BY <1>2 DEF Pending, KeptEntries
<1>5. Tidy(t, k)
  BY <1>2, <1>4, SendableFacts DEF Tidy, PendingDelete
<1>6. Awaited(t, Sent(s, o), k)
  <2>1. SUFFICES ASSUME k \in Sendable(s) PROVE Awaited(t, Sent(s, o), k)
    BY DEF Awaited, Sent
  <2>2. Sent(s, o)[k].seqs = {e.seq : e \in Pending(s, k)}
        /\ Sent(s, o)[k].op = (IF Upserts(s, k) THEN "upsert" ELSE "delete")
    BY <2>1 DEF Sent
  <2>3. IsFiniteSet({e.seq : e \in Pending(s, k)})
    <3> DEFINE f == [e \in Pending(s, k) |-> e.seq]
    <3>1. {e.seq : e \in Pending(s, k)} = {f[e] : e \in Pending(s, k)}
      OBVIOUS
    <3>2. IsFiniteSet(Pending(s, k))
      BY FS_Subset DEF Pending
    <3> HIDE DEF f
    <3>3. IsFiniteSet({f[e] : e \in Pending(s, k)})
      BY <3>2, ImageFinite
    <3> QED BY <3>1, <3>3
  <2>4. Pending(s, k) # {} /\ (Upserts(s, k) => \A e \in Pending(s, k) : e.op = "upsert")
    BY <2>1, SendableFacts
  <2>5. Pending(t, k) = Pending(s, k)
    BY <1>4, <2>1
  <2> QED BY <2>2, <2>3, <2>4, <2>5 DEF Awaited
<1> QED BY <1>2, <1>3, <1>4, <1>5, <1>6

(* The keys an answer buries, and those it confirms.                          *)
Ended(a) == {k \in DOMAIN a : a[k].status = "tombstoned" \/
                              (a[k].status = "ok" /\ a[k].op = "delete")}
(* The keys whose upserts were taken.                                        *)
Kept(a) == {k \in DOMAIN a : a[k].status = "ok" /\ a[k].op = "upsert"}

(* What taking in the answers does to one key.                                *)
LEMMA AckFacts ==
  ASSUME NEW s \in Database, IsFiniteSet(s.outbox), NEW a, Answers(a),
         NEW t, t = Acknowledged(s, a)
  PROVE  /\ t \in Database /\ IsFiniteSet(t.outbox)
         /\ t.watermark = s.watermark /\ t.epoch = s.epoch /\ t.asked = s.asked
         /\ t.oversize = s.oversize
         /\ t.bytes = s.bytes \ Ended(a) /\ t.puts = s.puts \ Ended(a)
         /\ t.dead = s.dead \cup Ended(a)
         /\ \A k \in Keys :
              /\ t.row[k] = IF k \in Ended(a) THEN Nothing ELSE s.row[k]
              /\ t.meta[k] = IF k \in Ended(a) THEN 0
                             ELSE IF k \in Kept(a) /\ a[k].rev > s.meta[k] THEN a[k].rev
                             ELSE s.meta[k]
              /\ Pending(t, k) \subseteq Pending(s, k)
              /\ k \notin Ended(a) \cup Kept(a) => Pending(t, k) = Pending(s, k)
              /\ k \in Kept(a) => \A e \in Pending(s, k) : e \in Pending(t, k) <=> e.seq \notin a[k].seqs
<1> DEFINE outbox == {e \in s.outbox : ~(e.key \in Ended(a) \cup Kept(a) /\ e.seq \in a[e.key].seqs)}
           meta == [k \in Keys |-> IF k \in Ended(a) THEN 0
                                   ELSE IF k \in Kept(a) /\ a[k].rev > s.meta[k] THEN a[k].rev
                                   ELSE s.meta[k]]
           row == [k \in Keys |-> IF k \in Ended(a) THEN Nothing ELSE s.row[k]]
<1>1. t = [s EXCEPT !.meta = meta, !.row = row, !.bytes = s.bytes \ Ended(a),
                    !.puts = s.puts \ Ended(a), !.dead = s.dead \cup Ended(a),
                    !.outbox = outbox]
  BY DEF Acknowledged, Ended, Kept
<1>2. outbox \subseteq s.outbox /\ IsFiniteSet(outbox)
  BY FS_Subset
<1>3. \A k \in DOMAIN a : k \in Keys /\ a[k].rev \in Nat
  BY DEF Answers, Answered
<1>4. Ended(a) \subseteq Keys /\ Kept(a) \subseteq Keys /\ Kept(a) \subseteq DOMAIN a
      /\ Ended(a) \cap Kept(a) = {}
  BY <1>3 DEF Ended, Kept
<1>5. meta \in [Keys -> Nat] /\ row \in [Keys -> Contents \cup {Nothing}]
  BY <1>3, <1>4 DEF Database
<1>6. \A k \in Keys : {e \in outbox : e.key = k} \subseteq {e \in s.outbox : e.key = k}
  BY <1>2
<1>7. \A k \in Keys :
        /\ k \notin Ended(a) \cup Kept(a) =>
             {e \in outbox : e.key = k} = {e \in s.outbox : e.key = k}
        /\ k \in Kept(a) => \A e \in s.outbox : e.key = k =>
             (e \in outbox <=> e.seq \notin a[k].seqs)
  OBVIOUS
<1>8. /\ \A k \in Keys : meta[k] = IF k \in Ended(a) THEN 0
                         ELSE IF k \in Kept(a) /\ a[k].rev > s.meta[k] THEN a[k].rev
                         ELSE s.meta[k]
      /\ \A k \in Keys : row[k] = IF k \in Ended(a) THEN Nothing ELSE s.row[k]
  OBVIOUS
<1> HIDE DEF outbox, meta, row
<1>9. /\ t \in Database /\ t.outbox = outbox /\ t.meta = meta /\ t.row = row
      /\ t.watermark = s.watermark /\ t.epoch = s.epoch /\ t.asked = s.asked
      /\ t.oversize = s.oversize
      /\ t.bytes = s.bytes \ Ended(a) /\ t.puts = s.puts \ Ended(a)
      /\ t.dead = s.dead \cup Ended(a)
  <2> DEFINE bytes == s.bytes \ Ended(a)
             puts == s.puts \ Ended(a)
             dead == s.dead \cup Ended(a)
  <2>1. /\ outbox \in SUBSET Entry /\ bytes \in SUBSET BlobKeys /\ puts \in SUBSET BlobKeys
        /\ dead \in SUBSET Keys
    BY <1>2, <1>4 DEF Database
  <2>2. t = [s EXCEPT !.meta = meta, !.row = row, !.bytes = bytes, !.puts = puts,
                      !.dead = dead, !.outbox = outbox]
    BY <1>1
  <2> HIDE DEF bytes, puts, dead
  <2>3. /\ t \in Database /\ t.outbox = outbox /\ t.meta = meta /\ t.row = row
        /\ t.watermark = s.watermark /\ t.epoch = s.epoch /\ t.asked = s.asked
        /\ t.oversize = s.oversize /\ t.bytes = bytes /\ t.puts = puts /\ t.dead = dead
    BY <1>5, <2>1, <2>2 DEF Database
  <2> QED BY <2>3 DEF bytes, puts, dead
<1>10. \A k \in Keys :
         /\ Pending(t, k) = {e \in outbox : e.key = k}
         /\ Pending(s, k) = {e \in s.outbox : e.key = k}
  BY <1>9 DEF Pending
<1>11. \A k \in Keys :
         /\ Pending(t, k) \subseteq Pending(s, k)
         /\ k \notin Ended(a) \cup Kept(a) => Pending(t, k) = Pending(s, k)
  BY ZenonT(60), <1>6, <1>7, <1>10
<1>12. \A k \in Keys : k \in Kept(a) =>
         \A e \in Pending(s, k) : e \in Pending(t, k) <=> e.seq \notin a[k].seqs
  BY <1>7, <1>10
<1>13. \A k \in Keys :
         /\ t.row[k] = IF k \in Ended(a) THEN Nothing ELSE s.row[k]
         /\ t.meta[k] = IF k \in Ended(a) THEN 0
                        ELSE IF k \in Kept(a) /\ a[k].rev > s.meta[k] THEN a[k].rev
                        ELSE s.meta[k]
  BY <1>8, <1>9
<1> QED BY <1>2, <1>9, <1>11, <1>12, <1>13

(* Answers leave the queue tidy, and what is known and held as it was.          *)
LEMMA TidyAcknowledged ==
  ASSUME NEW s \in Database, IsFiniteSet(s.outbox), NEW a, Answers(a),
         NEW t, t = Acknowledged(s, a), NEW k \in Keys, Tidy(s, k), Awaited(s, a, k)
  PROVE  Tidy(t, k)
<1>1. /\ t.row[k] = IF k \in Ended(a) THEN Nothing ELSE s.row[k]
      /\ t.bytes = s.bytes \ Ended(a) /\ t.dead = s.dead \cup Ended(a)
      /\ Pending(t, k) \subseteq Pending(s, k)
      /\ k \notin Ended(a) \cup Kept(a) => Pending(t, k) = Pending(s, k)
      /\ k \in Kept(a) => \A e \in Pending(s, k) : e \in Pending(t, k) <=> e.seq \notin a[k].seqs
  BY AckFacts
<1>2. t.row[k] # Nothing => ~PendingDelete(t, k)
  BY <1>1 DEF Tidy, PendingDelete
<1>3. t.row[k] = Nothing => k \notin t.bytes
  BY <1>1 DEF Tidy
<1>4. ASSUME t.row[k] = Nothing, k \notin t.dead, Pending(t, k) # {} PROVE PendingDelete(t, k)
  <2>1. k \notin Ended(a) /\ s.row[k] = Nothing /\ k \notin s.dead /\ Pending(s, k) # {}
    BY <1>1, <1>4
  <2>2. PICK e \in Pending(s, k) : e.op = "delete"
    BY <2>1 DEF Tidy, PendingDelete
  <2>3. e \in Pending(t, k)
    BY <1>1, <2>1, <2>2 DEF Awaited, Kept
  <2> QED BY <2>2, <2>3 DEF PendingDelete
<1> QED BY <1>2, <1>3, <1>4 DEF Tidy

(* The same of what the device knows and holds of the account, once what it was  *)
(* told is true.                                                            *)
LEMMA HeldAcknowledged ==
  ASSUME NEW s \in Database, IsFiniteSet(s.outbox), NEW a, Answers(a),
         NEW t, t = Acknowledged(s, a), NEW k \in Keys,
         server \in Server, Awaited(s, a, k), Knows(s, k), Accepted(s, a, k)
  PROVE  /\ Knows(t, k)
         /\ Holds(s, k) \/ k \in Kept(a) => Holds(t, k)
<1>1. /\ t.row[k] = IF k \in Ended(a) THEN Nothing ELSE s.row[k]
      /\ t.meta[k] = IF k \in Ended(a) THEN 0
                     ELSE IF k \in Kept(a) /\ a[k].rev > s.meta[k] THEN a[k].rev
                     ELSE s.meta[k]
      /\ t.dead = s.dead \cup Ended(a) /\ t.watermark = s.watermark
      /\ k \notin Ended(a) \cup Kept(a) => Pending(t, k) = Pending(s, k)
      /\ k \in Kept(a) => \A e \in Pending(s, k) : e \in Pending(t, k) <=> e.seq \notin a[k].seqs
  BY AckFacts
<1>2. server.rev[k] \in Nat /\ s.meta[k] \in Nat /\ s.watermark \in Nat
      /\ (k \in DOMAIN a => a[k].rev \in Nat)
  BY DEF Server, Database, Answers, Answered
<1>3. CASE k \in Ended(a)
  BY <1>1, <1>2, <1>3 DEF Knows, Holds, Ended, Kept
<1>4. CASE k \in Kept(a)
  <2>1. /\ t.meta[k] = a[k].rev /\ a[k].rev \in Nat /\ a[k].rev <= server.rev[k] /\ a[k].rev > s.watermark
        /\ server.rev[k] = a[k].rev =>
             /\ server.content[k] # Nothing
             /\ (\A e \in Pending(s, k) : e.seq \in a[k].seqs) => s.row[k] = server.content[k]
        /\ t.row[k] = s.row[k]
    BY <1>1, <1>2, <1>4 DEF Accepted, Ended, Kept
  <2>2. Pending(t, k) = {} => \A e \in Pending(s, k) : e.seq \in a[k].seqs
    BY <1>1, <1>4
  <2>3. Knows(t, k)
    BY <1>1, <1>2, <2>1 DEF Knows
  <2>4. Holds(t, k)
    BY <1>1, <1>2, <2>1, <2>2 DEF Holds
  <2> QED BY <2>3, <2>4
<1>5. CASE k \notin Ended(a) \cup Kept(a)
  BY <1>1, <1>5 DEF Knows, Holds
<1> QED BY <1>3, <1>4, <1>5

(* The watermark a page leads to.                                             *)
Mark(s) == Max({s.watermark} \cup {server.rev[k] : k \in Page(s)})

(* A page takes the lowest revs there are: nothing behind the new watermark is    *)
(* left out.                                                                *)
LEMMA PageFacts ==
  ASSUME server \in Server, NEW s \in Database
  PROVE  /\ Page(s) \subseteq Keys /\ \A k \in Page(s) : server.rev[k] > s.watermark
         /\ Mark(s) \in Nat /\ Mark(s) >= s.watermark
         /\ \A k \in Page(s) : Mark(s) >= server.rev[k]
         /\ \A k \in Keys : server.rev[k] <= Mark(s) => server.rev[k] <= s.watermark \/ k \in Page(s)
         /\ ServerInv /\ s.watermark <= server.head => Mark(s) <= server.head
<1> DEFINE news == {k \in Keys : server.rev[k] > s.watermark}
           upTo(k) == {j \in news : server.rev[j] <= server.rev[k]}
           revs == {server.rev[k] : k \in Page(s)}
<1>1. s.watermark \in Nat /\ server.head \in Nat /\ \A k \in Keys : server.rev[k] \in Nat
  BY DEF Server, Database
<1>2. Page(s) = {k \in news : Cardinality(upTo(k)) <= PageLimit}
  BY DEF Page
<1>3. Page(s) \subseteq news
  BY <1>2
<1>4. ASSUME NEW j \in Page(s), NEW k \in news, server.rev[k] <= server.rev[j]
      PROVE  k \in Page(s)
  <2>1. upTo(k) \subseteq upTo(j)
    BY <1>1, <1>3, <1>4
  <2>2. upTo(k) \in SUBSET Keys /\ upTo(j) \in SUBSET Keys
    OBVIOUS
  <2>3. Cardinality(upTo(j)) <= PageLimit
    BY <1>2
  <2> HIDE DEF upTo
  <2>4. Cardinality(upTo(k)) <= Cardinality(upTo(j)) /\ Cardinality(upTo(k)) \in Nat
        /\ Cardinality(upTo(j)) \in Nat
    BY <2>1, <2>2, KeysFinite, FS_Subset
  <2>5. Cardinality(upTo(k)) <= PageLimit
    BY <2>3, <2>4, RecoveryAssumption
  <2> QED BY <1>2, <2>5
<1>5. revs \in SUBSET Nat
  BY <1>1, <1>3
<1>6. IsFiniteSet(revs)
  <2> DEFINE f == server.rev
  <2>1. revs = {f[k] : k \in Page(s)}
    OBVIOUS
  <2>2. IsFiniteSet(Page(s))
    BY <1>3, KeysFinite
  <2> HIDE DEF f, revs
  <2>3. IsFiniteSet({f[k] : k \in Page(s)})
    BY <2>2, ImageFinite
  <2> QED BY <2>1, <2>3
<1>7. \A k \in Page(s) : server.rev[k] \in revs
  OBVIOUS
<1>8. \A m \in revs : \E k \in Page(s) : server.rev[k] = m
  OBVIOUS
<1>9. Mark(s) = Max({s.watermark} \cup revs)
  BY DEF Mark
<1> HIDE DEF revs
<1>10. PICK m : m = Max({s.watermark} \cup revs)
  OBVIOUS
<1>11. m \in Nat /\ m >= s.watermark /\ (m = s.watermark \/ m \in revs) /\ \A n \in revs : m >= n
  BY <1>1, <1>5, <1>6, <1>10, MaxOfMore
<1>12. \A k \in Keys : server.rev[k] <= m => server.rev[k] <= s.watermark \/ k \in Page(s)
  <2>1. SUFFICES ASSUME NEW k \in Keys, server.rev[k] <= m, ~(server.rev[k] <= s.watermark)
                 PROVE  k \in Page(s)
    OBVIOUS
  <2>2. k \in news
    BY <1>1, <2>1
  <2>3. m \in revs
    BY <1>11, <2>1
  <2>4. PICK j \in Page(s) : server.rev[j] = m
    BY <1>8, <2>3
  <2> QED BY <1>4, <2>1, <2>2, <2>4
<1>13. ServerInv /\ s.watermark <= server.head => m <= server.head
  <2>1. SUFFICES ASSUME ServerInv, s.watermark <= server.head PROVE m <= server.head
    OBVIOUS
  <2>2. CASE m \in revs
    <3>1. PICK j \in Page(s) : server.rev[j] = m
      BY <1>8, <2>2
    <3>2. j \in Keys
      BY <1>3
    <3> QED BY <2>1, <3>1, <3>2 DEF ServerInv
  <2> QED BY <1>11, <2>1, <2>2
<1>14. Mark(s) = m
  BY <1>9, <1>10
<1> QED BY <1>1, <1>3, <1>7, <1>11, <1>12, <1>13, <1>14

-----------------------------------------------------------------------------
(* What a page brings to a key: a rev past the one taken in, ...                *)
Arrived(s, k) == k \in Page(s) /\ server.rev[k] > s.meta[k]

(* ... which buries it, ...                                                  *)
Dying(s, k) ==
  /\ Arrived(s, k) /\ server.content[k] = Nothing
  /\ s.meta[k] > 0 \/ s.row[k] # Nothing

(* ... gives it the account's content, ...                                    *)
Replaced(s, k) ==
  /\ Arrived(s, k) /\ server.content[k] # Nothing
  /\ \/ s.row[k] = Nothing /\ k \notin s.dead /\ ~PendingDelete(s, k)
     \/ s.row[k] # Nothing /\ server.content[k] > s.row[k]

(* ... has it pushed again, ...                                               *)
Again(s, k) ==
  /\ Arrived(s, k) /\ server.content[k] # Nothing
  /\ s.row[k] # Nothing /\ server.content[k] < s.row[k]

(* ... or only moves its base.                                                *)
Based(s, k) ==
  /\ Arrived(s, k) /\ server.content[k] # Nothing
  /\ s.row[k] # Nothing \/ k \notin s.dead

(* What a page does to one key of a device.                                  *)
LEMMA TakenFacts ==
  ASSUME server \in Server, NEW s \in Database, IsFiniteSet(s.outbox),
         NEW r, Answers(r.answers), NEW t, t = TakenIn(s, r)
  PROVE  /\ t \in Database /\ IsFiniteSet(t.outbox)
         /\ t.watermark = Mark(s) /\ t.epoch = s.epoch /\ t.asked = s.asked
         /\ t.oversize = s.oversize
         /\ \A k \in Keys :
              /\ t.row[k] = IF Dying(s, k) THEN Nothing
                            ELSE IF Replaced(s, k) THEN server.content[k] ELSE s.row[k]
              /\ t.meta[k] = IF Dying(s, k) THEN 0
                             ELSE IF Based(s, k) THEN server.rev[k] ELSE s.meta[k]
              /\ k \in t.bytes <=> k \in s.bytes /\ ~Dying(s, k)
              /\ k \in t.puts <=> k \in s.puts /\ ~Dying(s, k)
              /\ k \in t.dead <=> k \in s.dead \/ Dying(s, k)
              /\ ~Dying(s, k) /\ ~Again(s, k) => Pending(t, k) = Pending(s, k)
              /\ Again(s, k) => Pending(t, k) # {}
              /\ \A e \in Pending(t, k) : e \in Pending(s, k) \/ e.op = "upsert"
<1> DEFINE page == Page(s)
           new == {k \in page : server.rev[k] > s.meta[k]}
           dying == {k \in new : server.content[k] = Nothing /\
                                 (s.meta[k] > 0 \/ s.row[k] # Nothing)}
           live == {k \in new : server.content[k] # Nothing}
           absent == {k \in live : s.row[k] = Nothing /\ k \notin s.dead}
           inserted == {k \in absent : ~PendingDelete(s, k)}
           taken == {k \in live : s.row[k] # Nothing /\ server.content[k] > s.row[k]}
           again == {k \in live : s.row[k] # Nothing /\ server.content[k] < s.row[k]}
           based == absent \cup {k \in live : s.row[k] # Nothing}
           row == [k \in Keys |-> IF k \in dying THEN Nothing
                                  ELSE IF k \in inserted \cup taken
                                  THEN server.content[k] ELSE s.row[k]]
           meta == [k \in Keys |-> IF k \in dying THEN 0
                                   ELSE IF k \in based THEN server.rev[k] ELSE s.meta[k]]
           outbox == {e \in Queued(s, r, again, "upsert") : e.key \notin dying}
           bytes == s.bytes \ dying
           puts == s.puts \ dying
           dead == s.dead \cup dying
           mark == Mark(s)
           q == [s EXCEPT !.outbox = Queued(s, r, again, "upsert")]
<1>1. t = [s EXCEPT !.row = row, !.meta = meta, !.bytes = bytes, !.puts = puts,
                    !.dead = dead, !.outbox = outbox, !.watermark = mark]
  BY DEF TakenIn, Mark
<1>2. page \subseteq Keys /\ mark \in Nat
  BY PageFacts
<1>3. \A k \in Keys : /\ server.rev[k] \in Nat
                      /\ server.content[k] \in Contents \cup {Nothing}
  BY DEF Server
<1>4. \A k \in Keys : /\ k \in dying <=> Dying(s, k)
                      /\ k \in inserted \cup taken <=> Replaced(s, k)
                      /\ k \in again <=> Again(s, k)
                      /\ k \in based <=> Based(s, k)
  BY DEF Dying, Replaced, Again, Based, Arrived
<1>5. dying \in SUBSET Keys /\ again \in SUBSET Keys
  BY <1>2
<1>6. \A k \in Keys : ~(Again(s, k) /\ Dying(s, k))
  BY DEF Again, Dying
<1> HIDE DEF dying, inserted, taken, again, based, page
<1>7. /\ Queued(s, r, again, "upsert") \in SUBSET Entry
      /\ IsFiniteSet(Queued(s, r, again, "upsert"))
  BY <1>5, QueuedFacts
<1>8. outbox \in SUBSET Entry /\ IsFiniteSet(outbox)
  <2>1. outbox \subseteq Queued(s, r, again, "upsert")
    OBVIOUS
  <2> QED BY <1>7, <2>1, FS_Subset
<1>9. row \in [Keys -> Contents \cup {Nothing}] /\ meta \in [Keys -> Nat]
  BY <1>3 DEF Database
<1>10. bytes \in SUBSET BlobKeys /\ puts \in SUBSET BlobKeys /\ dead \in SUBSET Keys
  BY <1>5 DEF Database
<1>11. q.outbox = Queued(s, r, again, "upsert")
  BY DEF Database
<1> HIDE DEF q
<1>12. ASSUME NEW k \in Keys
       PROVE  /\ k \notin again => Pending(q, k) = Pending(s, k)
              /\ k \in again => Pending(q, k) # {}
              /\ \A e \in Pending(q, k) : e \in Pending(s, k) \/ e.op = "upsert"
  <2>1. /\ k \notin again => Pending(q, k) = Pending(s, k)
        /\ k \in again => \E e \in Pending(q, k) : e.op = "upsert"
        /\ \A e \in Pending(q, k) : e \in Pending(s, k) \/ e.op = "upsert"
    BY <1>5, <1>11, PendingQueued
  <2> QED BY <2>1
<1>13. \A k \in Keys : /\ row[k] = IF k \in dying THEN Nothing
                                   ELSE IF k \in inserted \cup taken
                                   THEN server.content[k] ELSE s.row[k]
                       /\ meta[k] = IF k \in dying THEN 0
                                    ELSE IF k \in based THEN server.rev[k] ELSE s.meta[k]
  OBVIOUS
<1>14. \A k \in Keys : /\ k \in bytes <=> k \in s.bytes /\ k \notin dying
                       /\ k \in puts <=> k \in s.puts /\ k \notin dying
                       /\ k \in dead <=> k \in s.dead \/ k \in dying
  OBVIOUS
<1>15. outbox = {e \in q.outbox : e.key \notin dying}
  BY <1>11
<1> HIDE DEF row, meta, outbox, bytes, puts, dead, mark
<1>16. /\ t \in Database /\ t.row = row /\ t.meta = meta /\ t.bytes = bytes /\ t.puts = puts
       /\ t.dead = dead /\ t.outbox = outbox /\ t.watermark = mark
       /\ t.epoch = s.epoch /\ t.asked = s.asked /\ t.oversize = s.oversize
  BY <1>1, <1>2, <1>8, <1>9, <1>10 DEF Database
<1>17. \A k \in Keys : Pending(t, k) = IF k \in dying THEN {} ELSE Pending(q, k)
  BY <1>15, <1>16 DEF Pending
<1>18. \A k \in Keys :
         /\ ~Dying(s, k) /\ ~Again(s, k) => Pending(t, k) = Pending(s, k)
         /\ Again(s, k) => Pending(t, k) # {}
         /\ \A e \in Pending(t, k) : e \in Pending(s, k) \/ e.op = "upsert"
  BY <1>4, <1>6, <1>12, <1>17
<1>19. \A k \in Keys :
         /\ t.row[k] = IF Dying(s, k) THEN Nothing
                       ELSE IF Replaced(s, k) THEN server.content[k] ELSE s.row[k]
         /\ t.meta[k] = IF Dying(s, k) THEN 0
                        ELSE IF Based(s, k) THEN server.rev[k] ELSE s.meta[k]
  BY <1>4, <1>13, <1>16
<1>20. \A k \in Keys :
         /\ k \in t.bytes <=> k \in s.bytes /\ ~Dying(s, k)
         /\ k \in t.puts <=> k \in s.puts /\ ~Dying(s, k)
         /\ k \in t.dead <=> k \in s.dead \/ Dying(s, k)
  BY <1>4, <1>14, <1>16
<1>21. t.watermark = Mark(s)
  BY <1>16 DEF mark
<1> QED BY <1>8, <1>16, <1>18, <1>19, <1>20, <1>21

(* A page leaves the queue tidy.                                              *)
LEMMA TidyTaken ==
  ASSUME server \in Server, NEW s \in Database, IsFiniteSet(s.outbox),
         NEW r, Answers(r.answers), NEW t, t = TakenIn(s, r),
         NEW k \in Keys, Tidy(s, k)
  PROVE  Tidy(t, k)
<1>1. /\ t.row[k] = IF Dying(s, k) THEN Nothing
                    ELSE IF Replaced(s, k) THEN server.content[k] ELSE s.row[k]
      /\ k \in t.bytes <=> k \in s.bytes /\ ~Dying(s, k)
      /\ k \in t.dead <=> k \in s.dead \/ Dying(s, k)
      /\ ~Dying(s, k) /\ ~Again(s, k) => Pending(t, k) = Pending(s, k)
      /\ \A e \in Pending(t, k) : e \in Pending(s, k) \/ e.op = "upsert"
  BY TakenFacts
<1>2. t.row[k] # Nothing => ~PendingDelete(t, k)
  <2>1. t.row[k] # Nothing => ~PendingDelete(s, k)
    BY <1>1 DEF Replaced, Tidy
  <2> QED BY <1>1, <2>1 DEF PendingDelete
<1>3. t.row[k] = Nothing => k \notin t.bytes
  BY <1>1 DEF Tidy, Replaced
<1>4. t.row[k] = Nothing /\ k \notin t.dead /\ Pending(t, k) # {} => PendingDelete(t, k)
  BY <1>1 DEF Tidy, Replaced, PendingDelete, Again
<1> QED BY <1>2, <1>3, <1>4 DEF Tidy

(* ... and the account as well known and held as before, up to the new watermark. *)
LEMMA HeldTaken ==
  ASSUME server \in Server, ServerInv, NEW s \in Database, IsFiniteSet(s.outbox),
         NEW r, Answers(r.answers), NEW t, t = TakenIn(s, r),
         NEW k \in Keys, Tidy(s, k), Knows(s, k)
  PROVE  Knows(t, k) /\ (Holds(s, k) => Holds(t, k))
<1>1. /\ t.row[k] = IF Dying(s, k) THEN Nothing
                    ELSE IF Replaced(s, k) THEN server.content[k] ELSE s.row[k]
      /\ t.meta[k] = IF Dying(s, k) THEN 0
                     ELSE IF Based(s, k) THEN server.rev[k] ELSE s.meta[k]
      /\ k \in t.dead <=> k \in s.dead \/ Dying(s, k)
      /\ ~Dying(s, k) /\ ~Again(s, k) => Pending(t, k) = Pending(s, k)
      /\ Again(s, k) => Pending(t, k) # {}
      /\ t.watermark = Mark(s)
  BY TakenFacts
<1>2. /\ Mark(s) \in Nat
      /\ server.rev[k] <= Mark(s) => server.rev[k] <= s.watermark \/ k \in Page(s)
      /\ k \in Page(s) => server.rev[k] > s.watermark
  BY PageFacts
<1>3. /\ server.rev[k] \in Nat /\ s.meta[k] \in Nat /\ s.watermark \in Nat
      /\ server.content[k] \in Int /\ s.row[k] \in Int
  BY RecoveryAssumption DEF Server, Database, Contents, Nothing
<1>4. CASE Dying(s, k)
  BY <1>1, <1>3, <1>4 DEF Knows, Holds
<1>5. CASE Arrived(s, k) /\ ~Dying(s, k)
  <2>1. CASE server.content[k] = Nothing
    BY <1>1, <1>2, <1>3, <1>5, <2>1 DEF Knows, Holds, Dying, Arrived, Based, Again, Replaced
  <2>2. CASE server.content[k] # Nothing /\ s.row[k] = Nothing
    <3>1. Knows(t, k)
      BY <1>1, <1>2, <1>3, <1>5, <2>2 DEF Knows, Arrived, Based
    <3>2. Holds(t, k)
      BY <1>1, <1>2, <1>3, <1>5, <2>2 DEF Holds, Arrived, Based, Again, Replaced, PendingDelete
    <3> QED BY <3>1, <3>2
  <2>3. CASE server.content[k] # Nothing /\ s.row[k] # Nothing
    <3>1. Knows(t, k)
      BY <1>1, <1>2, <1>3, <1>5, <2>3 DEF Knows, Arrived, Based
    <3>2. Holds(t, k)
      BY <1>1, <1>2, <1>3, <1>5, <2>3 DEF Holds, Arrived, Based, Again, Replaced
    <3> QED BY <3>1, <3>2
  <2> QED BY <2>1, <2>2, <2>3
<1>6. CASE ~Arrived(s, k)
  <2>1. /\ t.row[k] = s.row[k] /\ t.meta[k] = s.meta[k] /\ (k \in t.dead <=> k \in s.dead)
        /\ Pending(t, k) = Pending(s, k)
    BY <1>1, <1>6 DEF Dying, Replaced, Again, Based
  <2>2. CASE k \in Page(s)
    <3>1. s.meta[k] = server.rev[k] /\ s.meta[k] > 0
      BY <1>2, <1>3, <1>6, <2>2 DEF Arrived, Knows
    <3> QED BY <1>1, <1>2, <1>3, <2>1, <3>1 DEF Knows, Holds
  <2>3. CASE k \notin Page(s)
    BY <1>1, <1>2, <1>3, <2>1, <2>3 DEF Knows, Holds
  <2> QED BY <2>2, <2>3
<1> QED BY <1>4, <1>5, <1>6

(* Of the rows with their bytes here, those whose bytes should be in the bucket.  *)
Due(s) == Candidates(s) \ s.puts

(* Answers and pages take bytes away, and bring none.                        *)
LEMMA DueAcknowledged ==
  ASSUME NEW s \in Database, IsFiniteSet(s.outbox), NEW a, Answers(a),
         NEW t, t = Acknowledged(s, a)
  PROVE  Due(t) \subseteq Due(s)
<1>1. /\ t \in Database /\ t.oversize = s.oversize
      /\ t.bytes = s.bytes \ Ended(a) /\ t.puts = s.puts \ Ended(a)
      /\ \A k \in Keys : t.row[k] = IF k \in Ended(a) THEN Nothing ELSE s.row[k]
  BY AckFacts
<1>2. s.bytes \subseteq Keys
  BY RecoveryAssumption DEF Database
<1> QED BY <1>1, <1>2 DEF Due, Candidates

(* Bytes that were not here, or were queued, do not come with a page.        *)
LEMMA DueTaken ==
  ASSUME server \in Server, NEW s \in Database, IsFiniteSet(s.outbox),
         NEW r, Answers(r.answers), NEW t, t = TakenIn(s, r),
         \A k \in Keys : Tidy(s, k)
  PROVE  Due(t) \subseteq Due(s)
<1>1. SUFFICES ASSUME NEW k \in Due(t) PROVE k \in Due(s)
  OBVIOUS
<1>2. t \in Database /\ t.oversize = s.oversize
  BY TakenFacts
<1>3. k \in Keys
  BY <1>2, RecoveryAssumption DEF Due, Candidates, Database
<1>4. /\ t.row[k] = IF Dying(s, k) THEN Nothing
                    ELSE IF Replaced(s, k) THEN server.content[k] ELSE s.row[k]
      /\ k \in t.bytes <=> k \in s.bytes /\ ~Dying(s, k)
      /\ k \in t.puts <=> k \in s.puts /\ ~Dying(s, k)
  BY <1>3, TakenFacts
<1>5. Tidy(s, k)
  BY <1>3
<1> QED BY <1>1, <1>2, <1>4, <1>5 DEF Due, Candidates, Tidy

-----------------------------------------------------------------------------
(* What the invariant says of one device.                                     *)
DeviceInv(d) == RunInv(d) /\ EpochInv(d) /\ QueueInv(d) /\ KnowInv(d) /\ BytesInv(d)

(* Its run has its type, ...                                                 *)
RunType(r) == DOMAIN r.answers \subseteq Keys /\ r \in Run(DOMAIN r.answers)

(* ... and so have the counters.                                             *)
Bounds == [mishaps : 0 .. MaxMishaps, restores : 0 .. MaxRestores, others : 0 .. MaxOthers]

(* The account's log only gets longer: a key keeps its record, or has one past     *)
(* all there were.                                                           *)
Grows ==
  /\ server'.head >= server.head /\ server.objects \subseteq server'.objects
  /\ server'.epoch = server.epoch /\ server'.stale = server.stale
  /\ \A k \in Keys : \/ server'.rev[k] = server.rev[k] /\ server'.content[k] = server.content[k]
                     \/ server'.rev[k] > server.head

(* A device that is left alone in a step that makes the log longer.              *)
Untouched(e) ==
  /\ db'[e] = db[e] /\ run'[e] = run[e] /\ session'[e] = session[e]
  /\ (e \in torn' <=> e \in torn) /\ (e \in skipped' <=> e \in skipped)

(* A step of d alone: what it leaves alone, and that it keeps the types.         *)
StepOf(d) ==
  /\ server' \in Server /\ ServerInv' /\ Grows
  /\ db' \in [Devices -> Database] /\ \A e \in Devices \ {d} : db'[e] = db[e]
  /\ DOMAIN run' = Devices /\ RunType(run'[d]) /\ \A e \in Devices \ {d} : run'[e] = run[e]
  /\ session' \in [Devices -> Session] /\ \A e \in Devices \ {d} : session'[e] = session[e]
  /\ skipped' \subseteq Devices /\ torn' \subseteq Devices
  /\ \A e \in Devices \ {d} : (e \in torn' <=> e \in torn) /\ (e \in skipped' <=> e \in skipped)
  /\ minted' \subseteq Contents /\ bound' \in Bounds

(* What others add to the log does not disturb a device: its watermark and bases*)
(* are behind all of it.                                                     *)
LEMMA UntouchedKeeps ==
  ASSUME server \in Server, ServerInv, server' \in Server, NEW e \in Devices,
         db[e] \in Database, RunType(run[e]), Grows, Untouched(e), DeviceInv(e)
  PROVE  DeviceInv(e)'
<1>1. /\ server.head \in Nat /\ server'.head \in Nat /\ db[e].watermark \in Nat
      /\ \A k \in Keys : /\ server.rev[k] \in Nat /\ server'.rev[k] \in Nat
                         /\ server.rev[k] <= server.head /\ db[e].meta[k] \in Nat
  BY DEF Server, ServerInv, Database
<1>2. RunInv(e)'
  BY DEF DeviceInv, RunInv, Untouched
<1>3. InEpoch(e)' <=> InEpoch(e)
  BY DEF InEpoch, Grows, Untouched
<1>4. Recovering(e)' <=> Recovering(e)
  BY DEF Recovering, Untouched
<1>5. EpochInv(e)'
  BY <1>3, <1>4 DEF DeviceInv, EpochInv, Grows, Untouched
<1>6. QueueInv(e)'
  BY DEF DeviceInv, QueueInv, Untouched
<1>7. KnowInv(e)'
  <2>1. SUFFICES ASSUME Aligned(e)' PROVE KnowInv(e)'
    BY DEF KnowInv
  <2>2. Aligned(e)
    BY <1>3, <1>4, <2>1 DEF Aligned, Untouched, Grows
  <2>3. db[e].watermark <= server.head
    BY <2>2 DEF DeviceInv, KnowInv
  <2>4. (db[e].watermark <= server.head)'
    BY <1>1, <2>3 DEF Grows, Untouched
  <2>5. ASSUME NEW k \in Keys
        PROVE  /\ Knows(db[e], k)'
               /\ (Holds(db[e], k) \/ (server.rev[k] = 0 /\ ToPush(e, k)))'
               /\ Accepted(db[e], run[e].answers, k)'
    <3>1. /\ Knows(db[e], k)
          /\ Holds(db[e], k) \/ (server.rev[k] = 0 /\ ToPush(e, k))
          /\ Accepted(db[e], run[e].answers, k)
      BY <2>2 DEF DeviceInv, KnowInv
    <3>2. CASE server'.rev[k] = server.rev[k] /\ server'.content[k] = server.content[k]
      BY <1>4, <3>1, <3>2 DEF Knows, Holds, ToPush, Accepted, Untouched
    <3>3. CASE server'.rev[k] > server.head
      <4>1. Knows(db[e], k)'
        BY <1>1, <2>3, <3>1, <3>3 DEF Knows, Untouched
      <4>2. Holds(db[e], k)'
        BY <1>1, <2>3, <3>1, <3>3 DEF Knows, Holds, Untouched
      <4>3. k \in DOMAIN run[e].answers => run[e].answers[k].rev \in Nat
        BY DEF RunType, Run, Answered
      <4>4. Accepted(db[e], run[e].answers, k)'
        BY <1>1, <3>1, <3>3, <4>3 DEF Accepted, Untouched
      <4> QED BY <4>1, <4>2, <4>4
    <3> QED BY <3>2, <3>3 DEF Grows
  <2> QED BY <2>4, <2>5 DEF KnowInv
<1>8. BytesInv(e)'
  BY <1>3 DEF DeviceInv, BytesInv, Stored, Candidates, Grows, Untouched
<1> QED BY <1>2, <1>5, <1>6, <1>7, <1>8 DEF DeviceInv

(* A step of one device that keeps its part of the invariant keeps all of it.     *)
LEMMA StepKeeps ==
  ASSUME IndInv, NEW d \in Devices, StepOf(d), DeviceInv(d)'
  PROVE  IndInv'
<1>1. server \in Server /\ ServerInv /\ db \in [Devices -> Database]
  BY DEF IndInv, TypeOK
<1>2. ASSUME NEW e \in Devices PROVE DeviceInv(e)'
  <2>1. CASE e = d
    BY <2>1
  <2>2. CASE e # d
    <3>1. Untouched(e)
      BY <2>2 DEF StepOf, Untouched
    <3>2. DeviceInv(e)
      BY DEF IndInv, DeviceInv
    <3>3. RunType(run[e])
      BY DEF IndInv, TypeOK, RunType
    <3> QED BY <1>1, <3>3, <3>1, <3>2, UntouchedKeeps DEF StepOf
  <2> QED BY <2>1, <2>2
<1>3. \A e \in Devices : RunType(run'[e])
  <2>1. \A e \in Devices : RunType(run[e])
    BY DEF IndInv, TypeOK, RunType
  <2> QED BY <2>1 DEF StepOf
<1>4. TypeOK'
  BY <1>3 DEF TypeOK, StepOf, RunType, Bounds
<1> QED BY <1>2, <1>4 DEF IndInv, StepOf, DeviceInv

(* What is known of a device before its step.                                 *)
LEMMA DeviceFacts ==
  ASSUME IndInv, NEW d \in Devices
  PROVE  /\ server \in Server /\ ServerInv
         /\ db \in [Devices -> Database] /\ db[d] \in Database /\ IsFiniteSet(db[d].outbox)
         /\ \A k \in Keys : Tidy(db[d], k) /\ Awaited(db[d], run[d].answers, k)
         /\ DOMAIN run = Devices /\ RunType(run[d]) /\ Answers(run[d].answers)
         /\ session \in [Devices -> Session] /\ session[d] \in Session
         /\ DeviceInv(d)
<1>1. /\ server \in Server /\ ServerInv
      /\ db \in [Devices -> Database] /\ db[d] \in Database
      /\ DOMAIN run = Devices /\ RunType(run[d])
      /\ session \in [Devices -> Session] /\ session[d] \in Session
      /\ DeviceInv(d)
  BY DEF IndInv, TypeOK, RunType, DeviceInv
<1>2. IsFiniteSet(db[d].outbox)
      /\ \A k \in Keys : Tidy(db[d], k) /\ Awaited(db[d], run[d].answers, k)
  BY <1>1 DEF DeviceInv, QueueInv
<1>3. Answers(run[d].answers)
  BY <1>1, <1>2 DEF RunType, Run, Answers, Awaited
<1> QED BY <1>1, <1>2, <1>3

(* There is a backup: the start rows can be numbered.                          *)
LEMMA BackupIs ==
  /\ Backup \in [Keys -> Nat]
  /\ \A k \in Keys : Backup[k] <= Cardinality(StartKeys) /\ (Backup[k] = 0 <=> k \notin StartKeys)
  /\ Cardinality(StartKeys) \in Nat
<1> DEFINE n == Cardinality(StartKeys)
           good(s) == /\ \A k \in Keys : s[k] = 0 <=> k \notin StartKeys
                      /\ \A j, k \in StartKeys : s[j] = s[k] => j = k
<1>1. n \in Nat /\ IsFiniteSet(StartKeys) /\ StartKeys \subseteq Keys
  BY KeysFinite, RecoveryAssumption
<1>2. PICK f : f \in Bijection(1 .. n, StartKeys)
  BY <1>1, FS_CardinalityType DEF ExistsBijection
<1>3. /\ f \in [1 .. n -> StartKeys]
      /\ \A k \in StartKeys : \E i \in 1 .. n : f[i] = k
  BY <1>2 DEF Bijection, Surjection, Injection
<1> HIDE DEF n
<1> DEFINE at(k) == CHOOSE i \in 1 .. n : f[i] = k
           s == [k \in Keys |-> IF k \in StartKeys THEN at(k) ELSE 0]
<1>4. \A k \in StartKeys : at(k) \in 1 .. n /\ f[at(k)] = k
  BY <1>3
<1> HIDE DEF at
<1>5. \A k \in Keys : s[k] = IF k \in StartKeys THEN at(k) ELSE 0
  OBVIOUS
<1>6. s \in [Keys -> 0 .. n]
  BY <1>1, <1>4
<1> HIDE DEF s
<1>7. \A k \in Keys : s[k] = 0 <=> k \notin StartKeys
  BY <1>1, <1>4, <1>5
<1>8. \A j, k \in StartKeys : s[j] = s[k] => j = k
  BY <1>1, <1>4, <1>5
<1>9. good(s)
  BY <1>7, <1>8
<1>10. Backup = CHOOSE b \in [Keys -> 0 .. n] : good(b)
  BY DEF Backup, n
<1> HIDE DEF good
<1>11. Backup \in [Keys -> 0 .. n] /\ good(Backup)
  BY <1>6, <1>9, <1>10
<1> USE DEF good
<1>12. Backup \in [Keys -> Nat] /\ \A k \in Keys : Backup[k] <= n
  BY <1>1, <1>11
<1> QED BY <1>1, <1>11, <1>12 DEF n

(* A device that does nothing is idle.                                         *)
LEMMA IdleIs == RunType(Idle) /\ Idle.pc = "idle" /\ Idle.answers = [k \in {} |-> Nothing]
                /\ DOMAIN Idle.answers = {} /\ Idle.missing = {} /\ Idle.landed /\ ~Idle.forced
                /\ Idle.pulled = 0
<1>1. Idle.answers = [k \in {} |-> Nothing]
  BY DEF Idle
<1>2. DOMAIN Idle.answers = {}
  BY <1>1
<1>3. Idle.answers \in [{} -> Answered]
  BY <1>1
<1>4. Idle \in Run({})
  BY <1>1, <1>3 DEF Idle, Run, Phases
<1> QED BY <1>1, <1>2, <1>4 DEF RunType, Idle

(* At first every device holds the backup.                                   *)
LEMMA RecoveryStarts == Init => IndInv
<1> SUFFICES ASSUME Init PROVE IndInv
  OBVIOUS
<1>1. /\ server.rev = Backup /\ server.content = StartRow
      /\ server.head = Cardinality(StartKeys) /\ server.objects = BlobKeys \cap StartKeys
      /\ server.epoch = 1 /\ server.stale = FALSE
      /\ server \in Server
  <2>1. StartRow \in [Keys -> Contents \cup {Nothing}]
    BY RecoveryAssumption DEF StartRow, Contents
  <2> QED BY <2>1, BackupIs DEF Init, Server
<1>2. ServerInv
  BY <1>1, BackupIs DEF ServerInv, StartRow
<1>3. \A d \in Devices : \E held \in SUBSET (BlobKeys \cap StartKeys) :
        db[d] = [row |-> StartRow, bytes |-> held, oversize |-> {}, puts |-> {},
                 meta |-> Backup, outbox |-> {}, dead |-> {},
                 watermark |-> Cardinality(StartKeys), epoch |-> 1, asked |-> FALSE]
  BY DEF Init
<1>4. \A d \in Devices :
        /\ db[d] \in Database /\ db[d].row = StartRow /\ db[d].puts = {} /\ db[d].meta = Backup
        /\ db[d].bytes \subseteq BlobKeys \cap StartKeys
        /\ db[d].outbox = {} /\ db[d].dead = {} /\ db[d].watermark = Cardinality(StartKeys)
        /\ db[d].epoch = 1 /\ db[d].oversize = {}
  <2> TAKE d \in Devices
  <2>1. PICK held \in SUBSET (BlobKeys \cap StartKeys) :
          db[d] = [row |-> StartRow, bytes |-> held, oversize |-> {}, puts |-> {},
                   meta |-> Backup, outbox |-> {}, dead |-> {},
                   watermark |-> Cardinality(StartKeys), epoch |-> 1, asked |-> FALSE]
    BY <1>3
  <2>2. StartRow \in [Keys -> Contents \cup {Nothing}]
    BY RecoveryAssumption DEF StartRow, Contents
  <2> QED BY <2>1, <2>2, BackupIs DEF Database
<1>5. db \in [Devices -> Database]
  BY <1>4 DEF Init
<1>6. DOMAIN run = Devices /\ \A d \in Devices : run[d] = Idle
  BY DEF Init
<1>7. session \in [Devices -> Session] /\ \A d \in Devices : session[d].paused = FALSE
  BY DEF Init, Fresh, Session
<1>8. TypeOK
  <2>1. \A d \in Devices : RunType(run[d])
    BY <1>6, IdleIs
  <2> QED BY <1>1, <1>5, <1>6, <1>7, <2>1, RecoveryAssumption DEF TypeOK, RunType, Init, Contents
<1>9. ASSUME NEW d \in Devices PROVE DeviceInv(d)
  <2>1. RunInv(d)
    BY <1>6, <1>7, <1>9, IdleIs DEF RunInv
  <2>2. EpochInv(d)
    BY <1>1, <1>4, <1>6, <1>7, <1>9, IdleIs DEF EpochInv, Recovering
  <2>3. QueueInv(d)
    <3>1. \A k \in Keys : Pending(db[d], k) = {}
      BY <1>4, <1>9 DEF Pending
    <3>2. ASSUME NEW k \in Keys PROVE Tidy(db[d], k)
      <4>1. db[d].row[k] = IF k \in StartKeys THEN 1 ELSE 0
        BY ZenonT(60), <1>4, <1>9 DEF StartRow, Nothing
      <4>2. k \in db[d].bytes => k \in StartKeys
        BY <1>4, <1>9
      <4> QED BY <3>1, <4>1, <4>2 DEF Tidy, PendingDelete, Nothing
    <3>3. \A k \in Keys : Awaited(db[d], run[d].answers, k)
      BY <1>6, <1>9, IdleIs DEF Awaited
    <3> QED BY <1>4, <1>9, <3>2, <3>3, FS_EmptySet DEF QueueInv
  <2>4. KnowInv(d)
    <3>1. \A k \in Keys : Knows(db[d], k)
      BY <1>1, <1>4, <1>9, BackupIs DEF Knows, StartRow, Nothing
    <3>2. \A k \in Keys : Holds(db[d], k)
      BY <1>1, <1>4, <1>9 DEF Holds
    <3>3. \A k \in Keys : Accepted(db[d], run[d].answers, k)
      BY <1>6, <1>9, IdleIs DEF Accepted
    <3> QED BY <1>1, <1>4, <1>9, <3>1, <3>2, <3>3, BackupIs DEF KnowInv
  <2>5. BytesInv(d)
    BY <1>1, <1>4, <1>6, <1>9, IdleIs DEF BytesInv, Candidates
  <2> QED BY <2>1, <2>2, <2>3, <2>4, <2>5 DEF DeviceInv
<1> QED BY <1>2, <1>8, <1>9 DEF IndInv, DeviceInv

-----------------------------------------------------------------------------
(* The operator and the devices of others.                                     *)

(* A restore leaves a device nothing to agree on, unless it has just forgotten    *)
(* everything.                                                              *)
LEMMA RestoreKeeps == IndInv /\ Restore => IndInv'
<1> SUFFICES ASSUME IndInv, Restore PROVE IndInv'
  OBVIOUS
<1>1. PICK kept \in SUBSET server.objects :
        server' = [server EXCEPT !.rev = Backup, !.content = StartRow,
                                 !.head = Cardinality(StartKeys),
                                 !.objects = kept, !.stale = TRUE]
  BY DEF Restore
<1>2. server \in Server
  BY DEF IndInv, TypeOK
<1>3. /\ server' \in Server /\ server'.rev = Backup /\ server'.content = StartRow
      /\ server'.head = Cardinality(StartKeys) /\ server'.epoch = server.epoch
      /\ server'.stale = TRUE
  <2>1. StartRow \in [Keys -> Contents \cup {Nothing}]
    BY RecoveryAssumption DEF StartRow, Contents
  <2> QED BY <1>1, <1>2, <2>1, BackupIs DEF Server
<1>4. ServerInv'
  BY <1>3, BackupIs DEF ServerInv, StartRow
<1>5. /\ db' = db /\ run' = run /\ session' = session /\ skipped' = skipped /\ minted' = minted
      /\ torn' = torn \cup {d \in Devices : run[d].pc = "pull all" /\ db[d].watermark > 0}
      /\ bound.restores < MaxRestores /\ bound' = [bound EXCEPT !.restores = @ + 1]
  BY DEF Restore
<1>6. TypeOK'
  <2>1. bound' \in Bounds
    <3>1. bound \in Bounds
      BY DEF IndInv, TypeOK, Bounds
    <3>2. bound.restores + 1 \in 0 .. MaxRestores
      <4>1. MaxRestores \in Nat /\ bound.restores \in 0 .. MaxRestores
        BY <3>1, RecoveryAssumption DEF Bounds
      <4>2. bound.restores < MaxRestores
        BY <1>5
      <4> QED BY <4>1, <4>2
    <3> QED BY <1>5, <3>1, <3>2 DEF Bounds
  <2> QED BY <1>3, <1>5, <2>1 DEF IndInv, TypeOK, Bounds
<1>7. ASSUME NEW d \in Devices PROVE DeviceInv(d)'
  <2>1. DeviceInv(d) /\ db[d] \in Database
    BY DeviceFacts
  <2>2. ~InEpoch(d)'
    BY <1>3 DEF InEpoch
  <2>3. RunInv(d)'
    BY <1>5, <2>1 DEF DeviceInv, RunInv
  <2>4. EpochInv(d)'
    BY <1>3, <1>5, <2>1, <2>2 DEF DeviceInv, EpochInv
  <2>5. QueueInv(d)'
    BY <1>5, <2>1 DEF DeviceInv, QueueInv
  <2>6. KnowInv(d)'
    <3>1. SUFFICES ASSUME Aligned(d)' PROVE KnowInv(d)'
      BY DEF KnowInv
    <3>2. run[d].pc = "pull all" /\ Recovering(d)'
      BY <1>3, <1>5, <2>2, <3>1 DEF Aligned
    <3>3. db[d].watermark = 0
      <4>1. d \notin torn'
        BY <3>1 DEF Aligned
      <4>2. ~(db[d].watermark > 0) /\ db[d].watermark \in Nat
        BY <1>5, <2>1, <3>2, <4>1 DEF Database
      <4> QED BY <4>2
    <3>4. \A k \in Keys : db[d].meta[k] = 0
      BY <2>1, <3>2, <3>3 DEF DeviceInv, RunInv
    <3>5. DOMAIN run[d].answers = {}
      BY <2>1, <3>2 DEF DeviceInv, RunInv
    <3>6. ASSUME NEW k \in Keys
          PROVE  (server.rev[k] \in Nat /\ db[d].meta[k] = 0 /\ db[d].watermark = 0)'
      BY <1>3, <1>5, <3>3, <3>4, BackupIs
    <3>7. \A k \in Keys : Knows(db[d], k)'
      BY <3>6 DEF Knows
    <3>8. \A k \in Keys : (Holds(db[d], k) \/ (server.rev[k] = 0 /\ ToPush(d, k)))'
      <4> TAKE k \in Keys
      <4>1. ToPush(d, k)'
        BY <1>5, <3>2 DEF ToPush
      <4> QED BY <3>6, <4>1 DEF Holds
    <3>9. \A k \in Keys : Accepted(db[d], run[d].answers, k)'
      BY <1>5, <3>5 DEF Accepted
    <3>10. (db[d].watermark <= server.head)'
      <4>1. db[d].watermark' = 0 /\ server.head' = Cardinality(StartKeys)
        BY <1>3, <1>5, <3>3
      <4> QED BY <4>1, BackupIs
    <3> QED BY <3>7, <3>8, <3>9, <3>10 DEF KnowInv
  <2>7. BytesInv(d)'
    BY <1>3, <2>1, <2>2 DEF BytesInv
  <2> QED BY <2>3, <2>4, <2>5, <2>6, <2>7 DEF DeviceInv
<1> QED BY <1>4, <1>6, <1>7 DEF IndInv, DeviceInv

(* A new epoch is one no device is in, and no page has shown.                    *)
LEMMA ReEpochKeeps == IndInv /\ ReEpoch => IndInv'
<1> SUFFICES ASSUME IndInv, ReEpoch PROVE IndInv'
  OBVIOUS
<1>1. /\ server \in Server /\ server' = [server EXCEPT !.epoch = @ + 1, !.stale = FALSE]
      /\ db' = db /\ run' = run /\ session' = session /\ skipped' = skipped /\ torn' = torn
      /\ minted' = minted /\ bound' = bound
  BY DEF IndInv, TypeOK, ReEpoch, history
<1>2. /\ server' \in Server /\ server'.rev = server.rev /\ server'.content = server.content
      /\ server'.head = server.head /\ server'.objects = server.objects
      /\ server'.epoch = server.epoch + 1 /\ server.epoch \in Nat
  <2>1. server.epoch \in Nat /\ server.epoch + 1 \in Nat
    BY <1>1 DEF Server
  <2>2. server' = [server EXCEPT !.epoch = server.epoch + 1, !.stale = FALSE]
    BY <1>1
  <2> QED BY <1>1, <2>1, <2>2 DEF Server
<1>3. ServerInv'
  BY <1>2 DEF IndInv, ServerInv
<1>4. TypeOK'
  BY <1>1, <1>2 DEF IndInv, TypeOK
<1>5. ASSUME NEW d \in Devices PROVE DeviceInv(d)'
  <2>1. DeviceInv(d) /\ db[d].epoch \in Nat /\ run[d].pulled \in Nat
    BY DeviceFacts DEF Database, RunType, Run
  <2>2. db[d].epoch < server'.epoch /\ run[d].pulled < server'.epoch
    BY <1>2, <2>1 DEF DeviceInv, EpochInv
  <2>3. ~InEpoch(d)'
    BY <1>1, <2>1, <2>2 DEF InEpoch
  <2>4. RunInv(d)'
    BY <1>1, <2>1 DEF DeviceInv, RunInv
  <2>5. EpochInv(d)'
    BY <1>1, <1>2, <2>1, <2>2, <2>3 DEF EpochInv
  <2>6. QueueInv(d)'
    BY <1>1, <2>1 DEF DeviceInv, QueueInv
  <2>7. KnowInv(d)'
    <3>1. SUFFICES ASSUME Aligned(d)' PROVE KnowInv(d)'
      BY DEF KnowInv
    <3>2. run[d].pc = "pull all" /\ Recovering(d)' /\ d \notin torn'
      <4>1. d \notin torn' /\ Recovering(d)'
        BY <2>3, <3>1 DEF Aligned
      <4>2. (run[d].pulled = server.epoch)' => FALSE
        BY <1>1, <1>2, <2>1, <2>2
      <4> QED BY <1>1, <3>1, <4>1, <4>2 DEF Aligned
    <3>3. Aligned(d)
      BY <1>1, <3>2 DEF Aligned, Recovering
    <3> QED BY ZenonT(60), <1>1, <1>2, <2>1, <3>3
        DEF DeviceInv, KnowInv, Knows, Holds, Accepted, ToPush, Recovering
  <2>8. BytesInv(d)'
    <3>1. (run[d].pulled = server.epoch)' => FALSE
      BY <1>1, <1>2, <2>1, <2>2
    <3> QED BY <2>3, <3>1 DEF BytesInv
  <2> QED BY <2>4, <2>5, <2>6, <2>7, <2>8 DEF DeviceInv
<1> QED BY <1>3, <1>4, <1>5 DEF IndInv, DeviceInv

(* Another device of the account adds to the log.                            *)
LEMMA OthersKeep == ASSUME IndInv, NEW k \in Keys, OtherPushes(k) PROVE IndInv'
<1>1. PICK c \in (Contents \cup {Nothing}) \ {server.content[k]} :
        /\ server' = [server EXCEPT !.rev[k] = server.head + 1, !.head = @ + 1,
                                    !.content[k] = c,
                                    !.objects = IF c = Nothing THEN @
                                                ELSE @ \cup ({k} \cap BlobKeys)]
        /\ minted' = minted \cup ({c} \ {Nothing})
  BY DEF OtherPushes
<1>2. server \in Server /\ ServerInv /\ UNCHANGED <<db, run, session, history>>
  BY DEF IndInv, TypeOK, OtherPushes
<1> DEFINE objects == IF c = Nothing THEN server.objects ELSE server.objects \cup ({k} \cap BlobKeys)
<1>0. /\ server.head \in Nat /\ server.head + 1 \in Nat /\ objects \in SUBSET BlobKeys
      /\ server.objects \subseteq objects
      /\ server' = [server EXCEPT !.rev[k] = server.head + 1, !.head = server.head + 1,
                                  !.content[k] = c, !.objects = objects]
  BY <1>1, <1>2 DEF Server
<1> HIDE DEF objects
<1>3. /\ server' \in Server /\ server'.head = server.head + 1 /\ server.head \in Nat
      /\ server.objects \subseteq server'.objects
      /\ server'.epoch = server.epoch /\ server'.stale = server.stale
      /\ \A j \in Keys : /\ server'.rev[j] = IF j = k THEN server.head + 1 ELSE server.rev[j]
                         /\ server'.content[j] = IF j = k THEN c ELSE server.content[j]
  BY <1>0, <1>2 DEF Server
<1>4. Grows
  BY <1>3 DEF Grows
<1>5. ServerInv'
  BY <1>2, <1>3 DEF ServerInv, Server
<1>6. TypeOK'
  <2>1. minted' \subseteq Contents
    BY <1>1 DEF IndInv, TypeOK
  <2>2. bound' \in Bounds
    BY RecoveryAssumption DEF OtherPushes, IndInv, TypeOK, Bounds
  <2> QED BY <1>2, <1>3, <2>1, <2>2 DEF IndInv, TypeOK, Bounds, history
<1>7. ASSUME NEW d \in Devices PROVE DeviceInv(d)'
  <2>1. Untouched(d)
    BY <1>2 DEF Untouched, history
  <2> QED BY <1>2, <1>3, <1>4, <2>1, DeviceFacts, UntouchedKeeps
<1> QED BY <1>5, <1>6, <1>7 DEF IndInv, DeviceInv

(* A step of d that moves no record: neither the account's nor its own.          *)
Quiet(d) ==
  /\ server' \in Server /\ server'.rev = server.rev /\ server'.content = server.content
  /\ server'.head = server.head /\ server'.epoch = server.epoch
  /\ server'.stale = server.stale /\ server.objects \subseteq server'.objects
  /\ db' \in [Devices -> Database] /\ \A e \in Devices \ {d} : db'[e] = db[e]
  /\ db'[d].row = db[d].row /\ db'[d].meta = db[d].meta /\ db'[d].outbox = db[d].outbox
  /\ db'[d].dead = db[d].dead /\ db'[d].watermark = db[d].watermark
  /\ db'[d].bytes = db[d].bytes
  /\ DOMAIN run' = Devices /\ RunType(run'[d]) /\ \A e \in Devices \ {d} : run'[e] = run[e]
  /\ DOMAIN run'[d].answers = {} \/ run'[d].answers = run[d].answers
  /\ session' \in [Devices -> Session] /\ \A e \in Devices \ {d} : session'[e] = session[e]
  /\ torn' = torn /\ skipped' \subseteq Devices
  /\ \A e \in Devices \ {d} : e \in skipped' <=> e \in skipped
  /\ minted' = minted /\ bound' \in Bounds

(* A step of a run that changes neither the database nor the account.        *)
LEMMA QuietStep ==
  ASSUME IndInv, NEW d \in Devices, Quiet(d),
         Aligned(d)' => Aligned(d) /\ \A k \in Keys : ToPush(d, k) => ToPush(d, k)',
         RunInv(d)', EpochInv(d)', BytesInv(d)'
  PROVE  IndInv'
<1>1. /\ server \in Server /\ ServerInv
      /\ \A k \in Keys : Tidy(db[d], k) /\ Awaited(db[d], run[d].answers, k)
      /\ IsFiniteSet(db[d].outbox) /\ DeviceInv(d)
  BY DeviceFacts
<1>2. StepOf(d)
  <2>1. ServerInv' /\ Grows
    BY <1>1 DEF Quiet, ServerInv, Grows, Server
  <2>2. minted' \subseteq Contents /\ torn' \subseteq Devices
    BY DEF Quiet, IndInv, TypeOK
  <2> QED BY <2>1, <2>2 DEF StepOf, Quiet
<1>3. QueueInv(d)'
  <2>1. \A k \in Keys : Pending(db[d], k)' = Pending(db[d], k)
    BY DEF Quiet, Pending
  <2>2. \A k \in Keys : Tidy(db[d], k)'
    BY <1>1, <2>1 DEF Quiet, Tidy, PendingDelete
  <2>3. \A k \in Keys : Awaited(db[d], run[d].answers, k)'
    BY <1>1, <2>1 DEF Quiet, Awaited
  <2>4. IsFiniteSet(db[d].outbox)'
    BY <1>1 DEF Quiet
  <2> QED BY <2>2, <2>3, <2>4 DEF QueueInv
<1>4. KnowInv(d)'
  <2>1. SUFFICES ASSUME Aligned(d)' PROVE KnowInv(d)'
    BY DEF KnowInv
  <2>2. /\ db[d].watermark <= server.head
        /\ \A k \in Keys : /\ Knows(db[d], k)
                           /\ Holds(db[d], k) \/ (server.rev[k] = 0 /\ ToPush(d, k))
                           /\ Accepted(db[d], run[d].answers, k)
    BY <1>1, <2>1 DEF DeviceInv, KnowInv
  <2>3. \A k \in Keys : Pending(db[d], k)' = Pending(db[d], k)
    BY DEF Quiet, Pending
  <2>4. \A k \in Keys : Knows(db[d], k)'
    BY <2>2 DEF Quiet, Knows
  <2>5. \A k \in Keys : Holds(db[d], k) => Holds(db[d], k)'
    BY <2>3 DEF Quiet, Holds
  <2>6. \A k \in Keys : Accepted(db[d], run[d].answers, k)'
    BY <2>2, <2>3 DEF Quiet, Accepted
  <2>7. \A k \in Keys : (server.rev[k] = 0 /\ ToPush(d, k)) => (server.rev[k] = 0 /\ ToPush(d, k))'
    BY <2>1 DEF Quiet
  <2>8. (db[d].watermark <= server.head)'
    BY <2>2 DEF Quiet
  <2> QED BY <2>2, <2>4, <2>5, <2>6, <2>7, <2>8 DEF KnowInv
<1> QED BY <1>2, <1>3, <1>4, StepKeeps DEF DeviceInv

(* A mishap and what is no mishap keep the bounds.                              *)
LEMMA BoundsKept == ASSUME IndInv, Mishap \/ bound' = bound PROVE bound' \in Bounds
<1>1. bound \in Bounds
  BY DEF IndInv, TypeOK, Bounds
<1>2. MaxMishaps \in Nat
  BY RecoveryAssumption
<1> QED BY <1>1, <1>2 DEF Mishap, Bounds

(* An idle run, or one at the start of a pull or of a recovery.                  *)
LEMMA IdleAt ==
  ASSUME NEW pc \in Phases, NEW r, r = [Idle EXCEPT !.pc = pc]
  PROVE  /\ RunType(r) /\ r.pc = pc /\ DOMAIN r.answers = {} /\ r.answers = Idle.answers
         /\ r.missing = {} /\ r.landed /\ ~r.forced /\ r.pulled = 0
<1>1. Idle \in Run({}) /\ DOMAIN Idle.answers = {}
  BY IdleIs DEF RunType
<1>2. r = [pc |-> pc, answers |-> Idle.answers, head |-> 0, told |-> 0, pulled |-> 0,
           missing |-> {}, landed |-> TRUE, forced |-> FALSE]
  BY DEF Idle
<1>3. r \in Run({})
  BY <1>1, <1>2 DEF Run
<1> QED BY <1>1, <1>2, <1>3 DEF RunType

(* A device that is not in recovery holds what is of the log the server has now if   *)
(* it is in the epoch; one that is in a recovery, and in the epoch, was torn.      *)
LEMMA AlignedIs ==
  ASSUME NEW d \in Devices, DeviceInv(d)
  PROVE  /\ ~Recovering(d) => (Aligned(d) <=> d \notin torn /\ InEpoch(d))
         /\ InEpoch(d) /\ d \notin torn => ~Recovering(d) /\ Aligned(d) /\ ~session[d].paused
BY DEF DeviceInv, EpochInv, Aligned

-----------------------------------------------------------------------------
(* A cycle or recovery that ends before its end changes nothing.                  *)
LEMMA EndsKeep ==
  ASSUME IndInv, NEW d \in Devices,
         server' = server, db' = db, torn' = torn, skipped' = skipped, minted' = minted,
         Mishap \/ bound' = bound,
         run' = [run EXCEPT ![d] = Idle],
         session' \in [Devices -> Session], \A e \in Devices \ {d} : session'[e] = session[e],
         session'[d].paused => session[d].paused
  PROVE  IndInv'
<1>1. /\ server \in Server /\ db \in [Devices -> Database] /\ DOMAIN run = Devices
      /\ DeviceInv(d)
  BY DeviceFacts
<1>2. DOMAIN run' = Devices /\ run'[d] = Idle /\ \A e \in Devices \ {d} : run'[e] = run[e]
  BY <1>1
<1>3. skipped' \subseteq Devices
  BY DEF IndInv, TypeOK
<1>4. Quiet(d)
  BY <1>1, <1>2, <1>3, IdleIs, BoundsKept DEF Quiet
<1>5. ~Recovering(d)' /\ (InEpoch(d)' <=> InEpoch(d))
  BY <1>2, IdleIs DEF Recovering, InEpoch
<1>6. Aligned(d)' => Aligned(d) /\ ~Recovering(d)
  BY <1>1, <1>5, AlignedIs DEF Aligned
<1>7. RunInv(d)'
  BY <1>2, IdleIs DEF RunInv
<1>8. EpochInv(d)'
  <2>1. (session[d].paused /\ InEpoch(d) => d \in torn)'
    BY <1>1, <1>5 DEF DeviceInv, EpochInv
  <2>2. (db[d].epoch <= server.epoch)'
    BY <1>1 DEF DeviceInv, EpochInv
  <2>3. server.epoch \in Nat
    BY <1>1 DEF Server
  <2> QED BY <1>2, <1>5, <2>1, <2>2, <2>3, IdleIs DEF EpochInv
<1>9. BytesInv(d)'
  BY <1>1, <1>2, <1>5, IdleIs DEF DeviceInv, BytesInv, Candidates
<1> QED BY <1>4, <1>6, <1>7, <1>8, <1>9, QuietStep DEF ToPush

(* A recovery that starts, or is one too many.                                  *)
LEMMA RecoveryStart ==
  ASSUME IndInv, NEW d \in Devices, StartRecovery(d)
  PROVE  /\ session' \in [Devices -> Session] /\ \A e \in Devices \ {d} : session'[e] = session[e]
         /\ DOMAIN run' = Devices /\ RunType(run'[d])
         /\ \A e \in Devices \ {d} : run'[e] = run[e]
         /\ DOMAIN run'[d].answers = {} /\ run'[d].pulled = 0
         /\ run'[d].pc \in {"idle", "clear"}
         /\ RunInv(d)'
         /\ Aligned(d)' => InEpoch(d)' /\ d \notin torn'
<1>1. /\ DOMAIN run = Devices /\ session \in [Devices -> Session] /\ session[d] \in Session
  BY DeviceFacts
<1> DEFINE n == session[d].recoveries + 1
<1>2. n \in Nat
  BY <1>1 DEF Session
<1> HIDE DEF n
<1>3. /\ session' = [session EXCEPT ![d].recoveries = n, ![d].paused = n > MaxRecoveries]
      /\ run' = [run EXCEPT ![d] =
           IF n > MaxRecoveries THEN Idle ELSE [Idle EXCEPT !.pc = "clear"]]
  BY DEF StartRecovery, n
<1>4. /\ session' \in [Devices -> Session] /\ \A e \in Devices \ {d} : session'[e] = session[e]
      /\ session'[d].paused = (n > MaxRecoveries)
  <2>1. PICK x : x = [session[d] EXCEPT !.recoveries = n, !.paused = n > MaxRecoveries]
    OBVIOUS
  <2>2. (n > MaxRecoveries) \in BOOLEAN
    BY <1>2
  <2>3. x \in Session /\ x.paused = (n > MaxRecoveries)
    BY <1>1, <1>2, <2>1, <2>2 DEF Session
  <2>4. session' = [session EXCEPT ![d] = x]
    BY <1>3, <2>1
  <2> QED BY <1>1, <2>3, <2>4
<1>5. PICK r : r = IF n > MaxRecoveries THEN Idle ELSE [Idle EXCEPT !.pc = "clear"]
  OBVIOUS
<1>6. /\ RunType(r) /\ DOMAIN r.answers = {} /\ r.missing = {} /\ r.landed /\ ~r.forced
      /\ r.pulled = 0
      /\ r.pc = IF n > MaxRecoveries THEN "idle" ELSE "clear"
  <2>1. "clear" \in Phases
    BY DEF Phases
  <2>2. CASE n > MaxRecoveries
    BY <1>5, <2>2, IdleIs
  <2>3. CASE ~(n > MaxRecoveries)
    <3>1. r = [Idle EXCEPT !.pc = "clear"]
      BY <1>5, <2>3
    <3> QED BY ZenonT(60), <2>1, <2>3, <3>1, IdleAt
  <2> QED BY <2>2, <2>3
<1>7. DOMAIN run' = Devices /\ run'[d] = r /\ \A e \in Devices \ {d} : run'[e] = run[e]
  BY <1>1, <1>3, <1>5
<1>8. RunInv(d)'
  BY <1>4, <1>6, <1>7 DEF RunInv
<1>9. Aligned(d)' => InEpoch(d)' /\ d \notin torn'
  BY <1>6, <1>7 DEF Aligned, Recovering, Phases
<1> QED BY <1>4, <1>6, <1>7, <1>8, <1>9

(* A device that starts a recovery, or has started too many, is not in the epoch.   *)
LEMMA StartRecoveryKeeps ==
  ASSUME IndInv, NEW d \in Devices, StartRecovery(d),
         server' = server, db' = db, torn' = torn, skipped' = skipped, minted' = minted,
         bound' = bound, InEpoch(d) => d \in torn
  PROVE  IndInv'
<1>1. server \in Server /\ db \in [Devices -> Database] /\ DeviceInv(d)
  BY DeviceFacts
<1>2. Quiet(d)
  <2>1. skipped' \subseteq Devices
    BY DEF IndInv, TypeOK
  <2> QED BY <1>1, <2>1, RecoveryStart, BoundsKept DEF Quiet
<1>3. ~Aligned(d)'
  BY RecoveryStart DEF InEpoch
<1>4. RunInv(d)' /\ run'[d].pulled = 0 /\ run'[d].pc \in {"idle", "clear"}
  BY RecoveryStart
<1>5. EpochInv(d)'
  <2>1. server.epoch \in Nat /\ db[d].epoch <= server.epoch
    BY <1>1 DEF Server, DeviceInv, EpochInv
  <2> QED BY <1>4, <2>1 DEF EpochInv, InEpoch
<1>6. BytesInv(d)'
  BY <1>1, <1>4 DEF DeviceInv, BytesInv, Candidates, InEpoch
<1> QED BY <1>2, <1>3, <1>4, <1>5, <1>6, QuietStep

(* A retry starts from the bases again.                                      *)
LEMMA RetryKeeps ==
  ASSUME IndInv, NEW d \in Devices, Retry(d)
  PROVE  IndInv'
<1>1. /\ server \in Server /\ db \in [Devices -> Database] /\ DOMAIN run = Devices
      /\ session \in [Devices -> Session] /\ session[d] \in Session /\ DeviceInv(d)
  BY DeviceFacts
<1>2. /\ server' = server /\ db' = db /\ torn' = torn /\ skipped' = skipped /\ minted' = minted
      /\ bound' = bound /\ session[d].paused
      /\ session' = [session EXCEPT ![d].paused = FALSE, ![d].recoveries = 1]
      /\ run' = [run EXCEPT ![d] = [Idle EXCEPT !.pc = "clear"]]
  BY DEF Retry, Unmoved, history
<1>3. /\ session' \in [Devices -> Session] /\ \A e \in Devices \ {d} : session'[e] = session[e]
      /\ session'[d].paused = FALSE
  BY <1>1, <1>2 DEF Session
<1>4. PICK r : r = [Idle EXCEPT !.pc = "clear"]
  OBVIOUS
<1>5. /\ RunType(r) /\ DOMAIN r.answers = {} /\ r.missing = {} /\ r.landed /\ ~r.forced
      /\ r.pulled = 0 /\ r.pc = "clear"
  <2>1. "clear" \in Phases
    BY DEF Phases
  <2> QED BY <1>4, <2>1, IdleAt
<1>6. DOMAIN run' = Devices /\ run'[d] = r /\ \A e \in Devices \ {d} : run'[e] = run[e]
  BY <1>1, <1>2, <1>4
<1>7. Quiet(d)
  <2>1. skipped' \subseteq Devices
    BY <1>2 DEF IndInv, TypeOK
  <2> QED BY <1>1, <1>2, <1>3, <1>5, <1>6, <2>1, BoundsKept DEF Quiet
<1>8. ~Aligned(d)'
  BY <1>5, <1>6 DEF Aligned, Recovering, Phases
<1>9. RunInv(d)'
  BY <1>3, <1>5, <1>6 DEF RunInv
<1>10. EpochInv(d)'
  <2>1. server.epoch \in Nat /\ db[d].epoch <= server.epoch /\ (InEpoch(d) => d \in torn)
    BY <1>1, <1>2 DEF Server, DeviceInv, EpochInv
  <2>2. (InEpoch(d) => d \in torn)'
    BY <1>2, <2>1 DEF InEpoch
  <2>3. (db[d].epoch <= server.epoch /\ run[d].pulled <= server.epoch /\ run[d].pc # "ack")'
    <3>1. run'[d].pulled = 0 /\ run'[d].pc = "clear"
      BY <1>5, <1>6
    <3>2. server'.epoch = server.epoch /\ db'[d].epoch = db[d].epoch
      BY <1>2
    <3> QED BY <2>1, <3>1, <3>2
  <2> QED BY <2>2, <2>3 DEF EpochInv
<1>11. BytesInv(d)'
  BY <1>1, <1>2, <1>5, <1>6 DEF DeviceInv, BytesInv, Candidates, InEpoch
<1> QED BY <1>7, <1>8, <1>9, <1>10, <1>11, QuietStep

(* Locking, unlocking and the hour that passes touch the session alone.           *)
LEMMA SessionKeeps ==
  ASSUME IndInv, NEW d \in Devices,
         server' = server, db' = db, run' = run, torn' = torn, skipped' = skipped,
         minted' = minted, Mishap \/ bound' = bound,
         session' \in [Devices -> Session], \A e \in Devices \ {d} : session'[e] = session[e],
         session'[d].paused = session[d].paused
  PROVE  IndInv'
<1>1. /\ server \in Server /\ db \in [Devices -> Database] /\ DOMAIN run = Devices
      /\ RunType(run[d]) /\ DeviceInv(d)
  BY DeviceFacts
<1>2. skipped' \subseteq Devices
  BY DEF IndInv, TypeOK
<1>3. Quiet(d)
  BY <1>1, <1>2, BoundsKept DEF Quiet
<1>4. (Aligned(d)' <=> Aligned(d)) /\ \A k \in Keys : ToPush(d, k)' <=> ToPush(d, k)
  BY DEF Aligned, ToPush, Recovering, InEpoch
<1>5. RunInv(d)' /\ EpochInv(d)'
  BY <1>1 DEF DeviceInv, RunInv, EpochInv, Recovering, InEpoch
<1>6. BytesInv(d)'
  BY <1>1 DEF DeviceInv, BytesInv, Stored, Candidates, InEpoch
<1> QED BY <1>3, <1>4, <1>5, <1>6, QuietStep

(* Failures, reloads and locks lose nothing that was written down.           *)
LEMMA BefallsKeeps ==
  ASSUME IndInv, NEW d \in Devices, Befalls(d)
  PROVE  IndInv'
<1>1. session \in [Devices -> Session] /\ session[d] \in Session
  BY DeviceFacts
<1>2. CASE Fail(d)
  <2>1. /\ Mishap /\ run' = [run EXCEPT ![d] = Idle]
        /\ server' = server /\ db' = db /\ session' = session /\ torn' = torn
        /\ skipped' = skipped /\ minted' = minted
    BY <1>2 DEF Fail, history
  <2> QED BY <1>1, <2>1, EndsKeep
<1>3. CASE Reload(d)
  <2>1. /\ Mishap /\ run' = [run EXCEPT ![d] = Idle] /\ session' = [session EXCEPT ![d] = Fresh]
        /\ server' = server /\ db' = db /\ torn' = torn
        /\ skipped' = skipped /\ minted' = minted
    BY <1>3 DEF Reload, history
  <2>2. /\ session' \in [Devices -> Session] /\ session'[d].paused = FALSE
        /\ \A e \in Devices \ {d} : session'[e] = session[e]
    BY <1>1, <2>1 DEF Fresh, Session
  <2> QED BY <2>1, <2>2, EndsKeep
<1>4. CASE Lock(d) \/ Unlock(d) \/ HourPasses(d)
  <2>1. /\ server' = server /\ db' = db /\ run' = run /\ torn' = torn
        /\ skipped' = skipped /\ minted' = minted /\ (Mishap \/ bound' = bound)
    BY <1>4 DEF Lock, Unlock, HourPasses, Unmoved, history
  <2>2. /\ session' \in [Devices -> Session] /\ session'[d].paused = session[d].paused
        /\ \A e \in Devices \ {d} : session'[e] = session[e]
    <3>1. CASE session' = [session EXCEPT ![d].unlocked = FALSE]
      BY <1>1, <3>1 DEF Session
    <3>2. CASE session' = [session EXCEPT ![d].unlocked = TRUE]
      BY <1>1, <3>2 DEF Session
    <3>3. CASE session' = [session EXCEPT ![d].recoveries = 0]
      BY <1>1, <3>3 DEF Session
    <3> QED BY <1>4, <3>1, <3>2, <3>3 DEF Lock, Unlock, HourPasses
  <2> QED BY <2>1, <2>2, SessionKeeps
<1> QED BY <1>2, <1>3, <1>4 DEF Befalls

(* The answer to the question lets the uploads go on.                           *)
LEMMA ConfirmKeeps ==
  ASSUME IndInv, NEW d \in Devices, Confirm(d)
  PROVE  IndInv'
<1>1. /\ server \in Server /\ db \in [Devices -> Database] /\ RunType(run[d])
      /\ session \in [Devices -> Session] /\ DeviceInv(d)
  BY DeviceFacts
<1>2. /\ server' = server /\ db' = db /\ session' = session /\ torn' = torn
      /\ skipped' = skipped /\ minted' = minted /\ bound' = bound
      /\ run[d].pc = "idle" /\ db[d].asked
      /\ run' = [run EXCEPT ![d].pc = "blobs", ![d].forced = TRUE]
  BY DEF Confirm, Unmoved, history
<1>3. run[d].landed = TRUE /\ run[d].missing = {} /\ DOMAIN run[d].answers = {} /\ ~run[d].forced
  BY <1>1, <1>2 DEF DeviceInv, RunInv, RunType, Run, Phases
<1>4. /\ DOMAIN run' = Devices /\ RunType(run'[d]) /\ \A e \in Devices \ {d} : run'[e] = run[e]
      /\ run'[d].pc = "blobs" /\ run'[d].missing = {} /\ run'[d].landed = TRUE
      /\ run'[d].forced = TRUE /\ run'[d].pulled = run[d].pulled
      /\ run'[d].answers = run[d].answers
  <2>1. PICK r : r = [run[d] EXCEPT !.pc = "blobs", !.forced = TRUE]
    OBVIOUS
  <2>2. /\ r \in Run(DOMAIN run[d].answers) /\ r.answers = run[d].answers /\ r.pc = "blobs"
        /\ r.missing = run[d].missing /\ r.landed = run[d].landed /\ r.forced = TRUE
        /\ r.pulled = run[d].pulled
    BY <1>1, <2>1 DEF RunType, Run, Phases
  <2>3. DOMAIN run = Devices
    BY DeviceFacts
  <2>4. run' = [run EXCEPT ![d] = r]
    BY <1>2, <2>1
  <2>5. DOMAIN run' = Devices /\ run'[d] = r /\ \A e \in Devices \ {d} : run'[e] = run[e]
    BY <2>3, <2>4
  <2> QED BY <1>1, <1>3, <2>2, <2>5 DEF RunType
<1>5. Quiet(d)
  <2>1. skipped' \subseteq Devices
    BY <1>2 DEF IndInv, TypeOK
  <2> QED BY <1>1, <1>2, <1>4, <2>1, BoundsKept DEF Quiet
<1>6. ~Recovering(d)' /\ ~Recovering(d) /\ (InEpoch(d)' <=> InEpoch(d))
  BY <1>2, <1>4 DEF Recovering, InEpoch
<1>7. RunInv(d)'
  <2>1. (session[d].paused => run[d].pc = "idle" \/ run[d].forced)'
    BY <1>4
  <2>2. DOMAIN run'[d].answers = {}
    BY <1>3, <1>4
  <2> QED BY <1>2, <1>4, <2>1, <2>2 DEF RunInv
<1>8. EpochInv(d)'
  BY <1>1, <1>2, <1>4, <1>6 DEF DeviceInv, EpochInv
<1>9. BytesInv(d)'
  BY <1>1, <1>2, <1>4, <1>6 DEF DeviceInv, BytesInv, Candidates
<1>10. Aligned(d)' => Aligned(d)
  BY <1>2, <1>6 DEF Aligned
<1> QED BY <1>5, <1>6, <1>7, <1>8, <1>9, <1>10, QuietStep DEF ToPush

-----------------------------------------------------------------------------
(* What a step of the byte phases is: within them, and of the run and the bytes     *)
(* alone.                                                                   *)
ByteStep(d) ==
  /\ Quiet(d) /\ session' = session
  /\ run[d].pc \in {"blobs", "upload"}
  /\ run'[d].pc \in {"upload", AfterBlobs(d)} /\ run'[d].forced = run[d].forced
  /\ run'[d].pulled = run[d].pulled
  /\ run'[d].pc # "upload" => run'[d].missing = {}
  /\ db'[d].epoch = db[d].epoch /\ (db[d].asked => db'[d].asked)

(* A step that moves bytes only.                                             *)
LEMMA ByteStepKeeps ==
  ASSUME IndInv, NEW d \in Devices, ByteStep(d), BytesInv(d)'
  PROVE  IndInv'
<1>1. DeviceInv(d) /\ RunType(run[d])
  BY DeviceFacts
<1>2. DOMAIN run[d].answers = {}
  BY <1>1 DEF DeviceInv, RunInv, ByteStep
<1>3. InEpoch(d)' <=> InEpoch(d)
  BY DEF InEpoch, ByteStep, Quiet
<1>4. Recovering(d)' <=> Recovering(d)
  BY DEF Recovering, ByteStep, AfterBlobs, Phases
<1>5. Aligned(d)' => Aligned(d)
  BY <1>3, <1>4 DEF Aligned, ByteStep, Quiet, AfterBlobs
<1>6. \A k \in Keys : ToPush(d, k) => ToPush(d, k)'
  BY <1>4 DEF ToPush, ByteStep, Recovering, AfterBlobs
<1>7. RunInv(d)'
  <2>1. DOMAIN run'[d].answers = {}
    BY <1>2 DEF ByteStep, Quiet
  <2>2. run'[d].pc \in {"upload", "push blobs", "confirmed"}
        /\ (run'[d].pc = "push blobs" => ~run[d].forced)
        /\ (run'[d].pc = "confirmed" => run[d].forced)
    BY DEF ByteStep, AfterBlobs
  <2>3. run[d].forced => db[d].asked
    BY <1>1 DEF DeviceInv, RunInv
  <2>4. session[d].paused => run[d].forced
    BY <1>1 DEF DeviceInv, RunInv, ByteStep
  <2> QED BY <2>1, <2>2, <2>3, <2>4 DEF RunInv, ByteStep
<1>8. EpochInv(d)'
  <2>1. run'[d].pc # "ack"
    BY DEF ByteStep, AfterBlobs
  <2> QED BY <1>1, <1>3, <1>4, <2>1 DEF DeviceInv, EpochInv, ByteStep, Quiet
<1> QED BY <1>5, <1>6, <1>7, <1>8, QuietStep DEF ByteStep

(* The inventory finds every byte that is not in the bucket.                 *)
LEMMA InventoryKeeps ==
  ASSUME IndInv, NEW d \in Devices, Inventory(d)
  PROVE  IndInv'
<1>1. /\ server \in Server /\ db \in [Devices -> Database] /\ RunType(run[d])
      /\ session \in [Devices -> Session] /\ DeviceInv(d) /\ db[d] \in Database
      /\ DOMAIN run = Devices
  BY DeviceFacts
<1>2. /\ server' = server /\ db' = db /\ session' = session /\ torn' = torn
      /\ skipped' = skipped \ {d} /\ minted' = minted /\ bound' = bound
      /\ run[d].pc = "blobs"
      /\ run' = [run EXCEPT ![d].pc = "upload", ![d].missing = Missing(d)]
  BY DEF Inventory, Unmoved
<1>3. Missing(d) \in SUBSET BlobKeys
  BY <1>1 DEF Missing, Candidates, Database
<1>4. /\ DOMAIN run' = Devices /\ RunType(run'[d]) /\ \A e \in Devices \ {d} : run'[e] = run[e]
      /\ run'[d].pc = "upload" /\ run'[d].missing = Missing(d) /\ run'[d].landed = run[d].landed
      /\ run'[d].forced = run[d].forced /\ run'[d].pulled = run[d].pulled
      /\ run'[d].answers = run[d].answers
  <2> DEFINE missing == Missing(d)
  <2>0. missing \in SUBSET BlobKeys
    BY <1>3
  <2>1. PICK r : r = [run[d] EXCEPT !.pc = "upload", !.missing = missing]
    OBVIOUS
  <2> HIDE DEF missing
  <2>2. /\ r \in Run(DOMAIN run[d].answers) /\ r.answers = run[d].answers /\ r.pc = "upload"
        /\ r.missing = missing /\ r.landed = run[d].landed /\ r.forced = run[d].forced
        /\ r.pulled = run[d].pulled
    BY <1>1, <2>0, <2>1 DEF RunType, Run, Phases
  <2>3. run' = [run EXCEPT ![d] = r]
    BY <1>2, <2>1 DEF missing
  <2>4. DOMAIN run' = Devices /\ run'[d] = r /\ \A e \in Devices \ {d} : run'[e] = run[e]
    BY <1>1, <2>3
  <2>5. RunType(r)
    BY <1>1, <2>2 DEF RunType
  <2> QED BY <2>2, <2>4, <2>5 DEF missing
<1>5. Quiet(d)
  <2>1. skipped' \subseteq Devices /\ \A e \in Devices \ {d} : e \in skipped' <=> e \in skipped
    BY <1>2 DEF IndInv, TypeOK
  <2> QED BY <1>1, <1>2, <1>4, <2>1, BoundsKept DEF Quiet
<1>6. ByteStep(d)
  BY <1>2, <1>4, <1>5 DEF ByteStep
<1>7. InEpoch(d) => d \in torn \/ (db[d].asked /\ run[d].forced)
  BY <1>1, <1>2 DEF DeviceInv, EpochInv, RunInv, Recovering, Phases
<1>8. Stored(d)'
  BY <1>2, <1>4 DEF Stored, Missing, Candidates
<1>9. BytesInv(d)'
  BY <1>2, <1>7, <1>8 DEF BytesInv, InEpoch
<1> QED BY <1>6, <1>9, ByteStepKeeps

(* The uploads are passed over: not listed, or the user is asked.                *)
LEMMA PassOverKeeps ==
  ASSUME IndInv, NEW d \in Devices, NEW s \in Database,
         server' = server, session' = session, torn' = torn, minted' = minted,
         Mishap \/ bound' = bound,
         run[d].pc = "blobs", PassOver(d),
         skipped' \subseteq Devices, \A e \in Devices \ {d} : e \in skipped' <=> e \in skipped,
         db' = [db EXCEPT ![d] = s],
         s.row = db[d].row, s.meta = db[d].meta, s.outbox = db[d].outbox, s.dead = db[d].dead,
         s.watermark = db[d].watermark, s.bytes = db[d].bytes, s.epoch = db[d].epoch,
         db[d].asked => s.asked, d \in skipped' \/ (s.asked /\ ~run[d].forced)
  PROVE  IndInv'
<1>1. /\ server \in Server /\ db \in [Devices -> Database] /\ RunType(run[d])
      /\ session \in [Devices -> Session] /\ DeviceInv(d) /\ DOMAIN run = Devices
  BY DeviceFacts
<1>2. /\ run' = [run EXCEPT ![d].pc = AfterBlobs(d), ![d].landed = TRUE]
      /\ AfterBlobs(d) \in Phases \ {"upload"} /\ run[d].missing = {}
  BY <1>1 DEF PassOver, AfterBlobs, Phases, DeviceInv, RunInv
<1>3. db' \in [Devices -> Database] /\ db'[d] = s /\ \A e \in Devices \ {d} : db'[e] = db[e]
  BY <1>1
<1>4. /\ DOMAIN run' = Devices /\ RunType(run'[d]) /\ \A e \in Devices \ {d} : run'[e] = run[e]
      /\ run'[d].pc = AfterBlobs(d) /\ run'[d].missing = {} /\ run'[d].landed = TRUE
      /\ run'[d].forced = run[d].forced /\ run'[d].pulled = run[d].pulled
      /\ run'[d].answers = run[d].answers
  <2>1. PICK r : r = [run[d] EXCEPT !.pc = AfterBlobs(d), !.landed = TRUE]
    OBVIOUS
  <2>2. /\ r \in Run(DOMAIN run[d].answers) /\ r.answers = run[d].answers /\ r.pc = AfterBlobs(d)
        /\ r.missing = run[d].missing /\ r.landed = TRUE /\ r.forced = run[d].forced
        /\ r.pulled = run[d].pulled
    BY <1>1, <1>2, <2>1 DEF RunType, Run
  <2>3. run' = [run EXCEPT ![d] = r]
    BY <1>2, <2>1
  <2>4. DOMAIN run' = Devices /\ run'[d] = r /\ \A e \in Devices \ {d} : run'[e] = run[e]
    BY <1>1, <2>3
  <2>5. RunType(r)
    BY <1>1, <2>2 DEF RunType
  <2> QED BY <1>2, <2>2, <2>4, <2>5
<1>5. Quiet(d)
  BY <1>1, <1>3, <1>4, BoundsKept DEF Quiet
<1>6. ByteStep(d)
  BY <1>3, <1>4, <1>5 DEF ByteStep
<1>7. BytesInv(d)'
  BY <1>3, <1>4 DEF BytesInv
<1> QED BY <1>6, <1>7, ByteStepKeeps

(* A recovery that passes over the inventory is remembered for it.           *)
LEMMA NoInventoryKeeps ==
  ASSUME IndInv, NEW d \in Devices, NoInventory(d)
  PROVE  IndInv'
<1>1. db \in [Devices -> Database] /\ db[d] \in Database
  BY DeviceFacts
<1>2. /\ server' = server /\ session' = session /\ torn' = torn /\ minted' = minted
      /\ Mishap \/ bound' = bound
      /\ run[d].pc = "blobs" /\ PassOver(d) /\ db' = [db EXCEPT ![d] = db[d]]
      /\ skipped' = skipped \cup {d}
  BY <1>1 DEF NoInventory
<1>3. /\ skipped' \subseteq Devices /\ d \in skipped'
      /\ \A e \in Devices \ {d} : e \in skipped' <=> e \in skipped
  BY <1>2 DEF IndInv, TypeOK
<1> QED BY <1>1, <1>2, <1>3, PassOverKeeps

(* The question stays until it is answered.                                  *)
LEMMA AskKeeps ==
  ASSUME IndInv, NEW d \in Devices, Ask(d)
  PROVE  IndInv'
<1>1. db \in [Devices -> Database] /\ db[d] \in Database
  BY DeviceFacts
<1>2. PICK s : s = [db[d] EXCEPT !.asked = TRUE]
  OBVIOUS
<1>3. /\ s \in Database /\ s.row = db[d].row /\ s.meta = db[d].meta /\ s.outbox = db[d].outbox
      /\ s.dead = db[d].dead /\ s.watermark = db[d].watermark /\ s.bytes = db[d].bytes
      /\ s.epoch = db[d].epoch /\ s.asked = TRUE
  BY <1>1, <1>2 DEF Database
<1>4. /\ server' = server /\ session' = session /\ torn' = torn /\ minted' = minted
      /\ skipped' = skipped /\ Mishap /\ ~run[d].forced
      /\ run[d].pc = "blobs" /\ PassOver(d) /\ db' = [db EXCEPT ![d] = s]
  BY <1>1, <1>2 DEF Ask, history
<1>5. skipped' \subseteq Devices
  BY <1>4 DEF IndInv, TypeOK
<1> QED BY <1>3, <1>4, <1>5, PassOverKeeps

(* An upload that lands, is refused or is too large.                             *)
LEMMA UploadKeeps ==
  ASSUME IndInv, NEW d \in Devices, NEW k \in BlobKeys,
         Upload(d, k) \/ UploadRefused(d, k) \/ UploadTooLarge(d, k)
  PROVE  IndInv'
<1>1. /\ server \in Server /\ db \in [Devices -> Database] /\ RunType(run[d])
      /\ session \in [Devices -> Session] /\ DeviceInv(d) /\ DOMAIN run = Devices
      /\ db[d] \in Database
  BY DeviceFacts
<1>2. PICK landed \in BOOLEAN :
        /\ Uploaded(d, k, landed)
        /\ \/ server' = [server EXCEPT !.objects = @ \cup {k}] /\ db' = db
           \/ server' = server /\ db' = db /\ landed = FALSE
           \/ server' = server /\ db' = [db EXCEPT ![d].oversize = @ \cup {k}]
        /\ Mishap \/ bound' = bound
  BY DEF Upload, UploadRefused, UploadTooLarge
<1>3. /\ session' = session /\ torn' = torn /\ skipped' = skipped /\ minted' = minted
      /\ run[d].pc = "upload"
      /\ run' = [run EXCEPT ![d].missing = @ \ {k}, ![d].landed = @ /\ landed]
  BY <1>2 DEF Uploaded, history
<1>4. /\ DOMAIN run' = Devices /\ RunType(run'[d]) /\ \A e \in Devices \ {d} : run'[e] = run[e]
      /\ run'[d].pc = "upload" /\ run'[d].missing = run[d].missing \ {k}
      /\ run'[d].landed = (run[d].landed /\ landed)
      /\ run'[d].forced = run[d].forced /\ run'[d].pulled = run[d].pulled
      /\ run'[d].answers = run[d].answers
  <2> DEFINE missing == run[d].missing \ {k}
             all == run[d].landed /\ landed
  <2>0. missing \in SUBSET BlobKeys /\ all \in BOOLEAN
    BY <1>1 DEF RunType, Run
  <2>1. PICK r : r = [run[d] EXCEPT !.missing = missing, !.landed = all]
    OBVIOUS
  <2>3. run' = [run EXCEPT ![d] = r]
    BY <1>3, <2>1
  <2> HIDE DEF missing, all
  <2>2. /\ r \in Run(DOMAIN run[d].answers) /\ r.answers = run[d].answers /\ r.pc = run[d].pc
        /\ r.missing = missing /\ r.landed = all /\ r.forced = run[d].forced
        /\ r.pulled = run[d].pulled
    BY <1>1, <2>0, <2>1 DEF RunType, Run
  <2>4. DOMAIN run' = Devices /\ run'[d] = r /\ \A e \in Devices \ {d} : run'[e] = run[e]
    BY <1>1, <2>3
  <2>5. RunType(r)
    BY <1>1, <2>2 DEF RunType
  <2> QED BY <1>3, <2>2, <2>4, <2>5 DEF missing, all
<1>5. /\ server' \in Server /\ server'.rev = server.rev /\ server'.content = server.content
      /\ server'.head = server.head /\ server'.epoch = server.epoch
      /\ server'.stale = server.stale /\ server.objects \subseteq server'.objects
  BY <1>1, <1>2 DEF Server
<1>6. /\ db' \in [Devices -> Database] /\ \A e \in Devices \ {d} : db'[e] = db[e]
      /\ db'[d].row = db[d].row /\ db'[d].meta = db[d].meta /\ db'[d].outbox = db[d].outbox
      /\ db'[d].dead = db[d].dead /\ db'[d].watermark = db[d].watermark
      /\ db'[d].bytes = db[d].bytes /\ db'[d].epoch = db[d].epoch /\ db'[d].asked = db[d].asked
      /\ db'[d].puts = db[d].puts
      /\ \/ db'[d].oversize = db[d].oversize /\ k \in server'.objects
         \/ db'[d].oversize = db[d].oversize /\ landed = FALSE
         \/ db'[d].oversize = db[d].oversize \cup {k}
  <2>1. CASE db' = db /\ (k \in server'.objects \/ landed = FALSE)
    BY <1>1, <2>1
  <2>3. server' = [server EXCEPT !.objects = @ \cup {k}] => k \in server'.objects
    BY <1>1 DEF Server
  <2>2. CASE db' = [db EXCEPT ![d].oversize = @ \cup {k}]
    <3>1. PICK over : over = db[d].oversize \cup {k}
      OBVIOUS
    <3>2. PICK s : s = [db[d] EXCEPT !.oversize = over]
      OBVIOUS
    <3>3. over \in SUBSET BlobKeys
      BY <1>1, <3>1 DEF Database
    <3>4. /\ s \in Database
          /\ s.row = db[d].row /\ s.meta = db[d].meta /\ s.outbox = db[d].outbox
          /\ s.dead = db[d].dead /\ s.watermark = db[d].watermark
          /\ s.bytes = db[d].bytes /\ s.epoch = db[d].epoch /\ s.asked = db[d].asked
          /\ s.puts = db[d].puts /\ s.oversize = over
      BY <1>1, <3>2, <3>3 DEF Database
    <3>5. db' = [db EXCEPT ![d] = s]
      BY <2>2, <3>1, <3>2
    <3> QED BY <1>1, <3>1, <3>4, <3>5
  <2> QED BY <1>2, <2>1, <2>2, <2>3
<1>7. Quiet(d)
  <2>1. skipped' \subseteq Devices
    BY <1>3 DEF IndInv, TypeOK
  <2> QED BY <1>1, <1>2, <1>3, <1>4, <1>5, <1>6, <2>1, BoundsKept DEF Quiet
<1>8. ByteStep(d)
  BY <1>3, <1>4, <1>6, <1>7 DEF ByteStep
<1>9. /\ Candidates(db[d])' \subseteq Candidates(db[d])
      /\ k \in Candidates(db[d])' => k \in server'.objects \/ landed = FALSE
  BY <1>6 DEF Candidates
<1>10. BytesInv(d)'
  <2>1. InEpoch(d)' <=> InEpoch(d)
    BY <1>5, <1>6 DEF InEpoch
  <2>2. landed /\ Stored(d) => Stored(d)'
    BY <1>4, <1>5, <1>6, <1>9 DEF Stored
  <2>3. BytesInv(d)
    BY <1>1 DEF DeviceInv
  <2>4. run'[d].landed => run[d].landed /\ landed
    BY <1>4
  <2> QED BY <1>3, <1>4, <1>5, <1>6, <1>9, <2>1, <2>2, <2>3, <2>4 DEF BytesInv
<1> QED BY <1>8, <1>10, ByteStepKeeps

(* All that was missing has been tried.                                      *)
LEMMA EndUploadsKeeps ==
  ASSUME IndInv, NEW d \in Devices, EndUploads(d)
  PROVE  IndInv'
<1>1. /\ server \in Server /\ db \in [Devices -> Database] /\ RunType(run[d])
      /\ session \in [Devices -> Session] /\ DeviceInv(d) /\ DOMAIN run = Devices
  BY DeviceFacts
<1>2. /\ server' = server /\ db' = db /\ session' = session /\ torn' = torn
      /\ skipped' = skipped /\ minted' = minted /\ bound' = bound
      /\ run[d].pc = "upload" /\ run[d].missing = {}
      /\ run' = [run EXCEPT ![d].pc = AfterBlobs(d)] /\ AfterBlobs(d) \in Phases \ {"upload"}
  BY DEF EndUploads, Unmoved, history, AfterBlobs, Phases
<1>3. /\ DOMAIN run' = Devices /\ RunType(run'[d]) /\ \A e \in Devices \ {d} : run'[e] = run[e]
      /\ run'[d].pc = AfterBlobs(d) /\ run'[d].missing = {} /\ run'[d].landed = run[d].landed
      /\ run'[d].forced = run[d].forced /\ run'[d].pulled = run[d].pulled
      /\ run'[d].answers = run[d].answers
  <2>1. PICK r : r = [run[d] EXCEPT !.pc = AfterBlobs(d)]
    OBVIOUS
  <2>2. /\ r \in Run(DOMAIN run[d].answers) /\ r.answers = run[d].answers /\ r.pc = AfterBlobs(d)
        /\ r.missing = run[d].missing /\ r.landed = run[d].landed /\ r.forced = run[d].forced
        /\ r.pulled = run[d].pulled
    BY <1>1, <1>2, <2>1 DEF RunType, Run
  <2>3. run' = [run EXCEPT ![d] = r]
    BY <1>2, <2>1
  <2>4. DOMAIN run' = Devices /\ run'[d] = r /\ \A e \in Devices \ {d} : run'[e] = run[e]
    BY <1>1, <2>3
  <2>5. RunType(r)
    BY <1>1, <2>2 DEF RunType
  <2> QED BY <1>2, <2>2, <2>4, <2>5
<1>4. Quiet(d)
  <2>1. skipped' \subseteq Devices
    BY <1>2 DEF IndInv, TypeOK
  <2> QED BY <1>1, <1>2, <1>3, <2>1, BoundsKept DEF Quiet
<1>5. ByteStep(d)
  BY <1>2, <1>3, <1>4 DEF ByteStep
<1>6. BytesInv(d)'
  <2>1. InEpoch(d)' <=> InEpoch(d)
    BY <1>2 DEF InEpoch
  <2>2. Stored(d)' <=> Stored(d)
    BY <1>2, <1>3 DEF Stored
  <2>3. BytesInv(d)
    BY <1>1 DEF DeviceInv
  <2> QED BY <1>2, <1>3, <2>1, <2>2, <2>3 DEF BytesInv
<1> QED BY <1>5, <1>6, ByteStepKeeps

(* The last step of a recovery: whoever is in the epoch now has the log of the     *)
(* epoch.                                                                   *)
LEMMA PersistKeeps ==
  ASSUME IndInv, NEW d \in Devices, Persist(d)
  PROVE  IndInv'
<1>1. /\ server \in Server /\ db \in [Devices -> Database] /\ RunType(run[d])
      /\ session \in [Devices -> Session] /\ DeviceInv(d) /\ DOMAIN run = Devices
      /\ db[d] \in Database
  BY DeviceFacts
<1>2. /\ server' = server /\ session' = session /\ torn' = torn
      /\ skipped' = skipped /\ minted' = minted /\ bound' = bound
      /\ run[d].pc = "persist" /\ run' = [run EXCEPT ![d] = Idle]
      /\ db' = [db EXCEPT ![d].epoch = Adopted(d)]
  BY DEF Persist, Unmoved, history
<1>3. Adopted(d) \in Nat /\ server.epoch \in Nat /\ Adopted(d) <= server.epoch
  BY <1>1 DEF Adopted, RunType, Run, Database, Server, DeviceInv, EpochInv
<1>4. PICK s : s = [db[d] EXCEPT !.epoch = Adopted(d)]
  OBVIOUS
<1>5. /\ s \in Database /\ s.row = db[d].row /\ s.meta = db[d].meta /\ s.outbox = db[d].outbox
      /\ s.dead = db[d].dead /\ s.watermark = db[d].watermark /\ s.bytes = db[d].bytes
      /\ s.puts = db[d].puts /\ s.oversize = db[d].oversize
      /\ s.epoch = Adopted(d) /\ s.asked = db[d].asked
  BY <1>1, <1>3, <1>4 DEF Database
<1>6. db' = [db EXCEPT ![d] = s]
  BY <1>2, <1>4
<1>7. /\ db' \in [Devices -> Database] /\ db'[d] = s /\ \A e \in Devices \ {d} : db'[e] = db[e]
      /\ DOMAIN run' = Devices /\ run'[d] = Idle /\ \A e \in Devices \ {d} : run'[e] = run[e]
  BY <1>1, <1>2, <1>5, <1>6
<1>8. Quiet(d)
  <2>1. skipped' \subseteq Devices
    BY <1>2 DEF IndInv, TypeOK
  <2> QED BY <1>1, <1>2, <1>5, <1>7, <2>1, IdleIs, BoundsKept DEF Quiet
<1>9. Recovering(d) /\ ~run[d].forced /\ ~session[d].paused /\ run[d].missing = {}
  BY <1>1, <1>2 DEF DeviceInv, RunInv, Recovering, Phases
<1>10. InEpoch(d)' /\ d \notin torn =>
         run[d].landed /\ ~server.stale /\ run[d].pulled = server.epoch
  <2>1. SUFFICES ASSUME InEpoch(d)', d \notin torn
                 PROVE  run[d].landed /\ ~server.stale /\ run[d].pulled = server.epoch
    OBVIOUS
  <2>2. ~server.stale /\ Adopted(d) = server.epoch
    BY <1>2, <1>5, <1>7, <2>1 DEF InEpoch
  <2>3. ~InEpoch(d)
    BY <1>1, <1>9, <2>1 DEF DeviceInv, EpochInv
  <2>4. run[d].landed
    BY <2>2, <2>3 DEF Adopted, InEpoch
  <2> QED BY <2>2, <2>4 DEF Adopted
<1>11. ~Recovering(d)'
  BY <1>7, IdleIs DEF Recovering
<1>12. Aligned(d)' => Aligned(d)
  BY <1>2, <1>9, <1>10, <1>11 DEF Aligned
<1>13. \A k \in Keys : ~ToPush(d, k)
  BY <1>2 DEF ToPush
<1>14. RunInv(d)'
  BY <1>7, IdleIs DEF RunInv
<1>15. EpochInv(d)'
  <2>1. (db[d].epoch <= server.epoch /\ run[d].pulled <= server.epoch /\ run[d].pc # "ack")'
    BY <1>2, <1>3, <1>5, <1>7, IdleIs
  <2> QED BY <1>2, <1>9, <1>11, <2>1 DEF EpochInv
<1>16. BytesInv(d)'
  <2>1. Candidates(db[d])' = Candidates(db[d])
    BY <1>5, <1>7 DEF Candidates
  <2>2. d \notin torn \cup skipped /\ InEpoch(d)' /\ ~db[d].asked => Stored(d)
    BY <1>1, <1>2, <1>9, <1>10 DEF DeviceInv, BytesInv
  <2>3. d \notin torn \cup skipped /\ InEpoch(d)' /\ ~db[d].asked =>
          (Candidates(db[d]) \ db[d].puts \subseteq server.objects)'
    BY <1>2, <1>5, <1>7, <1>9, <2>1, <2>2 DEF Stored
  <2> QED BY <1>2, <1>5, <1>7, <2>3, IdleIs DEF BytesInv
<1> QED BY <1>8, <1>12, <1>13, <1>14, <1>15, <1>16, QuietStep

(* The question is put away.                                                   *)
LEMMA ConfirmedKeeps ==
  ASSUME IndInv, NEW d \in Devices, Confirmed(d)
  PROVE  IndInv'
<1>1. /\ server \in Server /\ db \in [Devices -> Database] /\ RunType(run[d])
      /\ session \in [Devices -> Session] /\ DeviceInv(d) /\ DOMAIN run = Devices
      /\ db[d] \in Database
  BY DeviceFacts
<1>2. /\ server' = server /\ session' = session /\ torn' = torn
      /\ skipped' = skipped /\ minted' = minted /\ bound' = bound
      /\ run[d].pc = "confirmed" /\ run' = [run EXCEPT ![d] = Idle]
      /\ db' = [db EXCEPT ![d].asked = @ /\ ~run[d].landed]
  BY DEF Confirmed, Unmoved, history
<1>3. PICK asked : asked = (db[d].asked /\ ~run[d].landed)
  OBVIOUS
<1>4. PICK s : s = [db[d] EXCEPT !.asked = asked]
  OBVIOUS
<1>5. asked \in BOOLEAN
  BY <1>3
<1>6. /\ s \in Database /\ s.row = db[d].row /\ s.meta = db[d].meta /\ s.outbox = db[d].outbox
      /\ s.dead = db[d].dead /\ s.watermark = db[d].watermark /\ s.bytes = db[d].bytes
      /\ s.puts = db[d].puts /\ s.oversize = db[d].oversize
      /\ s.epoch = db[d].epoch /\ s.asked = asked
  BY <1>1, <1>4, <1>5 DEF Database
<1>7. db' = [db EXCEPT ![d] = s]
  BY <1>2, <1>3, <1>4
<1>8. /\ db' \in [Devices -> Database] /\ db'[d] = s /\ \A e \in Devices \ {d} : db'[e] = db[e]
      /\ DOMAIN run' = Devices /\ run'[d] = Idle /\ \A e \in Devices \ {d} : run'[e] = run[e]
  BY <1>1, <1>2, <1>6, <1>7
<1>9. Quiet(d)
  <2>1. skipped' \subseteq Devices
    BY <1>2 DEF IndInv, TypeOK
  <2> QED BY <1>1, <1>2, <1>6, <1>8, <2>1, IdleIs, BoundsKept DEF Quiet
<1>10. run[d].forced /\ db[d].asked /\ run[d].missing = {}
  BY <1>1, <1>2 DEF DeviceInv, RunInv
<1>11. ~Recovering(d)' /\ ~Recovering(d) /\ (InEpoch(d)' <=> InEpoch(d))
  BY <1>2, <1>6, <1>8, IdleIs DEF Recovering, InEpoch
<1>12. Aligned(d)' => Aligned(d)
  BY <1>2, <1>11 DEF Aligned
<1>13. RunInv(d)'
  BY <1>8, IdleIs DEF RunInv
<1>14. EpochInv(d)'
  <2>1. server.epoch \in Nat
    BY <1>1 DEF Server
  <2>2. (db[d].epoch <= server.epoch /\ run[d].pulled <= server.epoch /\ run[d].pc # "ack")'
    BY <1>1, <1>2, <1>6, <1>8, <2>1, IdleIs DEF DeviceInv, EpochInv
  <2> QED BY <1>1, <1>2, <1>11, <2>2 DEF DeviceInv, EpochInv
<1>15. BytesInv(d)'
  <2>1. Candidates(db[d])' = Candidates(db[d])
    BY <1>6, <1>8 DEF Candidates
  <2>2. ~asked => run[d].landed
    BY <1>3, <1>10
  <2>3. d \notin torn \cup skipped /\ InEpoch(d) /\ ~asked => Stored(d)
    BY <1>1, <1>2, <1>10, <2>2 DEF DeviceInv, BytesInv
  <2>4. d \notin torn \cup skipped /\ InEpoch(d) /\ ~asked =>
          (Candidates(db[d]) \ db[d].puts \subseteq server.objects)'
    BY <1>2, <1>6, <1>8, <1>10, <2>1, <2>3 DEF Stored
  <2> QED BY <1>2, <1>6, <1>8, <1>11, <2>4, IdleIs DEF BytesInv
<1> QED BY <1>9, <1>11, <1>12, <1>13, <1>14, <1>15, QuietStep DEF ToPush

(* A queued upload lands.                                                      *)
LEMMA PutBlobKeeps ==
  ASSUME IndInv, NEW d \in Devices, NEW k \in BlobKeys, PutBlob(d, k)
  PROVE  IndInv'
<1>1. /\ server \in Server /\ db \in [Devices -> Database] /\ RunType(run[d])
      /\ session \in [Devices -> Session] /\ DeviceInv(d) /\ DOMAIN run = Devices
      /\ db[d] \in Database
  BY DeviceFacts
<1>2. /\ server' = [server EXCEPT !.objects = @ \cup {k}]
      /\ run' = run /\ session' = session /\ torn' = torn
      /\ skipped' = skipped /\ minted' = minted /\ bound' = bound
      /\ db' = [db EXCEPT ![d].puts = @ \ {k}]
  BY DEF PutBlob, history
<1>3. PICK puts : puts = db[d].puts \ {k}
  OBVIOUS
<1>4. PICK s : s = [db[d] EXCEPT !.puts = puts]
  OBVIOUS
<1>5. puts \in SUBSET BlobKeys
  BY <1>1, <1>3 DEF Database
<1>6. /\ s \in Database /\ s.row = db[d].row /\ s.meta = db[d].meta /\ s.outbox = db[d].outbox
      /\ s.dead = db[d].dead /\ s.watermark = db[d].watermark /\ s.bytes = db[d].bytes
      /\ s.puts = puts /\ s.oversize = db[d].oversize
      /\ s.epoch = db[d].epoch /\ s.asked = db[d].asked
  BY <1>1, <1>4, <1>5 DEF Database
<1>7. db' = [db EXCEPT ![d] = s]
  BY <1>2, <1>3, <1>4
<1>8. /\ db' \in [Devices -> Database] /\ db'[d] = s /\ \A e \in Devices \ {d} : db'[e] = db[e]
  BY <1>1, <1>6, <1>7
<1>9. /\ server' \in Server /\ server'.rev = server.rev /\ server'.content = server.content
      /\ server'.head = server.head /\ server'.epoch = server.epoch
      /\ server'.stale = server.stale /\ server'.objects = server.objects \cup {k}
  BY <1>1, <1>2 DEF Server
<1>10. Quiet(d)
  <2>1. skipped' \subseteq Devices
    BY <1>2 DEF IndInv, TypeOK
  <2> QED BY <1>1, <1>2, <1>6, <1>8, <1>9, <2>1, BoundsKept DEF Quiet
<1>11. /\ Recovering(d)' <=> Recovering(d)
       /\ InEpoch(d)' <=> InEpoch(d)
  BY <1>2, <1>6, <1>8, <1>9 DEF Recovering, InEpoch
<1>12. /\ Aligned(d)' => Aligned(d)
       /\ \A j \in Keys : ToPush(d, j) => ToPush(d, j)'
  BY <1>2, <1>9, <1>11 DEF Aligned, ToPush
<1>13. RunInv(d)' /\ EpochInv(d)'
  BY ZenonT(60), <1>1, <1>2, <1>6, <1>8, <1>9, <1>11 DEF DeviceInv, RunInv, EpochInv
<1>14. BytesInv(d)'
  <2>1. Candidates(db[d])' = Candidates(db[d])
    BY <1>6, <1>8 DEF Candidates
  <2>2. Stored(d) => Stored(d)'
    BY <1>2, <1>3, <1>6, <1>8, <1>9, <2>1 DEF Stored
  <2>3. Candidates(db[d]) \ db[d].puts \subseteq server.objects =>
          (Candidates(db[d]) \ db[d].puts \subseteq server.objects)'
    BY <1>3, <1>6, <1>8, <1>9, <2>1
  <2>4. BytesInv(d)
    BY <1>1 DEF DeviceInv
  <2> QED BY <1>2, <1>6, <1>8, <1>9, <1>11, <2>2, <2>3, <2>4 DEF BytesInv
<1> QED BY <1>10, <1>12, <1>13, <1>14, QuietStep

(* The steps of the bytes together.                                          *)
LEMMA BlobsKeep ==
  ASSUME IndInv, NEW d \in Devices, Blobs(d)
  PROVE  IndInv'
BY InventoryKeeps, NoInventoryKeeps, AskKeeps, PutBlobKeeps, UploadKeeps DEF Blobs

(* A change of the user's: one row, its bytes, and an entry in the outbox.        *)
LEMMA ChangeKeeps ==
  ASSUME IndInv, NEW d \in Devices, NEW j \in Keys, NEW op \in {"upsert", "delete"},
         NEW s, s \in Database, db' = [db EXCEPT ![d] = s],
         s.outbox = Queued(db[d], run[d], {j}, op),
         \A k \in Keys \ {j} : s.row[k] = db[d].row[k],
         \A k \in Keys : Tidy(s, k),
         Due(s) \subseteq Due(db[d]),
         s.meta = db[d].meta, s.dead = db[d].dead, s.watermark = db[d].watermark,
         s.epoch = db[d].epoch, s.asked = db[d].asked,
         server' = server, run' = run, session' = session, torn' = torn, skipped' = skipped,
         minted' \subseteq Contents, Mishap \/ bound' = bound
  PROVE  IndInv'
<1>1. /\ server \in Server /\ ServerInv /\ db \in [Devices -> Database] /\ RunType(run[d])
      /\ session \in [Devices -> Session] /\ DeviceInv(d) /\ DOMAIN run = Devices
      /\ db[d] \in Database /\ IsFiniteSet(db[d].outbox) /\ Answers(run[d].answers)
      /\ \A k \in Keys : Tidy(db[d], k) /\ Awaited(db[d], run[d].answers, k)
  BY DeviceFacts
<1>2. db'[d] = s /\ db' \in [Devices -> Database] /\ \A e \in Devices \ {d} : db'[e] = db[e]
  BY <1>1
<1>3. StepOf(d)
  <2>1. ServerInv' /\ Grows
    BY <1>1 DEF ServerInv, Grows, Server
  <2>2. torn' \subseteq Devices /\ skipped' \subseteq Devices
    BY DEF IndInv, TypeOK
  <2> QED BY <1>1, <1>2, <2>1, <2>2, BoundsKept DEF StepOf
<1>4. {j} \in SUBSET Keys
  OBVIOUS
<1>5. ASSUME NEW k \in Keys
      PROVE  /\ Pending(db[d], k) \subseteq Pending(s, k)
             /\ k = j => \E e \in Pending(s, k) :
                  k \in DOMAIN run[d].answers => e.seq \notin run[d].answers[k].seqs
             /\ Awaited(s, run[d].answers, k)
  <2>1. /\ Pending(db[d], k) \subseteq Pending(s, k)
        /\ k \in {j} => \E e \in Pending(s, k) :
             e.op = op /\ (k \in DOMAIN run[d].answers => e.seq \notin run[d].answers[k].seqs)
        /\ Awaited(db[d], run[d].answers, k) => Awaited(s, run[d].answers, k)
    BY <1>1, <1>4, PendingQueued
  <2> QED BY <1>1, <2>1
<1>6. /\ Recovering(d)' <=> Recovering(d)
      /\ InEpoch(d)' <=> InEpoch(d)
  BY <1>2 DEF Recovering, InEpoch
<1>7. RunInv(d)'
  BY ZenonT(60), <1>1, <1>2 DEF DeviceInv, RunInv
<1>8. EpochInv(d)'
  BY <1>1, <1>2, <1>6 DEF DeviceInv, EpochInv
<1>9. QueueInv(d)'
  <2>1. IsFiniteSet(s.outbox)
    BY <1>1, <1>4, QueuedFacts
  <2>2. \A k \in Keys : (Tidy(db[d], k) /\ Awaited(db[d], run[d].answers, k))'
    BY <1>2, <1>5
  <2> QED BY <1>2, <2>1, <2>2 DEF QueueInv
<1>10. KnowInv(d)'
  <2>1. SUFFICES ASSUME Aligned(d)' PROVE KnowInv(d)'
    BY DEF KnowInv
  <2>2. Aligned(d)
    BY <1>6, <2>1 DEF Aligned
  <2>3. /\ db[d].watermark <= server.head
        /\ \A k \in Keys : /\ Knows(db[d], k)
                           /\ Holds(db[d], k) \/ (server.rev[k] = 0 /\ ToPush(d, k))
                           /\ Accepted(db[d], run[d].answers, k)
    BY <1>1, <2>2 DEF DeviceInv, KnowInv
  <2>4. ASSUME NEW k \in Keys
        PROVE  /\ Knows(s, k)
               /\ Holds(db[d], k) => Holds(s, k)
               /\ Accepted(s, run[d].answers, k)
    <3>1. Knows(s, k)
      BY <2>3 DEF Knows
    <3>2. CASE k = j
      BY <1>5, <2>3, <3>1, <3>2 DEF Holds, Accepted
    <3>3. CASE k # j
      <4>1. s.row[k] = db[d].row[k]
        BY <3>3
      <4>2. Holds(db[d], k) => Holds(s, k)
        BY <1>5, <4>1 DEF Holds
      <4>3. Accepted(s, run[d].answers, k)
        BY <1>5, <2>3, <4>1 DEF Accepted
      <4> QED BY <3>1, <4>2, <4>3
    <3> QED BY <3>2, <3>3
  <2>5. \A k \in Keys : /\ Knows(db[d], k)' /\ (Holds(db[d], k) => Holds(db[d], k)')
                        /\ Accepted(db[d], run[d].answers, k)'
    BY <1>2, <2>4 DEF Knows, Holds, Accepted
  <2>6. \A k \in Keys : (server.rev[k] = 0 /\ ToPush(d, k)) => (server.rev[k] = 0 /\ ToPush(d, k))'
    BY <1>6 DEF ToPush
  <2>7. (db[d].watermark <= server.head)'
    BY <1>2, <2>3
  <2> QED BY <2>3, <2>5, <2>6, <2>7 DEF KnowInv
<1>11. BytesInv(d)'
  BY <1>1, <1>2, <1>6 DEF DeviceInv, BytesInv, Stored, Due
<1> QED BY <1>3, <1>7, <1>8, <1>9, <1>10, <1>11, StepKeeps DEF DeviceInv

(* A row is written, and queued.                                             *)
LEMMA WriteKeeps ==
  ASSUME IndInv, NEW d \in Devices, NEW k \in Keys, NEW c \in Contents, NEW base,
         base \in Database, Write(d, k, c, base),
         base.row = db[d].row, base.meta = db[d].meta, base.outbox = db[d].outbox,
         base.dead = db[d].dead, base.watermark = db[d].watermark, base.epoch = db[d].epoch,
         base.asked = db[d].asked, base.oversize = db[d].oversize,
         ~PendingDelete(db[d], k),
         db[d].row[k] # Nothing => base.bytes = db[d].bytes /\ base.puts = db[d].puts,
         db[d].row[k] = Nothing =>
           /\ base.bytes = db[d].bytes \cup ({k} \cap BlobKeys)
           /\ base.puts = db[d].puts \cup ({k} \cap BlobKeys),
         server' = server, run' = run, session' = session, torn' = torn, skipped' = skipped,
         bound' = bound
  PROVE  IndInv'
<1>1. /\ server \in Server /\ db \in [Devices -> Database] /\ RunType(run[d])
      /\ db[d] \in Database /\ IsFiniteSet(db[d].outbox) /\ Answers(run[d].answers)
      /\ \A j \in Keys : Tidy(db[d], j) /\ Awaited(db[d], run[d].answers, j)
  BY DeviceFacts
<1>2. c # Nothing
  BY DEF Contents, Nothing
<1> DEFINE outbox == Queued(base, run[d], {k}, "upsert")
           row == [base.row EXCEPT ![k] = c]
<1>3. outbox = Queued(db[d], run[d], {k}, "upsert")
  BY DEF Queued, FreshSeq, Pending
<1>4. outbox \in SUBSET Entry
  BY <1>1, <1>3, QueuedFacts
<1>5. row \in [Keys -> Contents \cup {Nothing}] /\ row[k] = c
      /\ \A j \in Keys \ {k} : row[j] = db[d].row[j]
  BY <1>1 DEF Database
<1>6. PICK s : s = [base EXCEPT !.row = row, !.outbox = outbox]
  OBVIOUS
<1>7. db' = [db EXCEPT ![d] = s] /\ minted' = minted \cup {c}
  BY <1>6 DEF Write
<1> HIDE DEF row, outbox
<1>8. /\ s \in Database /\ s.row = row /\ s.outbox = outbox /\ s.bytes = base.bytes
      /\ s.puts = base.puts /\ s.meta = db[d].meta /\ s.dead = db[d].dead
      /\ s.watermark = db[d].watermark /\ s.epoch = db[d].epoch /\ s.asked = db[d].asked
      /\ s.oversize = db[d].oversize
  BY <1>4, <1>5, <1>6 DEF Database
<1>9. ASSUME NEW j \in Keys PROVE Tidy(s, j)
  <2>1. s.outbox = Queued(db[d], run[d], {k}, "upsert")
    BY <1>3, <1>8
  <2>2. {k} \in SUBSET Keys
    OBVIOUS
  <2>3. s.row[j] = db[d].row[j] \/ (s.row[j] # Nothing /\ ~PendingDelete(db[d], j))
    BY <1>2, <1>5, <1>8
  <2>4. s.row[j] = Nothing => j \notin s.bytes
    <3>1. SUFFICES ASSUME s.row[j] = Nothing PROVE j \notin s.bytes
      OBVIOUS
    <3>2. j # k /\ db[d].row[j] = Nothing
      BY <1>2, <1>5, <1>8, <3>1
    <3>3. j \notin db[d].bytes
      BY <1>1, <3>2 DEF Tidy
    <3> QED BY <1>8, <3>2, <3>3
  <2>5. j \in {k} => s.row[j] # Nothing
    BY <1>2, <1>5, <1>8
  <2> QED BY <1>1, <1>8, <2>1, <2>2, <2>3, <2>4, <2>5, TidyQueued
<1>10. Due(s) \subseteq Due(db[d])
  <2>1. SUFFICES ASSUME NEW j \in Due(s) PROVE j \in Due(db[d])
    OBVIOUS
  <2>2. j \in BlobKeys /\ j \in Keys
    BY <1>8, RecoveryAssumption DEF Due, Candidates, Database
  <2>3. CASE j = k /\ db[d].row[k] = Nothing
    BY <1>8, <2>1, <2>2, <2>3 DEF Due, Candidates
  <2>4. CASE j = k /\ db[d].row[k] # Nothing
    BY <1>8, <2>1, <2>2, <2>4 DEF Due, Candidates
  <2>5. CASE j # k
    BY <1>5, <1>8, <2>1, <2>2, <2>5 DEF Due, Candidates
  <2> QED BY <2>3, <2>4, <2>5
<1>11. minted' \subseteq Contents
  BY <1>7 DEF IndInv, TypeOK
<1>12. s.outbox = Queued(db[d], run[d], {k}, "upsert")
       /\ \A j \in Keys \ {k} : s.row[j] = db[d].row[j]
  BY <1>3, <1>5, <1>8
<1> QED BY <1>7, <1>8, <1>9, <1>10, <1>11, <1>12, ChangeKeeps

(* A row is edited.                                                          *)
LEMMA EditKeeps ==
  ASSUME IndInv, NEW d \in Devices, NEW k \in Keys, Edit(d, k)
  PROVE  IndInv'
<1>1. PICK c \in Contents : Write(d, k, c, db[d])
  BY DEF Edit
<1>2. db[d] \in Database /\ ~PendingDelete(db[d], k) /\ db[d].row[k] # Nothing
  BY DeviceFacts DEF Edit, Tidy
<1>3. /\ server' = server /\ run' = run /\ session' = session /\ torn' = torn
      /\ skipped' = skipped /\ bound' = bound
  BY <1>1 DEF Write, history
<1> QED BY <1>1, <1>2, <1>3, WriteKeeps

(* A row is created under a key no one has used.                             *)
LEMMA CreateKeeps ==
  ASSUME IndInv, NEW d \in Devices, NEW k \in Keys, Create(d, k)
  PROVE  IndInv'
<1>1. PICK c \in Contents :
        Write(d, k, c, [db[d] EXCEPT !.bytes = @ \cup ({k} \cap BlobKeys),
                                     !.puts = @ \cup ({k} \cap BlobKeys)])
  BY DEF Create
<1>2. db[d] \in Database /\ ~PendingDelete(db[d], k) /\ db[d].row[k] = Nothing
  BY DeviceFacts DEF Create, PendingDelete
<1> DEFINE bytes == db[d].bytes \cup ({k} \cap BlobKeys)
           puts == db[d].puts \cup ({k} \cap BlobKeys)
<1>3. bytes \in SUBSET BlobKeys /\ puts \in SUBSET BlobKeys
  BY <1>2 DEF Database
<1>4. PICK base : base = [db[d] EXCEPT !.bytes = bytes, !.puts = puts]
  OBVIOUS
<1>5. Write(d, k, c, base)
  BY <1>1, <1>4
<1> HIDE DEF bytes, puts
<1>6. /\ base \in Database /\ base.row = db[d].row /\ base.meta = db[d].meta
      /\ base.outbox = db[d].outbox
      /\ base.dead = db[d].dead /\ base.watermark = db[d].watermark /\ base.epoch = db[d].epoch
      /\ base.asked = db[d].asked /\ base.oversize = db[d].oversize
      /\ base.bytes = bytes /\ base.puts = puts
  BY <1>2, <1>3, <1>4 DEF Database
<1>7. /\ base.bytes = db[d].bytes \cup ({k} \cap BlobKeys)
      /\ base.puts = db[d].puts \cup ({k} \cap BlobKeys)
  BY <1>6 DEF bytes, puts
<1>8. /\ server' = server /\ run' = run /\ session' = session /\ torn' = torn
      /\ skipped' = skipped /\ bound' = bound
  BY <1>1 DEF Write, history
<1> QED BY <1>2, <1>5, <1>6, <1>7, <1>8, WriteKeeps

(* A row is deleted, and its deletion queued.                                *)
LEMMA DeleteKeeps ==
  ASSUME IndInv, NEW d \in Devices, NEW k \in Keys, Delete(d, k)
  PROVE  IndInv'
<1>1. /\ db \in [Devices -> Database]
      /\ db[d] \in Database /\ IsFiniteSet(db[d].outbox) /\ Answers(run[d].answers)
      /\ \A j \in Keys : Tidy(db[d], j)
  BY DeviceFacts
<1> DEFINE outbox == Queued(db[d], run[d], {k}, "delete")
           row == [db[d].row EXCEPT ![k] = Nothing]
           bytes == db[d].bytes \ {k}
           puts == db[d].puts \ {k}
<1>2. outbox \in SUBSET Entry
  <2>1. {k} \in SUBSET Keys
    OBVIOUS
  <2> QED BY <1>1, <2>1, QueuedFacts
<1>3. row \in [Keys -> Contents \cup {Nothing}]
      /\ \A j \in Keys : row[j] = IF j = k THEN Nothing ELSE db[d].row[j]
  BY <1>1 DEF Database
<1>4. bytes \in SUBSET BlobKeys /\ puts \in SUBSET BlobKeys
  BY <1>1 DEF Database
<1>5. PICK s : s = [db[d] EXCEPT !.row = row, !.bytes = bytes, !.puts = puts, !.outbox = outbox]
  OBVIOUS
<1>6. db' = [db EXCEPT ![d] = s] /\ minted' = minted /\ Mishap
      /\ server' = server /\ run' = run /\ session' = session /\ torn' = torn
      /\ skipped' = skipped
  BY <1>1, <1>5 DEF Delete, history
<1>7. bytes = db[d].bytes \ {k} /\ puts = db[d].puts \ {k}
      /\ outbox = Queued(db[d], run[d], {k}, "delete")
  OBVIOUS
<1> HIDE DEF row, outbox, bytes, puts
<1>8. /\ s \in Database /\ s.row = row /\ s.outbox = outbox /\ s.bytes = bytes
      /\ s.puts = puts /\ s.meta = db[d].meta /\ s.dead = db[d].dead
      /\ s.watermark = db[d].watermark /\ s.epoch = db[d].epoch /\ s.asked = db[d].asked
      /\ s.oversize = db[d].oversize
  BY <1>1, <1>2, <1>3, <1>4, <1>5 DEF Database
<1>9. ASSUME NEW j \in Keys PROVE Tidy(s, j)
  BY <1>1, <1>3, <1>7, <1>8, TidyDeleted
<1>10. Due(s) \subseteq Due(db[d])
  <2>1. SUFFICES ASSUME NEW j \in Due(s) PROVE j \in Due(db[d])
    OBVIOUS
  <2>2. j \in Keys
    BY <1>8, RecoveryAssumption DEF Due, Candidates, Database
  <2> QED BY <1>3, <1>7, <1>8, <2>1, <2>2 DEF Due, Candidates
<1>11. minted' \subseteq Contents
  BY <1>6 DEF IndInv, TypeOK
<1>12. s.outbox = Queued(db[d], run[d], {k}, "delete")
       /\ \A j \in Keys \ {k} : s.row[j] = db[d].row[j]
  BY <1>3, <1>7, <1>8
<1> QED BY <1>6, <1>8, <1>9, <1>10, <1>11, <1>12, ChangeKeeps

(* The steps of the user together.                                           *)
LEMMA UserKeeps ==
  ASSUME IndInv, NEW d \in Devices, User(d)
  PROVE  IndInv'
BY EditKeeps, CreateKeeps, DeleteKeeps, ConfirmKeeps, RetryKeeps DEF User

-----------------------------------------------------------------------------
(* The bases are forgotten: nothing is known, and everything is to be pushed.     *)
LEMMA ClearKeeps ==
  ASSUME IndInv, NEW d \in Devices, Clear(d)
  PROVE  IndInv'
<1>1. /\ server \in Server /\ ServerInv /\ db \in [Devices -> Database] /\ RunType(run[d])
      /\ session \in [Devices -> Session] /\ DeviceInv(d) /\ DOMAIN run = Devices
      /\ db[d] \in Database /\ IsFiniteSet(db[d].outbox)
      /\ \A k \in Keys : Tidy(db[d], k)
  BY DeviceFacts
<1>2. /\ server' = server /\ session' = session /\ minted' = minted /\ bound' = bound
      /\ run[d].pc = "clear" /\ run' = [run EXCEPT ![d].pc = "pull all"]
      /\ db' = [db EXCEPT ![d] = Forgotten(db[d])]
      /\ skipped' = skipped \ {d} /\ torn' = IF InEpoch(d) THEN torn ELSE torn \ {d}
  BY DEF Clear, Unmoved
<1>3. PICK s : s = Forgotten(db[d])
  OBVIOUS
<1>4. /\ s \in Database /\ s.row = db[d].row /\ s.outbox = db[d].outbox /\ s.bytes = db[d].bytes
      /\ s.puts = db[d].puts /\ s.oversize = db[d].oversize /\ s.dead = db[d].dead
      /\ s.epoch = db[d].epoch /\ s.asked = db[d].asked /\ s.watermark = 0
      /\ \A k \in Keys : s.meta[k] = 0
  BY <1>1, <1>3 DEF Forgotten, Database
<1>5. db'[d] = s /\ db' \in [Devices -> Database] /\ \A e \in Devices \ {d} : db'[e] = db[e]
  BY <1>1, <1>2, <1>3, <1>4
<1>6. /\ DOMAIN run[d].answers = {} /\ ~run[d].forced /\ run[d].missing = {}
      /\ run[d].landed /\ ~session[d].paused
  BY <1>1, <1>2 DEF DeviceInv, RunInv, Phases
<1>7. /\ DOMAIN run' = Devices /\ RunType(run'[d]) /\ \A e \in Devices \ {d} : run'[e] = run[e]
      /\ run'[d].pc = "pull all" /\ run'[d].missing = {} /\ run'[d].landed
      /\ ~run'[d].forced /\ run'[d].pulled = run[d].pulled
      /\ run'[d].answers = run[d].answers
  <2>1. PICK r : r = [run[d] EXCEPT !.pc = "pull all"]
    OBVIOUS
  <2>2. /\ r \in Run(DOMAIN run[d].answers) /\ r.answers = run[d].answers /\ r.pc = "pull all"
        /\ r.missing = run[d].missing /\ r.landed = run[d].landed /\ r.forced = run[d].forced
        /\ r.pulled = run[d].pulled
    BY <1>1, <2>1 DEF RunType, Run, Phases
  <2>3. run' = [run EXCEPT ![d] = r]
    BY <1>2, <2>1
  <2>4. DOMAIN run' = Devices /\ run'[d] = r /\ \A e \in Devices \ {d} : run'[e] = run[e]
    BY <1>1, <2>3
  <2>5. RunType(r)
    BY <1>1, <2>2 DEF RunType
  <2> QED BY <1>6, <2>2, <2>4, <2>5
<1>8. StepOf(d)
  <2>1. ServerInv' /\ Grows
    <3>1. server' = server
      BY <1>2
    <3> QED BY <1>1, <3>1 DEF ServerInv, Grows, Server
  <2>2. /\ torn' \subseteq Devices /\ skipped' \subseteq Devices /\ minted' \subseteq Contents
        /\ \A e \in Devices \ {d} : (e \in torn' <=> e \in torn) /\ (e \in skipped' <=> e \in skipped)
    BY <1>2 DEF IndInv, TypeOK
  <2> QED BY <1>1, <1>2, <1>5, <1>7, <2>1, <2>2, BoundsKept DEF StepOf
<1>9. RunInv(d)'
  <2>1. DOMAIN run'[d].answers = {} /\ \A k \in Keys : db'[d].meta[k] = 0
    BY <1>4, <1>5, <1>6, <1>7
  <2> QED BY <1>2, <1>6, <1>7, <2>1 DEF RunInv
<1>10. InEpoch(d)' => d \in torn'
  <2>1. InEpoch(d)' <=> InEpoch(d)
    BY <1>2, <1>4, <1>5 DEF InEpoch
  <2>2. InEpoch(d) => d \in torn
    BY <1>1, <1>2, <1>6 DEF DeviceInv, EpochInv, Recovering, Phases
  <2> QED BY <1>2, <2>1, <2>2
<1>11. EpochInv(d)'
  <2>1. (db[d].epoch <= server.epoch /\ run[d].pulled <= server.epoch /\ run[d].pc # "ack")'
    BY <1>1, <1>2, <1>4, <1>5, <1>7 DEF DeviceInv, EpochInv
  <2> QED BY <1>10, <2>1 DEF EpochInv
<1>12. QueueInv(d)'
  <2>1. \A k \in Keys : Tidy(s, k)
    BY <1>1, <1>4 DEF Tidy, PendingDelete, Pending
  <2>2. \A k \in Keys : Awaited(s, run'[d].answers, k)
    BY <1>6, <1>7 DEF Awaited
  <2> QED BY <1>1, <1>4, <1>5, <2>1, <2>2 DEF QueueInv
<1>13. KnowInv(d)'
  <2>1. \A k \in Keys : server.rev[k] \in Nat /\ server.head \in Nat
    BY <1>1 DEF Server
  <2>2. ASSUME NEW k \in Keys
        PROVE  /\ Knows(s, k) /\ (Holds(s, k) \/ server.rev[k] = 0)
               /\ Accepted(s, run'[d].answers, k)
    <3>1. s.meta[k] = 0 /\ s.watermark = 0 /\ server.rev[k] \in Nat
      BY <1>4, <2>1
    <3>2. k \notin DOMAIN run'[d].answers
      BY <1>6, <1>7
    <3>3. Accepted(s, run'[d].answers, k)
      BY <3>2 DEF Accepted
    <3> QED BY <3>1, <3>3 DEF Knows, Holds
  <2>3. \A k \in Keys : ToPush(d, k)'
    BY <1>7 DEF ToPush, Recovering, Phases
  <2>4. (db[d].watermark <= server.head)'
    <3>1. server.head \in Nat
      BY <1>1 DEF Server
    <3>2. db'[d].watermark = 0 /\ server'.head = server.head
      BY <1>2, <1>4, <1>5
    <3> QED BY <3>1, <3>2
  <2>5. \A k \in Keys : /\ Knows(db[d], k)' /\ (Holds(db[d], k) \/ server.rev[k] = 0)'
                        /\ Accepted(db[d], run[d].answers, k)'
    BY <1>2, <1>5, <2>2 DEF Knows, Holds, Accepted
  <2> QED BY <2>3, <2>4, <2>5 DEF KnowInv
<1>14. BytesInv(d)'
  BY <1>7, <1>10 DEF BytesInv
<1> QED BY <1>8, <1>9, <1>11, <1>12, <1>13, <1>14, StepKeeps DEF DeviceInv

(* The phases in which a recovery that listed the bucket may adopt the epoch.     *)
Stocked == {"upload", "push blobs", "ack blobs", "persist", "confirmed"}

(* A step that takes something in, from a page or from the answers to a push:      *)
(* the account does not change, and the run waits for nothing after it.          *)
LEMMA TakeKeeps ==
  ASSUME IndInv, NEW d \in Devices, NEW t, t \in Database, IsFiniteSet(t.outbox),
         db' = [db EXCEPT ![d] = t],
         \A k \in Keys : Tidy(t, k), Due(t) \subseteq Due(db[d]),
         t.epoch = db[d].epoch, t.asked = db[d].asked,
         server' = server, torn' = torn, skipped' = skipped, minted' = minted, bound' = bound,
         session' \in [Devices -> Session], \A e \in Devices \ {d} : session'[e] = session[e],
         DOMAIN run' = Devices, RunType(run'[d]), \A e \in Devices \ {d} : run'[e] = run[e],
         DOMAIN run'[d].answers = {},
         RunInv(d)', EpochInv(d)',
         Aligned(d)' =>
           /\ t.watermark <= server.head
           /\ \A k \in Keys : Knows(t, k) /\ (Holds(t, k) \/ (server.rev[k] = 0 /\ ToPush(d, k)')),
         run'[d].pc \in Stocked =>
           /\ run[d].pc \in Stocked /\ run'[d].landed = run[d].landed
           /\ run'[d].forced = run[d].forced /\ run'[d].pulled = run[d].pulled
           /\ run'[d].missing = run[d].missing
  PROVE  IndInv'
<1>1. /\ server \in Server /\ ServerInv /\ db \in [Devices -> Database] /\ DeviceInv(d)
  BY DeviceFacts
<1>2. db'[d] = t /\ db' \in [Devices -> Database] /\ \A e \in Devices \ {d} : db'[e] = db[e]
  BY <1>1
<1>3. StepOf(d)
  <2>1. ServerInv' /\ Grows
    BY <1>1 DEF ServerInv, Grows, Server
  <2>2. torn' \subseteq Devices /\ skipped' \subseteq Devices /\ minted' \subseteq Contents
    BY DEF IndInv, TypeOK
  <2> QED BY <1>1, <1>2, <2>1, <2>2, BoundsKept DEF StepOf
<1>4. QueueInv(d)'
  <2>1. \A k \in Keys : Awaited(t, run'[d].answers, k)
    BY DEF Awaited
  <2> QED BY <1>2, <2>1 DEF QueueInv
<1>5. KnowInv(d)'
  <2>1. SUFFICES ASSUME Aligned(d)' PROVE KnowInv(d)'
    BY DEF KnowInv
  <2>2. (db[d].watermark <= server.head)'
    BY <1>2, <2>1
  <2>3. \A k \in Keys : Knows(db[d], k)' /\ (Holds(t, k) => Holds(db[d], k)')
    BY <1>2, <2>1 DEF Knows, Holds
  <2>4. \A k \in Keys : Accepted(db[d], run[d].answers, k)'
    BY DEF Accepted
  <2>5. \A k \in Keys : (Holds(db[d], k) \/ (server.rev[k] = 0 /\ ToPush(d, k)))'
    BY <2>1, <2>3
  <2> QED BY <2>2, <2>3, <2>4, <2>5 DEF KnowInv
<1>6. BytesInv(d)'
  <2>1. InEpoch(d)' <=> InEpoch(d)
    BY <1>2 DEF InEpoch
  <2>2. BytesInv(d)
    BY <1>1 DEF DeviceInv
  <2>3. Candidates(db[d])' = Candidates(t)
    BY <1>2 DEF Candidates
  <2>4. InEpoch(d)' /\ ~t.asked /\ d \notin torn \cup skipped => Due(t) \subseteq server.objects
    BY <2>1, <2>2 DEF BytesInv, Due
  <2>5. SUFFICES ASSUME d \notin torn \cup skipped, run'[d].landed, run'[d].pc \in Stocked,
                        IF run'[d].forced THEN InEpoch(d)'
                        ELSE ~t.asked /\ ~server.stale /\ run'[d].pulled = server.epoch
                 PROVE  Stored(d)'
    BY <1>2, <2>3, <2>4 DEF BytesInv, Due, Stocked
  <2>6. Stored(d)
    BY <2>1, <2>2, <2>5 DEF BytesInv, Stocked
  <2> QED BY <1>2, <2>3, <2>5, <2>6 DEF Stored, Due
<1> QED BY <1>3, <1>4, <1>5, <1>6, StepKeeps DEF DeviceInv

(* What a device takes in from a page or from answers, it had better know.        *)
LEMMA PageTaken ==
  ASSUME IndInv, NEW d \in Devices, NEW t, t = TakenIn(db[d], run[d])
  PROVE  /\ t \in Database /\ IsFiniteSet(t.outbox) /\ \A k \in Keys : Tidy(t, k)
         /\ Due(t) \subseteq Due(db[d]) /\ t.epoch = db[d].epoch /\ t.asked = db[d].asked
         /\ Aligned(d) =>
              /\ t.watermark <= server.head
              /\ \A k \in Keys : Knows(t, k) /\ (Holds(t, k) \/ (server.rev[k] = 0 /\ ToPush(d, k)))
<1>1. /\ server \in Server /\ ServerInv /\ DeviceInv(d)
      /\ db[d] \in Database /\ IsFiniteSet(db[d].outbox) /\ Answers(run[d].answers)
      /\ \A k \in Keys : Tidy(db[d], k)
  BY DeviceFacts
<1>2. /\ t \in Database /\ IsFiniteSet(t.outbox) /\ t.epoch = db[d].epoch /\ t.asked = db[d].asked
      /\ t.watermark = Mark(db[d])
  BY <1>1, TakenFacts
<1>3. \A k \in Keys : Tidy(t, k)
  BY <1>1, TidyTaken
<1>4. Due(t) \subseteq Due(db[d])
  BY <1>1, DueTaken
<1>5. ASSUME Aligned(d)
      PROVE  /\ t.watermark <= server.head
             /\ \A k \in Keys : Knows(t, k) /\ (Holds(t, k) \/ (server.rev[k] = 0 /\ ToPush(d, k)))
  <2>1. /\ db[d].watermark <= server.head
        /\ \A k \in Keys : /\ Knows(db[d], k)
                           /\ Holds(db[d], k) \/ (server.rev[k] = 0 /\ ToPush(d, k))
    BY <1>1, <1>5 DEF DeviceInv, KnowInv
  <2>2. t.watermark <= server.head
    BY <1>1, <1>2, <2>1, PageFacts
  <2>3. \A k \in Keys : Knows(t, k) /\ (Holds(db[d], k) => Holds(t, k))
    BY <1>1, <2>1, HeldTaken
  <2> QED BY <2>1, <2>2, <2>3
<1> QED BY <1>2, <1>3, <1>4, <1>5

(* The same of the answers to a push.                                        *)
LEMMA AnswersTaken ==
  ASSUME IndInv, NEW d \in Devices, NEW t, t = Acknowledged(db[d], run[d].answers)
  PROVE  /\ t \in Database /\ IsFiniteSet(t.outbox) /\ \A k \in Keys : Tidy(t, k)
         /\ Due(t) \subseteq Due(db[d]) /\ t.epoch = db[d].epoch /\ t.asked = db[d].asked
         /\ Aligned(d) =>
              /\ t.watermark <= server.head
              /\ \A k \in Keys : Knows(t, k) /\ (Holds(t, k) \/ (server.rev[k] = 0 /\ ToPush(d, k)))
<1>1. /\ server \in Server /\ DeviceInv(d)
      /\ db[d] \in Database /\ IsFiniteSet(db[d].outbox) /\ Answers(run[d].answers)
      /\ \A k \in Keys : Tidy(db[d], k) /\ Awaited(db[d], run[d].answers, k)
  BY DeviceFacts
<1>2. /\ t \in Database /\ IsFiniteSet(t.outbox) /\ t.epoch = db[d].epoch /\ t.asked = db[d].asked
      /\ t.watermark = db[d].watermark
  BY <1>1, AckFacts
<1>3. \A k \in Keys : Tidy(t, k)
  BY <1>1, TidyAcknowledged
<1>4. Due(t) \subseteq Due(db[d])
  BY <1>1, DueAcknowledged
<1>5. ASSUME Aligned(d)
      PROVE  /\ t.watermark <= server.head
             /\ \A k \in Keys : Knows(t, k) /\ (Holds(t, k) \/ (server.rev[k] = 0 /\ ToPush(d, k)))
  <2>1. /\ db[d].watermark <= server.head
        /\ \A k \in Keys : /\ Knows(db[d], k)
                           /\ Holds(db[d], k) \/ (server.rev[k] = 0 /\ ToPush(d, k))
                           /\ Accepted(db[d], run[d].answers, k)
    BY <1>1, <1>5 DEF DeviceInv, KnowInv
  <2>2. \A k \in Keys : Knows(t, k) /\ (Holds(db[d], k) => Holds(t, k))
    BY <1>1, <2>1, HeldAcknowledged
  <2> QED BY <1>2, <2>1, <2>2
<1> QED BY <1>2, <1>3, <1>4, <1>5

-----------------------------------------------------------------------------
(* A page of the pull from zero.                                             *)
LEMMA PullAllKeeps ==
  ASSUME IndInv, NEW d \in Devices, PullAll(d)
  PROVE  IndInv'
<1>1. /\ server \in Server /\ db \in [Devices -> Database] /\ RunType(run[d])
      /\ session \in [Devices -> Session] /\ DeviceInv(d) /\ DOMAIN run = Devices
      /\ db[d] \in Database
  BY DeviceFacts
<1>2. /\ server' = server /\ session' = session /\ torn' = torn
      /\ skipped' = skipped /\ minted' = minted /\ bound' = bound
      /\ run[d].pc = "pull all"
  BY DEF PullAll, Unmoved, history
<1>3. CASE run' = [run EXCEPT ![d] = Idle] /\ db' = db
  BY <1>1, <1>2, <1>3, EndsKeep
<1>4. CASE /\ db' = [db EXCEPT ![d] = TakenIn(@, run[d])]
           /\ run' = [run EXCEPT ![d].pulled = server.epoch,
                ![d].pc = IF More(db[d]) THEN "pull all" ELSE "push"]
  <2>1. PICK t : t = TakenIn(db[d], run[d])
    OBVIOUS
  <2>2. PICK pc : pc = IF More(db[d]) THEN "pull all" ELSE "push"
    OBVIOUS
  <2>3. db' = [db EXCEPT ![d] = t]
    BY <1>4, <2>1
  <2>4. db'[d] = t
    BY <1>1, <2>3
  <2>5. /\ DOMAIN run[d].answers = {} /\ ~run[d].forced /\ run[d].missing = {}
        /\ run[d].landed /\ ~session[d].paused
    BY <1>1, <1>2 DEF DeviceInv, RunInv, Phases
  <2>6. server.epoch \in Nat /\ pc \in {"pull all", "push"}
    BY <1>1, <2>2 DEF Server
  <2>7. /\ DOMAIN run' = Devices /\ RunType(run'[d]) /\ \A e \in Devices \ {d} : run'[e] = run[e]
        /\ run'[d].pc = pc /\ run'[d].missing = {} /\ run'[d].landed
        /\ ~run'[d].forced /\ run'[d].pulled = server.epoch
        /\ DOMAIN run'[d].answers = {}
    <3>1. PICK r : r = [run[d] EXCEPT !.pulled = server.epoch, !.pc = pc]
      OBVIOUS
    <3>2. /\ r \in Run(DOMAIN run[d].answers) /\ r.answers = run[d].answers /\ r.pc = pc
          /\ r.missing = run[d].missing /\ r.landed = run[d].landed /\ r.forced = run[d].forced
          /\ r.pulled = server.epoch
      BY <1>1, <2>6, <3>1 DEF RunType, Run, Phases
    <3>3. run' = [run EXCEPT ![d] = r]
      BY <1>4, <2>2, <3>1
    <3>4. DOMAIN run' = Devices /\ run'[d] = r /\ \A e \in Devices \ {d} : run'[e] = run[e]
      BY <1>1, <3>3
    <3>5. RunType(r)
      BY <1>1, <3>2 DEF RunType
    <3> QED BY <2>5, <3>2, <3>4, <3>5
  <2>8. /\ t \in Database /\ IsFiniteSet(t.outbox) /\ \A k \in Keys : Tidy(t, k)
        /\ Due(t) \subseteq Due(db[d]) /\ t.epoch = db[d].epoch /\ t.asked = db[d].asked
        /\ Aligned(d) =>
             /\ t.watermark <= server.head
             /\ \A k \in Keys : Knows(t, k) /\ (Holds(t, k) \/ (server.rev[k] = 0 /\ ToPush(d, k)))
    BY <2>1, PageTaken
  <2>9. Recovering(d) /\ Recovering(d)'
    BY <1>2, <2>5, <2>6, <2>7 DEF Recovering, Phases
  <2>10. Aligned(d)' => Aligned(d)
    BY <1>2, <2>9 DEF Aligned
  <2>11. \A k \in Keys : ToPush(d, k)'
    BY <2>6, <2>7, <2>9 DEF ToPush
  <2>12. RunInv(d)'
    <3>1. ASSUME t.watermark = 0, run'[d].pc = "pull all", NEW k \in Keys PROVE t.meta[k] = 0
      <4>1. IsFiniteSet(db[d].outbox) /\ Answers(run[d].answers)
        BY DeviceFacts
      <4>2. t.watermark = Mark(db[d])
            /\ t.meta[k] = IF Dying(db[d], k) THEN 0
                           ELSE IF Based(db[d], k) THEN server.rev[k] ELSE db[d].meta[k]
        BY <1>1, <2>1, <4>1, TakenFacts
      <4>3. /\ Mark(db[d]) \in Nat /\ Mark(db[d]) >= db[d].watermark
            /\ k \in Page(db[d]) => /\ Mark(db[d]) >= server.rev[k]
                                    /\ server.rev[k] > db[d].watermark
        BY <1>1, PageFacts
      <4>4. server.rev[k] \in Nat /\ db[d].watermark \in Nat
        BY <1>1 DEF Server, Database
      <4>5. db[d].watermark = 0 /\ k \notin Page(db[d])
        <5>1. PICK m : m = Mark(db[d])
          OBVIOUS
        <5>2. m = 0
          BY <3>1, <4>2, <5>1
        <5>3. /\ 0 >= db[d].watermark
              /\ k \in Page(db[d]) => 0 >= server.rev[k] /\ server.rev[k] > db[d].watermark
          BY <4>3, <5>1, <5>2
        <5>4. PICK w \in Nat, v \in Nat : w = db[d].watermark /\ v = server.rev[k]
          BY <4>4
        <5> QED BY <5>3, <5>4
      <4>6. db[d].meta[k] = 0
        BY <1>1, <1>2, <4>5 DEF DeviceInv, RunInv
      <4> QED BY <4>2, <4>5, <4>6 DEF Based, Arrived
    <3> QED BY <1>2, <2>4, <2>5, <2>6, <2>7, <3>1 DEF RunInv
  <2>13. EpochInv(d)'
    <3>1. InEpoch(d)' => d \in torn'
      BY <1>1, <1>2, <2>4, <2>8, <2>9 DEF DeviceInv, EpochInv, InEpoch
    <3>2. /\ db[d].epoch <= server.epoch /\ db'[d].epoch = db[d].epoch
          /\ server'.epoch = server.epoch
      BY <1>1, <1>2, <2>4, <2>8 DEF DeviceInv, EpochInv
    <3>3. run'[d].pulled = server.epoch /\ run'[d].pc # "ack"
      BY <2>6, <2>7
    <3>4. server.epoch <= server.epoch
      <4>1. \A n \in Nat : n <= n
        OBVIOUS
      <4> QED BY <2>6, <4>1
    <3>5. (db[d].epoch <= server.epoch /\ run[d].pulled <= server.epoch /\ run[d].pc # "ack")'
      BY <3>2, <3>3, <3>4
    <3> QED BY <3>1, <3>5 DEF EpochInv
  <2>14. run'[d].pc \notin Stocked
    BY <2>6, <2>7 DEF Stocked
  <2> QED BY <1>1, <1>2, <2>3, <2>7, <2>8, <2>10, <2>11, <2>12, <2>13, <2>14, TakeKeeps
<1> QED BY <1>3, <1>4 DEF PullAll

(* A page of a cycle's pull, or the discovery that a recovery is due.        *)
LEMMA PullKeeps ==
  ASSUME IndInv, NEW d \in Devices, Pull(d)
  PROVE  IndInv'
<1>1. /\ server \in Server /\ db \in [Devices -> Database] /\ RunType(run[d])
      /\ session \in [Devices -> Session] /\ DeviceInv(d) /\ DOMAIN run = Devices
      /\ db[d] \in Database
  BY DeviceFacts
<1>2. /\ server' = server /\ torn' = torn
      /\ skipped' = skipped /\ minted' = minted /\ bound' = bound
      /\ run[d].pc \in {"pull", "idle"}
  BY DEF Pull, Unmoved, history
<1>3. ~Recovering(d) /\ ~session[d].paused
  BY <1>1, <1>2 DEF Recovering, Pull, CanRunCycle, DeviceInv, RunInv
<1>4. CASE run' = [run EXCEPT ![d] = Idle] /\ db' = db /\ session' = session
  BY <1>1, <1>2, <1>4, EndsKeep
<1>5. CASE (Ahead(db[d]) \/ server.epoch # db[d].epoch) /\ StartRecovery(d) /\ db' = db
  <2>1. ASSUME InEpoch(d), d \notin torn PROVE FALSE
    <3>1. Aligned(d) /\ Ahead(db[d])
      BY <1>3, <1>5, <2>1 DEF Aligned, InEpoch
    <3>2. db[d].watermark <= server.head
      BY <1>1, <3>1 DEF DeviceInv, KnowInv
    <3> QED BY <1>1, <3>1, <3>2 DEF Ahead, Database, Server
  <2> QED BY <1>2, <1>5, <2>1, StartRecoveryKeeps
<1>6. CASE /\ db' = [db EXCEPT ![d] = TakenIn(@, run[d])]
           /\ run' = [run EXCEPT ![d] =
                IF More(db[d]) THEN [Idle EXCEPT !.pc = "pull"] ELSE Idle]
           /\ session' = session
  <2>1. PICK t : t = TakenIn(db[d], run[d])
    OBVIOUS
  <2>2. PICK r : r = IF More(db[d]) THEN [Idle EXCEPT !.pc = "pull"] ELSE Idle
    OBVIOUS
  <2>3. db' = [db EXCEPT ![d] = t]
    BY <1>6, <2>1
  <2>4. db'[d] = t
    BY <1>1, <2>3
  <2>5. /\ RunType(r) /\ DOMAIN r.answers = {} /\ r.missing = {} /\ r.landed /\ ~r.forced
        /\ r.pulled = 0 /\ r.pc \in {"pull", "idle"}
    <3>1. "pull" \in Phases
      BY DEF Phases
    <3>2. CASE r = [Idle EXCEPT !.pc = "pull"]
      BY <3>1, <3>2, IdleAt
    <3>3. CASE r = Idle
      BY <3>3, IdleIs
    <3> QED BY <2>2, <3>2, <3>3
  <2>6. run' = [run EXCEPT ![d] = r]
    BY <1>6, <2>2
  <2>7. DOMAIN run' = Devices /\ run'[d] = r /\ \A e \in Devices \ {d} : run'[e] = run[e]
    BY <1>1, <2>6
  <2>8. /\ t \in Database /\ IsFiniteSet(t.outbox) /\ \A k \in Keys : Tidy(t, k)
        /\ Due(t) \subseteq Due(db[d]) /\ t.epoch = db[d].epoch /\ t.asked = db[d].asked
        /\ Aligned(d) =>
             /\ t.watermark <= server.head
             /\ \A k \in Keys : Knows(t, k) /\ (Holds(t, k) \/ (server.rev[k] = 0 /\ ToPush(d, k)))
    BY <2>1, PageTaken
  <2>9. ~Recovering(d)' /\ (InEpoch(d)' <=> InEpoch(d))
    BY <1>2, <2>4, <2>5, <2>7, <2>8 DEF Recovering, InEpoch
  <2>10. Aligned(d)' => Aligned(d)
    BY <1>2, <1>3, <2>9 DEF Aligned
  <2>11. \A k \in Keys : ~ToPush(d, k)
    BY <1>3 DEF ToPush
  <2>12. RunInv(d)'
    BY <1>3, <1>6, <2>5, <2>7 DEF RunInv
  <2>13. EpochInv(d)'
    <3>1. server.epoch \in Nat
      BY <1>1 DEF Server
    <3>2. (db[d].epoch <= server.epoch /\ run[d].pulled <= server.epoch /\ run[d].pc # "ack")'
      BY <1>1, <1>2, <2>4, <2>5, <2>7, <2>8, <3>1 DEF DeviceInv, EpochInv
    <3> QED BY <1>3, <1>6, <2>9, <3>2 DEF EpochInv
  <2>14. run'[d].pc \notin Stocked
    BY <2>5, <2>7 DEF Stocked
  <2> QED BY <1>1, <1>2, <1>6, <2>3, <2>5, <2>7, <2>8, <2>10, <2>11, <2>12, <2>13, <2>14, TakeKeeps
<1> QED BY <1>4, <1>5, <1>6 DEF Pull

(* A recovery takes in the answers to one of its pushes.                     *)
LEMMA RecoveryAckKeeps ==
  ASSUME IndInv, NEW d \in Devices,
         \/ RecoveryAck(d, "ack push", "blobs")
         \/ RecoveryAck(d, "ack blobs", "persist")
  PROVE  IndInv'
<1>1. /\ server \in Server /\ db \in [Devices -> Database] /\ RunType(run[d])
      /\ session \in [Devices -> Session] /\ DeviceInv(d) /\ DOMAIN run = Devices
      /\ db[d] \in Database
  BY DeviceFacts
<1>2. PICK next \in {"blobs", "persist"} :
        /\ run[d].pc = IF next = "blobs" THEN "ack push" ELSE "ack blobs"
        /\ run' = [run EXCEPT ![d].pc = next, ![d].answers = Idle.answers,
                              ![d].head = 0, ![d].told = 0]
  BY DEF RecoveryAck
<1>3. /\ server' = server /\ session' = session /\ torn' = torn
      /\ skipped' = skipped /\ minted' = minted /\ bound' = bound
      /\ db' = [db EXCEPT ![d] = Acknowledged(@, run[d].answers)]
  BY DEF RecoveryAck, Unmoved, history
<1>4. PICK t : t = Acknowledged(db[d], run[d].answers)
  OBVIOUS
<1>5. db' = [db EXCEPT ![d] = t]
  BY <1>3, <1>4
<1>6. db'[d] = t
  BY <1>1, <1>5
<1>7. ~run[d].forced /\ run[d].missing = {} /\ ~session[d].paused
      /\ (run[d].pc = "ack push" => run[d].landed)
  BY <1>1, <1>2 DEF DeviceInv, RunInv, Phases
<1>8. /\ DOMAIN run' = Devices /\ RunType(run'[d]) /\ \A e \in Devices \ {d} : run'[e] = run[e]
      /\ run'[d].pc = next /\ run'[d].missing = run[d].missing /\ run'[d].landed = run[d].landed
      /\ run'[d].forced = run[d].forced /\ run'[d].pulled = run[d].pulled
      /\ DOMAIN run'[d].answers = {}
  <2>1. PICK r : r = [run[d] EXCEPT !.pc = next, !.answers = Idle.answers,
                                    !.head = 0, !.told = 0]
    OBVIOUS
  <2>2. DOMAIN Idle.answers = {} /\ Idle.answers \in [{} -> Answered] /\ next \in Phases
    BY IdleIs DEF RunType, Run, Phases
  <2>3. /\ r \in Run({}) /\ r.answers = Idle.answers /\ r.pc = next
        /\ r.missing = run[d].missing /\ r.landed = run[d].landed /\ r.forced = run[d].forced
        /\ r.pulled = run[d].pulled
    BY <1>1, <2>1, <2>2 DEF RunType, Run
  <2>4. run' = [run EXCEPT ![d] = r]
    BY <1>2, <2>1
  <2>5. DOMAIN run' = Devices /\ run'[d] = r /\ \A e \in Devices \ {d} : run'[e] = run[e]
    BY <1>1, <2>4
  <2>6. RunType(r)
    BY <2>2, <2>3 DEF RunType
  <2> QED BY <2>2, <2>3, <2>5, <2>6
<1>9. /\ t \in Database /\ IsFiniteSet(t.outbox) /\ \A k \in Keys : Tidy(t, k)
      /\ Due(t) \subseteq Due(db[d]) /\ t.epoch = db[d].epoch /\ t.asked = db[d].asked
      /\ Aligned(d) =>
           /\ t.watermark <= server.head
           /\ \A k \in Keys : Knows(t, k) /\ (Holds(t, k) \/ (server.rev[k] = 0 /\ ToPush(d, k)))
  BY <1>4, AnswersTaken
<1>10. Recovering(d)' /\ Recovering(d) /\ (InEpoch(d)' <=> InEpoch(d))
  BY <1>2, <1>3, <1>6, <1>7, <1>8, <1>9 DEF Recovering, InEpoch, Phases
<1>11. Aligned(d)' => Aligned(d)
  BY <1>2, <1>3, <1>8, <1>10 DEF Aligned
<1>12. \A k \in Keys : ToPush(d, k) => ToPush(d, k)'
  BY <1>2, <1>8, <1>10 DEF ToPush
<1>13. RunInv(d)'
  BY <1>2, <1>3, <1>7, <1>8 DEF RunInv
<1>14. EpochInv(d)'
  <2>1. (db[d].epoch <= server.epoch /\ run[d].pulled <= server.epoch /\ run[d].pc # "ack")'
    BY <1>1, <1>2, <1>3, <1>6, <1>8, <1>9 DEF DeviceInv, EpochInv
  <2>2. InEpoch(d)' => d \in torn'
    BY <1>1, <1>3, <1>10 DEF DeviceInv, EpochInv
  <2> QED BY <2>1, <2>2 DEF EpochInv
<1>15. run'[d].pc \in Stocked => run[d].pc \in Stocked
  BY <1>2, <1>8 DEF Stocked
<1> QED BY <1>1, <1>3, <1>5, <1>8, <1>9, <1>11, <1>12, <1>13, <1>14, <1>15, TakeKeeps

(* A cycle takes in the answers to its push, which may tell of another epoch.*)
LEMMA EndDrainKeeps ==
  ASSUME IndInv, NEW d \in Devices, EndDrain(d)
  PROVE  IndInv'
<1>1. /\ server \in Server /\ db \in [Devices -> Database] /\ RunType(run[d])
      /\ session \in [Devices -> Session] /\ DeviceInv(d) /\ DOMAIN run = Devices
      /\ db[d] \in Database
  BY DeviceFacts
<1>2. /\ server' = server /\ torn' = torn
      /\ skipped' = skipped /\ minted' = minted /\ bound' = bound
      /\ run[d].pc = "ack"
      /\ db' = [db EXCEPT ![d] = Acknowledged(@, run[d].answers)]
  BY DEF EndDrain, Unmoved, history
<1>3. PICK t : t = Acknowledged(db[d], run[d].answers)
  OBVIOUS
<1>4. db' = [db EXCEPT ![d] = t]
  BY <1>2, <1>3
<1>5. db'[d] = t
  BY <1>1, <1>4
<1>6. ~Recovering(d) /\ ~session[d].paused
  BY <1>1, <1>2 DEF Recovering, DeviceInv, RunInv
<1>7. /\ t \in Database /\ IsFiniteSet(t.outbox) /\ \A k \in Keys : Tidy(t, k)
      /\ Due(t) \subseteq Due(db[d]) /\ t.epoch = db[d].epoch /\ t.asked = db[d].asked
      /\ Aligned(d) =>
           /\ t.watermark <= server.head
           /\ \A k \in Keys : Knows(t, k) /\ (Holds(t, k) \/ (server.rev[k] = 0 /\ ToPush(d, k)))
  BY <1>3, AnswersTaken
<1>8. InEpoch(d)' <=> InEpoch(d)
  BY <1>2, <1>5, <1>7 DEF InEpoch
<1>9. \A k \in Keys : ~ToPush(d, k)
  BY <1>6 DEF ToPush
<1>10. server.epoch \in Nat /\ db[d].epoch <= server.epoch
  BY <1>1 DEF Server, DeviceInv, EpochInv
<1>11. CASE run[d].told # db[d].epoch /\ StartRecovery(d)
  <2>1. /\ session' \in [Devices -> Session] /\ \A e \in Devices \ {d} : session'[e] = session[e]
        /\ DOMAIN run' = Devices /\ RunType(run'[d])
        /\ \A e \in Devices \ {d} : run'[e] = run[e]
        /\ DOMAIN run'[d].answers = {} /\ run'[d].pulled = 0
        /\ run'[d].pc \in {"idle", "clear"} /\ RunInv(d)'
        /\ Aligned(d)' => InEpoch(d)' /\ d \notin torn'
    BY <1>11, RecoveryStart
  <2>2. ~InEpoch(d)
    BY <1>1, <1>2, <1>11 DEF DeviceInv, EpochInv
  <2>3. EpochInv(d)'
    <3>1. (db[d].epoch <= server.epoch /\ run[d].pulled <= server.epoch)'
      BY <1>2, <1>5, <1>7, <1>10, <2>1
    <3> QED BY <1>8, <2>2, <3>1 DEF EpochInv
  <2>4. run'[d].pc \notin Stocked /\ ~Aligned(d)'
    BY <1>8, <2>1, <2>2 DEF Stocked
  <2> QED BY <1>2, <1>4, <1>7, <2>1, <2>3, <2>4, TakeKeeps
<1>12. CASE /\ run' = [run EXCEPT ![d] =
                 IF NeedPull(d) THEN [Idle EXCEPT !.pc = "pull"] ELSE Idle]
            /\ session' = session
  <2>1. PICK r : r = IF NeedPull(d) THEN [Idle EXCEPT !.pc = "pull"] ELSE Idle
    OBVIOUS
  <2>2. /\ RunType(r) /\ DOMAIN r.answers = {} /\ r.missing = {} /\ r.landed /\ ~r.forced
        /\ r.pulled = 0 /\ r.pc \in {"pull", "idle"}
    <3>1. "pull" \in Phases
      BY DEF Phases
    <3>2. CASE r = [Idle EXCEPT !.pc = "pull"]
      BY <3>1, <3>2, IdleAt
    <3>3. CASE r = Idle
      BY <3>3, IdleIs
    <3> QED BY <2>1, <3>2, <3>3
  <2>3. run' = [run EXCEPT ![d] = r]
    BY <1>12, <2>1
  <2>4. DOMAIN run' = Devices /\ run'[d] = r /\ \A e \in Devices \ {d} : run'[e] = run[e]
    BY <1>1, <2>3
  <2>5. ~Recovering(d)'
    BY <2>2, <2>4 DEF Recovering
  <2>6. Aligned(d)' => Aligned(d)
    BY <1>2, <1>6, <1>8, <2>5 DEF Aligned
  <2>7. RunInv(d)'
    BY <1>6, <1>12, <2>2, <2>4 DEF RunInv
  <2>8. EpochInv(d)'
    <3>1. (db[d].epoch <= server.epoch /\ run[d].pulled <= server.epoch /\ run[d].pc # "ack")'
      BY <1>2, <1>5, <1>7, <1>10, <2>2, <2>4
    <3> QED BY <1>6, <1>12, <2>5, <3>1 DEF EpochInv
  <2>9. run'[d].pc \notin Stocked
    BY <2>2, <2>4 DEF Stocked
  <2> QED BY <1>1, <1>2, <1>4, <1>7, <1>9, <1>12, <2>2, <2>4, <2>6, <2>7, <2>8, <2>9, TakeKeeps
<1> QED BY <1>11, <1>12 DEF EndDrain

(* The server after a push: the records that change it have revs of their own past *)
(* all there were, the others are as they were.                               *)
LEMMA Pushed ==
  ASSUME server \in Server, ServerInv, NEW s \in Database, IsFiniteSet(s.outbox),
         \A k \in Keys : Tidy(s, k), NEW o \in Orders(Changing(s)),
         server' = [server EXCEPT
           !.rev = [k \in Keys |-> IF k \in Changing(s) THEN server.head + o[k] ELSE server.rev[k]],
           !.content = [k \in Keys |->
              IF k \notin Changing(s) THEN @[k]
              ELSE IF Upserts(s, k) THEN s.row[k] ELSE Nothing],
           !.head = server.head + Cardinality(Changing(s))]
  PROVE  /\ server' \in Server /\ ServerInv' /\ Grows
         /\ Changing(s) \subseteq Sendable(s) /\ Sendable(s) \subseteq Keys
         /\ server'.head = server.head + Cardinality(Changing(s))
         /\ server'.objects = server.objects
         /\ \A k \in Keys \ Changing(s) :
              server'.rev[k] = server.rev[k] /\ server'.content[k] = server.content[k]
         /\ \A k \in Changing(s) :
              /\ o[k] \in Nat /\ server'.rev[k] = server.head + o[k] /\ server'.rev[k] > server.head
              /\ server'.content[k] = IF Upserts(s, k) THEN s.row[k] ELSE Nothing
<1> DEFINE C == Changing(s)
           rev == [k \in Keys |-> IF k \in C THEN server.head + o[k] ELSE server.rev[k]]
           content == [k \in Keys |-> IF k \notin C THEN server.content[k]
                                      ELSE IF Upserts(s, k) THEN s.row[k] ELSE Nothing]
           head == server.head + Cardinality(C)
<1>1. C \subseteq Sendable(s) /\ Sendable(s) \subseteq Keys
  BY DEF Changing, Sendable
<1>2. Cardinality(C) \in Nat
  BY <1>1, KeysFinite
<1>3. \A k \in C : o[k] \in Nat /\ 1 <= o[k] /\ o[k] <= Cardinality(C)
  BY <1>2 DEF Orders
<1>4. server.head \in Nat /\ \A k \in Keys : server.rev[k] \in Nat /\ server.rev[k] <= server.head
  BY DEF Server, ServerInv
<1>5. server' = [server EXCEPT !.rev = rev, !.content = content, !.head = head]
  BY DEF Server
<1>6. /\ \A k \in Keys \ C : rev[k] = server.rev[k] /\ content[k] = server.content[k]
      /\ \A k \in C : /\ rev[k] = server.head + o[k]
                      /\ content[k] = IF Upserts(s, k) THEN s.row[k] ELSE Nothing
  BY <1>1
<1>7. head \in Nat /\ head >= server.head
  BY <1>2, <1>4
<1>8. \A k \in C : /\ server.head + o[k] \in Nat /\ server.head + o[k] > server.head
                   /\ server.head + o[k] <= head
  BY <1>2, <1>3, <1>4
<1>9. rev \in [Keys -> Nat] /\ content \in [Keys -> Contents \cup {Nothing}]
  BY <1>1, <1>4, <1>8 DEF Server, Database
<1> HIDE DEF rev, content, head
<1>10. /\ server' \in Server /\ server'.rev = rev /\ server'.content = content
       /\ server'.head = head /\ server'.objects = server.objects
       /\ server'.epoch = server.epoch /\ server'.stale = server.stale
  BY <1>5, <1>7, <1>9 DEF Server
<1>11. ServerInv'
  <2>1. ASSUME NEW k \in Keys
        PROVE  rev[k] <= head /\ (rev[k] = 0 => content[k] = Nothing)
    <3>1. CASE k \in C
      BY <1>4, <1>6, <1>8, <3>1
    <3>2. CASE k \notin C
      <4>1. server.rev[k] = 0 => server.content[k] = Nothing
        BY DEF ServerInv
      <4> QED BY <1>4, <1>6, <1>7, <3>2, <4>1
    <3> QED BY <3>1, <3>2
  <2> QED BY <1>10, <2>1 DEF ServerInv
<1>12. Grows
  <2>1. \A k \in Keys : \/ server'.rev[k] = server.rev[k] /\ server'.content[k] = server.content[k]
                        \/ server'.rev[k] > server.head
    BY <1>6, <1>8, <1>10
  <2> QED BY <1>7, <1>10, <2>1 DEF Grows
<1> QED BY <1>1, <1>3, <1>6, <1>8, <1>10, <1>11, <1>12 DEF head

(* What a device knows and holds when its records are sent: a record that is       *)
(* dropped had no row and no base, one that was sent is queued until its answer.  *)
LEMMA HeldSent ==
  ASSUME server \in Server, ServerInv, NEW s \in Database, IsFiniteSet(s.outbox),
         \A k \in Keys : Tidy(s, k), NEW o \in Orders(Changing(s)),
         server' = [server EXCEPT
           !.rev = [k \in Keys |-> IF k \in Changing(s) THEN server.head + o[k] ELSE server.rev[k]],
           !.content = [k \in Keys |->
              IF k \notin Changing(s) THEN @[k]
              ELSE IF Upserts(s, k) THEN s.row[k] ELSE Nothing],
           !.head = server.head + Cardinality(Changing(s))],
         NEW t, t = [s EXCEPT !.outbox = KeptEntries(s)], NEW a, a = Sent(s, o),
         NEW k \in Keys, s.watermark <= server.head, Knows(s, k)
  PROVE  /\ Knows(t, k)' /\ Accepted(t, a, k)'
         /\ Holds(s, k) \/ Pending(s, k) # {} => Holds(t, k)'
         /\ server.rev[k] = 0 => /\ s.row[k] = Nothing => Holds(t, k)'
                                 /\ server'.rev[k] = 0 \/ Holds(t, k)'
<1>1. /\ server' \in Server
      /\ Changing(s) \subseteq Sendable(s) /\ Sendable(s) \subseteq Keys
      /\ k \notin Changing(s) => server'.rev[k] = server.rev[k] /\ server'.content[k] = server.content[k]
      /\ k \in Changing(s) =>
           /\ o[k] \in Nat /\ server'.rev[k] = server.head + o[k] /\ server'.rev[k] > server.head
           /\ server'.content[k] = IF Upserts(s, k) THEN s.row[k] ELSE Nothing
  BY Pushed
<1>2. /\ server.head \in Nat /\ server.rev[k] \in Nat /\ server'.rev[k] \in Nat
      /\ s.watermark \in Nat /\ s.meta[k] \in Nat /\ server.rev[k] <= server.head
      /\ server.rev[k] = 0 => server.content[k] = Nothing
  BY <1>1 DEF Server, Database, ServerInv
<1>3. t.row = s.row /\ t.meta = s.meta /\ t.dead = s.dead /\ t.watermark = s.watermark
  BY DEF Database
<1>4. Pending(t, k) = IF k \in Sendable(s) \cup s.puts THEN Pending(s, k) ELSE {}
  BY TidySent
<1>5. /\ k \in Sendable(s) => Pending(s, k) # {}
      /\ k \in Sendable(s) => (Upserts(s, k) <=> s.row[k] # Nothing)
      /\ Pending(s, k) # {} /\ k \notin Sendable(s) \cup s.puts =>
           s.row[k] = Nothing /\ (k \notin s.dead => s.meta[k] = 0)
  BY SendableFacts
<1>6. Knows(t, k)'
  BY <1>1, <1>2, <1>3 DEF Knows
<1>7. Accepted(t, a, k)'
  <2>1. /\ DOMAIN a = Sendable(s)
        /\ k \in Sendable(s) =>
             /\ a[k].status = Status(s, k)
             /\ a[k].op = "upsert" => Upserts(s, k)
             /\ k \in Changing(s) => a[k].rev = server.head + o[k]
    BY DEF Sent
  <2>2. k \in Sendable(s) /\ Status(s, k) = "ok" /\ Upserts(s, k) => k \in Changing(s)
    BY DEF Changing, Deletes
  <2>3. k \in Changing(s) /\ Upserts(s, k) =>
          /\ server'.content[k] = t.row[k] /\ server'.content[k] # Nothing
          /\ server.head + o[k] > s.watermark /\ server.head + o[k] > s.meta[k]
    BY <1>1, <1>2, <1>3, <1>5 DEF Knows
  <2>4. ASSUME k \in DOMAIN a, a[k].status = "ok", a[k].op = "upsert"
        PROVE  /\ a[k].rev = server'.rev[k] /\ a[k].rev > t.watermark /\ a[k].rev > t.meta[k]
               /\ server'.content[k] = t.row[k] /\ server'.content[k] # Nothing
    BY <1>1, <1>3, <2>1, <2>2, <2>3, <2>4
  <2> QED BY <1>2, <2>4 DEF Accepted
<1>8. k \in Sendable(s) => Holds(t, k)'
  BY <1>4, <1>5 DEF Holds
<1>9. ASSUME k \notin Sendable(s) PROVE Holds(s, k) \/ Pending(s, k) # {} => Holds(t, k)'
  <2>1. k \notin Changing(s)
    BY <1>1, <1>9
  <2>2. CASE Pending(s, k) = {}
    BY <1>1, <1>3, <2>1, <2>2 DEF Holds
  <2>3. CASE Pending(s, k) # {} /\ k \in s.puts
    BY <1>4, <2>3 DEF Holds
  <2>4. CASE Pending(s, k) # {} /\ k \notin s.puts
    <3>1. s.row[k] = Nothing /\ (k \notin s.dead => s.meta[k] = 0)
      BY <1>5, <1>9, <2>4
    <3>2. k \notin s.dead /\ (server.rev[k] <= s.watermark \/ server.rev[k] <= s.meta[k])
            => server.content[k] = Nothing
      BY <1>2, <3>1 DEF Knows
    <3> QED BY <1>1, <1>3, <2>1, <3>1, <3>2 DEF Holds
  <2> QED BY <2>2, <2>3, <2>4
<1>10. server.rev[k] = 0 => /\ s.row[k] = Nothing => Holds(t, k)'
                            /\ server'.rev[k] = 0 \/ Holds(t, k)'
  <2>1. CASE k \in Sendable(s)
    BY <1>8, <2>1
  <2>2. CASE k \notin Sendable(s)
    BY <1>1, <1>2, <1>3, <2>2 DEF Holds
  <2> QED BY <2>1, <2>2
<1> QED BY <1>6, <1>7, <1>8, <1>9, <1>10

(* The answers the server gives are of their type.                            *)
LEMMA SentType ==
  ASSUME server \in Server, NEW s \in Database, NEW o \in Orders(Changing(s))
  PROVE  Sent(s, o) \in [Sendable(s) -> Answered] /\ Sendable(s) \subseteq Keys
<1>1. Sendable(s) \subseteq Keys /\ Changing(s) \subseteq Keys
  BY DEF Changing, Sendable
<1>2. \A k \in Changing(s) : o[k] \in Nat
  BY <1>1, KeysFinite DEF Orders
<1>3. ASSUME NEW k \in Sendable(s) PROVE Sent(s, o)[k] \in Answered
  <2>1. (IF k \in Changing(s) THEN server.head + o[k] ELSE server.rev[k]) \in Nat
    BY <1>1, <1>2 DEF Server
  <2>2. {e.seq : e \in Pending(s, k)} \subseteq Nat
    BY DEF Pending, Database, Entry
  <2>3. Status(s, k) \in {"ok", "conflict", "tombstoned"}
    BY DEF Status
  <2>4. Sent(s, o)[k] =
          [op |-> IF Upserts(s, k) THEN "upsert" ELSE "delete",
           seqs |-> {e.seq : e \in Pending(s, k)},
           rev |-> IF k \in Changing(s) THEN server.head + o[k] ELSE server.rev[k],
           status |-> Status(s, k)]
    BY DEF Sent
  <2> QED BY <2>1, <2>2, <2>3, <2>4 DEF Answered
<1>4. Sent(s, o) = [k \in Sendable(s) |-> Sent(s, o)[k]]
  BY DEF Sent
<1> QED BY <1>1, <1>3, <1>4

(* Below the lesser is below the greater.                                    *)
LEMMA AtMostMore == \A i, j, n \in Nat : n <= i /\ j >= i => n <= j
OBVIOUS

(* A drain of a database whose queue is that of the device, or has more in it.      *)
LEMMA PushKeeps ==
  ASSUME IndInv, NEW d \in Devices, NEW s \in Database, IsFiniteSet(s.outbox),
         \A k \in Keys : Tidy(s, k),
         s.row = db[d].row, s.bytes = db[d].bytes, s.oversize = db[d].oversize,
         s.puts = db[d].puts, s.meta = db[d].meta, s.dead = db[d].dead,
         s.watermark = db[d].watermark, s.epoch = db[d].epoch, s.asked = db[d].asked,
         \A k \in Keys : Holds(db[d], k) => Holds(s, k),
         NEW pc,
         \/ run[d].pc = "idle" /\ pc = "ack" /\ ~session[d].paused
         \/ run[d].pc = "push" /\ pc = "ack push"
         \/ run[d].pc = "push blobs" /\ pc = "ack blobs",
         \A k \in Keys : ToPush(d, k) =>
           \/ s.row[k] = Nothing \/ Pending(s, k) # {}
           \/ k \in BlobKeys /\ pc = "ack push",
         Push(d, s, pc)
  PROVE  IndInv'
<1>1. /\ server \in Server /\ ServerInv /\ db \in [Devices -> Database] /\ db[d] \in Database
      /\ DOMAIN run = Devices /\ RunType(run[d]) /\ session \in [Devices -> Session]
      /\ DeviceInv(d)
  BY DeviceFacts
<1>2. PICK o \in Orders(Changing(s)) :
        /\ server' = [server EXCEPT
             !.rev = [k \in Keys |-> IF k \in Changing(s) THEN server.head + o[k] ELSE server.rev[k]],
             !.content = [k \in Keys |->
                IF k \notin Changing(s) THEN @[k]
                ELSE IF Upserts(s, k) THEN s.row[k] ELSE Nothing],
             !.head = server.head + Cardinality(Changing(s))]
        /\ run' = [run EXCEPT
             ![d].pc = pc, ![d].head = server.head + Cardinality(Changing(s)),
             ![d].told = server.epoch, ![d].answers = Sent(s, o)]
        /\ db' = [db EXCEPT ![d] = [s EXCEPT !.outbox = KeptEntries(s)]]
  BY DEF Push, Sent
<1>3. /\ session' = session /\ torn' = torn /\ skipped' = skipped /\ minted' = minted
      /\ bound' = bound
  BY DEF Push, history
<1>4. PICK a : a = Sent(s, o)
  OBVIOUS
<1>5. PICK t : t = [s EXCEPT !.outbox = KeptEntries(s)]
  OBVIOUS
<1>6. /\ server' \in Server /\ ServerInv' /\ Grows
      /\ server'.head = server.head + Cardinality(Changing(s)) /\ server'.objects = server.objects
  BY <1>1, <1>2, Pushed
<1>7. /\ t \in Database /\ IsFiniteSet(t.outbox)
      /\ \A k \in Keys : Tidy(t, k) /\ Awaited(t, a, k)
  <2>1. t \in Database /\ IsFiniteSet(t.outbox)
    <3>1. KeptEntries(s) \subseteq s.outbox /\ s.outbox \subseteq Entry
      BY DEF KeptEntries, Database
    <3>2. IsFiniteSet(KeptEntries(s))
      BY <3>1, FS_Subset
    <3> QED BY <1>5, <3>1, <3>2 DEF Database
  <2> QED BY <1>4, <1>5, <2>1, TidySent
<1>8. /\ t.row = s.row /\ t.bytes = s.bytes /\ t.oversize = s.oversize /\ t.puts = s.puts
      /\ t.meta = s.meta /\ t.dead = s.dead /\ t.watermark = s.watermark
      /\ t.epoch = s.epoch /\ t.asked = s.asked
  BY <1>5 DEF Database
<1>9. db'[d] = t /\ db' \in [Devices -> Database] /\ \A e \in Devices \ {d} : db'[e] = db[e]
  BY <1>1, <1>2, <1>5, <1>7
<1>10. /\ DOMAIN run' = Devices /\ RunType(run'[d]) /\ \A e \in Devices \ {d} : run'[e] = run[e]
       /\ run'[d].pc = pc /\ run'[d].missing = run[d].missing /\ run'[d].landed = run[d].landed
       /\ run'[d].forced = run[d].forced /\ run'[d].pulled = run[d].pulled
       /\ run'[d].told = server.epoch /\ run'[d].answers = a
  <2>1. PICK h : h = server.head + Cardinality(Changing(s))
    OBVIOUS
  <2>2. PICK r : r = [run[d] EXCEPT !.pc = pc, !.head = h, !.told = server.epoch, !.answers = a]
    OBVIOUS
  <2>3. h \in Nat /\ server.epoch \in Nat
    BY <1>1, <1>6, <2>1 DEF Server
  <2>4. pc \in Phases
    BY DEF Phases
  <2>5. a \in [Sendable(s) -> Answered] /\ Sendable(s) \subseteq Keys /\ DOMAIN a = Sendable(s)
    BY <1>1, <1>4, SentType
  <2>6. /\ r \in Run(Sendable(s)) /\ r.answers = a /\ r.pc = pc
        /\ r.missing = run[d].missing /\ r.landed = run[d].landed /\ r.forced = run[d].forced
        /\ r.pulled = run[d].pulled /\ r.told = server.epoch
    BY <1>1, <2>2, <2>3, <2>4, <2>5 DEF RunType, Run
  <2>7. run' = [run EXCEPT ![d] = r]
    BY <1>2, <1>4, <2>1, <2>2
  <2>8. DOMAIN run' = Devices /\ run'[d] = r /\ \A e \in Devices \ {d} : run'[e] = run[e]
    BY <1>1, <2>7
  <2>9. RunType(r)
    BY <2>5, <2>6 DEF RunType
  <2> QED BY <2>6, <2>8, <2>9
<1>11. StepOf(d)
  <2>1. torn' \subseteq Devices /\ skipped' \subseteq Devices /\ minted' \subseteq Contents
    BY <1>3 DEF IndInv, TypeOK
  <2> QED BY <1>1, <1>3, <1>6, <1>9, <1>10, <2>1, BoundsKept DEF StepOf
<1>12. (Recovering(d)' <=> Recovering(d)) /\ (InEpoch(d)' <=> InEpoch(d))
  <2>1. pc \in Phases \ {"idle", "ack", "pull", "confirmed"} <=>
          run[d].pc \in Phases \ {"idle", "ack", "pull", "confirmed"}
    BY DEF Phases
  <2>2. server'.epoch = server.epoch /\ server'.stale = server.stale
    BY <1>6 DEF Grows
  <2> QED BY <1>8, <1>9, <1>10, <2>1, <2>2 DEF Recovering, InEpoch
<1>13. RunInv(d)'
  <2>1. /\ ~run[d].forced /\ ~session[d].paused /\ run[d].missing = {}
        /\ pc # "ack blobs" => run[d].landed
    BY <1>1 DEF DeviceInv, RunInv, Phases
  <2> QED BY <1>3, <1>10, <2>1 DEF RunInv
<1>14. EpochInv(d)'
  <2>1. server'.epoch = server.epoch /\ db'[d].epoch = db[d].epoch
    BY <1>6, <1>8, <1>9 DEF Grows
  <2>2. /\ db[d].epoch <= server.epoch /\ run[d].pulled <= server.epoch
        /\ (Recovering(d) \/ session[d].paused) /\ InEpoch(d) => d \in torn
    BY <1>1 DEF DeviceInv, EpochInv
  <2>3. (db[d].epoch <= server.epoch /\ run[d].pulled <= server.epoch)'
    BY <1>10, <2>1, <2>2
  <2>4. InEpoch(d)' => run'[d].told = db'[d].epoch
    BY <1>10, <2>1 DEF InEpoch
  <2> QED BY <1>3, <1>12, <2>2, <2>3, <2>4 DEF EpochInv
<1>15. QueueInv(d)'
  BY <1>7, <1>9, <1>10 DEF QueueInv
<1>16. KnowInv(d)'
  <2>1. SUFFICES ASSUME Aligned(d)' PROVE KnowInv(d)'
    BY DEF KnowInv
  <2>2. Aligned(d)
    <3>1. server'.epoch = server.epoch /\ server'.stale = server.stale
      BY <1>6 DEF Grows
    <3>2. d \notin torn /\ (Recovering(d) \/ InEpoch(d))
      BY <1>3, <1>12, <2>1 DEF Aligned
    <3>3. Recovering(d) => run[d].pc # "clear" /\ ~server.stale /\ run[d].pulled = server.epoch
      BY <1>10, <1>12, <2>1, <3>1 DEF Aligned
    <3> QED BY <3>2, <3>3 DEF Aligned
  <2>3. /\ db[d].watermark <= server.head
        /\ \A k \in Keys : Knows(db[d], k) /\ (Holds(db[d], k) \/ (server.rev[k] = 0 /\ ToPush(d, k)))
    BY <1>1, <2>2 DEF DeviceInv, KnowInv
  <2>4. (db[d].watermark <= server.head)'
    <3>1. server.head \in Nat /\ server'.head \in Nat /\ server'.head >= server.head
          /\ db[d].watermark \in Nat
      BY <1>1, <1>6 DEF Server, Database, Grows
    <3>3. db[d].watermark <= server'.head
      BY <2>3, <3>1, AtMostMore
    <3>4. db'[d].watermark = db[d].watermark
      BY <1>8, <1>9
    <3> QED BY <3>3, <3>4
  <2>5. ASSUME NEW k \in Keys
        PROVE  /\ Knows(db[d], k)' /\ Accepted(db[d], run[d].answers, k)'
               /\ (Holds(db[d], k) \/ (server.rev[k] = 0 /\ ToPush(d, k)))'
    <3>1. Knows(s, k)
      BY <2>3 DEF Knows
    <3>2. /\ Knows(t, k)' /\ Accepted(t, a, k)'
          /\ Holds(s, k) \/ Pending(s, k) # {} => Holds(t, k)'
          /\ server.rev[k] = 0 => /\ s.row[k] = Nothing => Holds(t, k)'
                                  /\ server'.rev[k] = 0 \/ Holds(t, k)'
      BY <1>1, <1>2, <1>4, <1>5, <2>3, <3>1, HeldSent
    <3>3. Holds(t, k)' \/ (server'.rev[k] = 0 /\ k \in BlobKeys /\ pc = "ack push" /\ ToPush(d, k))
      BY <2>3, <3>2
    <3>4. k \in BlobKeys /\ pc = "ack push" /\ ToPush(d, k) => ToPush(d, k)'
      BY <1>10, <1>12 DEF ToPush
    <3>5. Knows(db[d], k)' /\ (Holds(t, k)' => Holds(db[d], k)')
      BY <1>9, <3>2 DEF Knows, Holds
    <3>6. Accepted(db[d], run[d].answers, k)'
      BY <1>9, <1>10, <3>2 DEF Accepted
    <3> QED BY <3>3, <3>4, <3>5, <3>6
  <2> QED BY <2>4, <2>5 DEF KnowInv
<1>17. BytesInv(d)'
  <2>1. Candidates(db[d])' = Candidates(db[d]) /\ db'[d].puts = db[d].puts
        /\ db'[d].asked = db[d].asked
    BY ZenonT(60), <1>8, <1>9 DEF Candidates
  <2>2. BytesInv(d)
    BY <1>1 DEF DeviceInv
  <2>3. server'.epoch = server.epoch /\ server'.stale = server.stale
    BY <1>6 DEF Grows
  <2>4. Stored(d) => Stored(d)'
    BY <1>6, <1>10, <2>1 DEF Stored
  <2>5. run'[d].pc \in Stocked => run[d].pc \in Stocked
    BY <1>10 DEF Stocked
  <2>6. InEpoch(d)' /\ ~db'[d].asked /\ d \notin torn \cup skipped =>
          Candidates(db[d]) \ db[d].puts \subseteq server.objects
    BY <1>12, <2>1, <2>2 DEF BytesInv
  <2>7. /\ d \notin torn \cup skipped /\ run'[d].landed /\ run'[d].pc \in Stocked
        /\ IF run'[d].forced THEN InEpoch(d)'
           ELSE ~db'[d].asked /\ ~server'.stale /\ run'[d].pulled = server'.epoch
        => Stored(d)
    BY <1>10, <1>12, <2>1, <2>2, <2>3, <2>5 DEF BytesInv, Stocked
  <2> QED BY <1>3, <1>6, <2>1, <2>4, <2>6, <2>7 DEF BytesInv, Stocked
<1> QED BY <1>11, <1>13, <1>14, <1>15, <1>16, <1>17, StepKeeps DEF DeviceInv

(* A cycle pushes what is queued.                                            *)
LEMMA StartDrainKeeps ==
  ASSUME IndInv, NEW d \in Devices, StartDrain(d)
  PROVE  IndInv'
<1>1. db[d] \in Database /\ IsFiniteSet(db[d].outbox) /\ \A k \in Keys : Tidy(db[d], k)
  BY DeviceFacts
<1>2. run[d].pc = "idle" /\ ~session[d].paused /\ Push(d, db[d], "ack")
  BY DEF StartDrain, CanRunCycle
<1>3. \A k \in Keys : ~ToPush(d, k)
  BY <1>2 DEF ToPush, Recovering
<1> QED BY <1>1, <1>2, <1>3, PushKeeps

(* A recovery queues every row of its collections and pushes them; without the*)
(* master key it queues them only.                                           *)
LEMMA RecoveryDrainKeeps ==
  ASSUME IndInv, NEW d \in Devices,
         \/ RecoveryDrain(d, "push", Keys \ BlobKeys, "ack push")
         \/ RecoveryDrain(d, "push blobs", BlobKeys, "ack blobs")
  PROVE  IndInv'
<1>1. /\ db \in [Devices -> Database] /\ db[d] \in Database /\ IsFiniteSet(db[d].outbox)
      /\ Answers(run[d].answers) /\ \A k \in Keys : Tidy(db[d], k)
      /\ server \in Server /\ DOMAIN run = Devices /\ RunType(run[d])
      /\ session \in [Devices -> Session] /\ DeviceInv(d)
  BY DeviceFacts
<1>2. PICK keys \in SUBSET Keys, pc \in {"push", "push blobs"}, ack \in {"ack push", "ack blobs"} :
        /\ RecoveryDrain(d, pc, keys, ack)
        /\ pc = "push" => keys = Keys \ BlobKeys /\ ack = "ack push"
        /\ pc = "push blobs" => keys = BlobKeys /\ ack = "ack blobs"
  BY RecoveryAssumption
<1>3. run[d].pc = pc
  BY <1>2 DEF RecoveryDrain
<1>4. PICK s : s = Requeued(d, keys)
  OBVIOUS
<1>5. PICK rows \in SUBSET Keys : rows = Rows(db[d], keys)
  BY DEF Rows
<1>6. /\ s \in Database /\ IsFiniteSet(s.outbox)
      /\ s.outbox = Queued(db[d], run[d], rows, "upsert")
      /\ s.row = db[d].row /\ s.bytes = db[d].bytes /\ s.oversize = db[d].oversize
      /\ s.puts = db[d].puts /\ s.meta = db[d].meta /\ s.dead = db[d].dead
      /\ s.watermark = db[d].watermark /\ s.epoch = db[d].epoch /\ s.asked = db[d].asked
  <2> DEFINE q == Queued(db[d], run[d], rows, "upsert")
  <2>1. q \in SUBSET Entry /\ IsFiniteSet(q)
    BY <1>1, <1>5, QueuedFacts
  <2>2. s = [db[d] EXCEPT !.outbox = q]
    BY <1>4, <1>5 DEF Requeued
  <2> HIDE DEF q
  <2>3. /\ s \in Database /\ s.outbox = q
        /\ s.row = db[d].row /\ s.bytes = db[d].bytes /\ s.oversize = db[d].oversize
        /\ s.puts = db[d].puts /\ s.meta = db[d].meta /\ s.dead = db[d].dead
        /\ s.watermark = db[d].watermark /\ s.epoch = db[d].epoch /\ s.asked = db[d].asked
    BY <1>1, <2>1, <2>2 DEF Database
  <2> QED BY <2>1, <2>3 DEF q
<1>7. \A k \in Keys : /\ Pending(db[d], k) \subseteq Pending(s, k)
                      /\ k \in rows => Pending(s, k) # {}
  <2>2. s.outbox = Queued(db[d], run[d], rows, "upsert")
    BY <1>6
  <2>3. ASSUME NEW k \in Keys PROVE Pending(db[d], k) \subseteq Pending(s, k)
    BY <2>2 DEF Pending, Queued
  <2>4. ASSUME NEW k \in rows PROVE Pending(s, k) # {}
    <3>1. PICK e : e = [seq |-> FreshSeq(db[d], run[d], k), key |-> k, op |-> "upsert"]
      OBVIOUS
    <3>2. e \in s.outbox /\ e.key = k
      BY <2>2, <3>1 DEF Queued
    <3> QED BY <3>2 DEF Pending
  <2> QED BY <2>3, <2>4
<1>8. ASSUME NEW k \in Keys PROVE Tidy(s, k)
  <2>1. k \in rows => s.row[k] # Nothing
    BY <1>5, <1>6 DEF Rows
  <2>2. s.row[k] = Nothing => k \notin s.bytes
    BY <1>1, <1>6 DEF Tidy
  <2>3. /\ Tidy(db[d], k) /\ s.row[k] = db[d].row[k] /\ s.dead = db[d].dead
        /\ db[d] \in Database /\ IsFiniteSet(db[d].outbox) /\ Answers(run[d].answers)
        /\ s.outbox = Queued(db[d], run[d], rows, "upsert")
    BY <1>1, <1>6
  <2> QED BY <2>1, <2>2, <2>3, TidyQueued
<1>9. \A k \in Keys : Holds(db[d], k) => Holds(s, k)
  BY <1>6, <1>7 DEF Holds
<1>10. ASSUME NEW k \in Keys, ToPush(d, k)
       PROVE  \/ s.row[k] = Nothing \/ Pending(s, k) # {}
              \/ k \in BlobKeys /\ ack = "ack push"
  BY <1>2, <1>3, <1>5, <1>6, <1>7, <1>10 DEF ToPush, Rows
<1>11. CASE Push(d, s, ack)
  BY <1>2, <1>3, <1>6, <1>8, <1>9, <1>10, <1>11, PushKeeps
<1>12. CASE /\ run' = [run EXCEPT ![d].pc = ack] /\ db' = [db EXCEPT ![d] = s]
            /\ UNCHANGED <<server, session, history>> /\ Unmoved
  <2>1. /\ server' = server /\ session' = session /\ torn' = torn /\ skipped' = skipped
        /\ minted' = minted /\ bound' = bound
    BY <1>12 DEF Unmoved, history
  <2>2. db'[d] = s
    BY <1>1, <1>12
  <2>3. /\ DOMAIN run' = Devices /\ RunType(run'[d]) /\ \A e \in Devices \ {d} : run'[e] = run[e]
        /\ run'[d].pc = ack /\ run'[d].missing = run[d].missing /\ run'[d].landed = run[d].landed
        /\ run'[d].forced = run[d].forced /\ run'[d].pulled = run[d].pulled
        /\ run'[d].answers = run[d].answers
    <3>1. PICK r : r = [run[d] EXCEPT !.pc = ack]
      OBVIOUS
    <3>2. ack \in Phases
      BY DEF Phases
    <3>3. /\ r \in Run(DOMAIN run[d].answers) /\ r.answers = run[d].answers /\ r.pc = ack
          /\ r.missing = run[d].missing /\ r.landed = run[d].landed /\ r.forced = run[d].forced
          /\ r.pulled = run[d].pulled
      BY <1>1, <3>1, <3>2 DEF RunType, Run
    <3>4. run' = [run EXCEPT ![d] = r]
      BY <1>12, <3>1
    <3>5. DOMAIN run' = Devices /\ run'[d] = r /\ \A e \in Devices \ {d} : run'[e] = run[e]
      BY <1>1, <3>4
    <3>6. RunType(r)
      BY <1>1, <3>3 DEF RunType
    <3> QED BY <3>3, <3>5, <3>6
  <2>4. /\ DOMAIN run[d].answers = {} /\ ~run[d].forced /\ run[d].missing = {} /\ ~session[d].paused
        /\ pc = "push" => run[d].landed
    BY <1>1, <1>3 DEF DeviceInv, RunInv, Phases
  <2>5. Due(s) = Due(db[d])
    BY <1>6 DEF Due, Candidates
  <2>6. Recovering(d)' /\ Recovering(d) /\ (InEpoch(d)' <=> InEpoch(d))
    <3>1. pc \in Phases \ {"idle", "ack", "pull", "confirmed"}
          /\ ack \in Phases \ {"idle", "ack", "pull", "confirmed"}
      BY DEF Phases
    <3> QED BY <1>3, <1>6, <2>1, <2>2, <2>3, <2>4, <3>1 DEF Recovering, InEpoch
  <2>7. Aligned(d)' => Aligned(d)
    BY <1>2, <1>3, <2>1, <2>3, <2>6 DEF Aligned
  <2>8. RunInv(d)'
    BY <1>2, <2>1, <2>3, <2>4 DEF RunInv
  <2>9. EpochInv(d)'
    <3>1. (db[d].epoch <= server.epoch /\ run[d].pulled <= server.epoch /\ run[d].pc # "ack")'
      BY <1>1, <1>6, <2>1, <2>2, <2>3 DEF DeviceInv, EpochInv
    <3>2. InEpoch(d)' => d \in torn'
      BY <1>1, <2>1, <2>6 DEF DeviceInv, EpochInv
    <3> QED BY <3>1, <3>2 DEF EpochInv
  <2>10. ASSUME Aligned(d)'
         PROVE  /\ s.watermark <= server.head
                /\ \A k \in Keys : Knows(s, k) /\ (Holds(s, k) \/ (server.rev[k] = 0 /\ ToPush(d, k)'))
    <3>1. /\ db[d].watermark <= server.head
          /\ \A k \in Keys : /\ Knows(db[d], k)
                             /\ Holds(db[d], k) \/ (server.rev[k] = 0 /\ ToPush(d, k))
      BY <1>1, <2>7, <2>10 DEF DeviceInv, KnowInv
    <3>2. ASSUME NEW k \in Keys
          PROVE  Knows(s, k) /\ (Holds(s, k) \/ (server.rev[k] = 0 /\ ToPush(d, k)'))
      <4>1. Knows(s, k)
        BY <1>6, <3>1 DEF Knows
      <4>2. CASE Holds(db[d], k)
        BY <1>9, <4>1, <4>2
      <4>3. CASE server.rev[k] = 0 /\ ToPush(d, k)
        <5>1. server.content[k] = Nothing
          BY <4>3, DeviceFacts DEF ServerInv
        <5>2. s.row[k] = Nothing \/ Pending(s, k) # {} => Holds(s, k)
          BY <5>1 DEF Holds
        <5>3. k \in BlobKeys /\ ack = "ack push" => ToPush(d, k)'
          BY <2>3, <2>6 DEF ToPush
        <5> QED BY <1>10, <4>1, <4>3, <5>2, <5>3
      <4> QED BY <3>1, <4>1, <4>2, <4>3
    <3> QED BY <1>6, <3>1, <3>2
  <2>11. ack \in Stocked => run[d].pc \in Stocked
    BY <1>2, <1>3 DEF Stocked
  <2> QED BY <1>1, <1>6, <1>8, <1>12, <2>1, <2>3, <2>4, <2>5, <2>8, <2>9, <2>10, <2>11, TakeKeeps
<1> QED BY <1>2, <1>4, <1>11, <1>12 DEF RecoveryDrain

(* The steps of a cycle together.                                            *)
LEMMA CycleKeeps ==
  ASSUME IndInv, NEW d \in Devices, Cycle(d)
  PROVE  IndInv'
BY StartDrainKeeps, EndDrainKeeps, PullKeeps DEF Cycle

(* The steps of a recovery together.                                         *)
LEMMA RecoveryKeeps ==
  ASSUME IndInv, NEW d \in Devices, Recovery(d)
  PROVE  IndInv'
<1>1. CASE Clear(d) \/ PullAll(d) \/ EndUploads(d) \/ Persist(d) \/ Confirmed(d)
  BY <1>1, ClearKeeps, PullAllKeeps, EndUploadsKeeps, PersistKeeps, ConfirmedKeeps
<1>2. CASE \/ RecoveryDrain(d, "push", Keys \ BlobKeys, "ack push")
           \/ RecoveryDrain(d, "push blobs", BlobKeys, "ack blobs")
  BY <1>2, RecoveryDrainKeeps
<1>3. CASE \/ RecoveryAck(d, "ack push", "blobs")
           \/ RecoveryAck(d, "ack blobs", "persist")
  BY <1>3, RecoveryAckKeeps
<1> QED BY <1>1, <1>2, <1>3 DEF Recovery

(* No step disturbs the invariant.                                           *)
LEMMA RecoveryStep == IndInv /\ [Next]_vars => IndInv'
<1> SUFFICES ASSUME IndInv, [Next]_vars PROVE IndInv'
  OBVIOUS
<1>1. ASSUME NEW d \in Devices, Cycle(d) \/ Recovery(d) \/ Blobs(d) \/ User(d) \/ Befalls(d)
      PROVE  IndInv'
  BY <1>1, CycleKeeps, RecoveryKeeps, BlobsKeep, UserKeeps, BefallsKeeps
<1>2. ASSUME NEW k \in Keys, OtherPushes(k) PROVE IndInv'
  BY <1>2, OthersKeep
<1>3. CASE Restore \/ ReEpoch
  BY <1>3, RestoreKeeps, ReEpochKeeps
<1>4. CASE UNCHANGED vars
  <2>1. /\ server' = server /\ db' = db /\ run' = run /\ session' = session
        /\ skipped' = skipped /\ torn' = torn /\ minted' = minted /\ bound' = bound
    BY <1>4 DEF vars
  <2>2. TypeOK' /\ ServerInv'
    BY <2>1 DEF IndInv, TypeOK, ServerInv
  <2>3. Grows
    BY <2>1 DEF IndInv, TypeOK, Server, Grows
  <2>4. ASSUME NEW d \in Devices PROVE DeviceInv(d)'
    <3>1. Untouched(d)
      BY <2>1 DEF Untouched
    <3>2. db[d] \in Database /\ RunType(run[d]) /\ DeviceInv(d) /\ server \in Server /\ ServerInv
      BY DeviceFacts
    <3>3. server' \in Server
      BY <2>1, <3>2
    <3> QED BY <2>3, <3>1, <3>2, <3>3, UntouchedKeeps
  <2> QED BY <2>2, <2>4 DEF IndInv, DeviceInv
<1> QED BY <1>1, <1>2, <1>3, <1>4 DEF Next

(* The inductive invariant, for any number of devices, keys, pages and restores.*)
THEOREM Invariance == Spec => []IndInv
BY RecoveryStarts, RecoveryStep, PTL DEF Spec

(* Type correctness (TypeOK).                                                *)
THEOREM TypeCorrect == Spec => []TypeOK
<1>1. IndInv => TypeOK
  BY DEF IndInv
<1> QED BY <1>1, Invariance, PTL

(* A device that is through the recovery and has caught up holds what the server*)
(* holds (performRecovery, recovery.ts): what it had is not lost to the backup and*)
(* what others pushed is not hidden from it, however restores, crashes, locks and*)
(* writes fall between the steps.  The exception is a pull from zero that a restore*)
(* came into.                                                                *)
THEOREM DevicesReunited == Spec => []Reunited
<1>1. IndInv => Reunited
  <2>1. SUFFICES ASSUME IndInv, NEW d \in Devices \ torn, NEW k \in Keys,
                        InEpoch(d), run[d].pc = "idle", Seen(d, k), k \notin db[d].dead
                 PROVE  db[d].row[k] = server.content[k]
    BY DEF Reunited, Agrees
  <2>2. server \in Server /\ db[d] \in Database /\ DeviceInv(d)
    BY <2>1, DeviceFacts
  <2>3. ~Recovering(d) /\ Aligned(d)
    BY <2>1, <2>2, AlignedIs
  <2>4. Holds(db[d], k)
    BY <2>2, <2>3 DEF DeviceInv, KnowInv, ToPush
  <2>5. server.rev[k] <= db[d].watermark \/ server.rev[k] <= db[d].meta[k]
    <3>1. db[d].watermark \in Nat /\ db[d].meta[k] \in Nat /\ IsFiniteSet({db[d].meta[k]})
      BY <2>2, FS_Singleton DEF Database
    <3>2. PICK w \in Nat, m \in Nat : w = db[d].watermark /\ m = db[d].meta[k]
      BY <3>1
    <3>3. Max({w} \cup {m}) \in {w} \cup {m}
      BY <3>1, <3>2, MaxOfMore
    <3>4. {w, m} = {w} \cup {m}
      OBVIOUS
    <3> QED BY <2>1, <3>2, <3>3, <3>4 DEF Seen
  <2> QED BY <2>1, <2>4, <2>5 DEF Holds, Seen
<1> QED BY <1>1, Invariance, PTL

(* ... and, unless it passed over the inventory, the bytes it holds are in the bucket*)
(* (recoverBlobs, blob-recovery.ts).                                         *)
THEOREM BytesAreBack == Spec => []BytesClimbBackIfListed
<1>1. IndInv => BytesClimbBackIfListed
  <2>1. SUFFICES ASSUME IndInv, NEW d \in Devices \ torn, NEW k \in BlobKeys,
                        InEpoch(d), Wanted(d, k), ~db[d].asked, d \notin skipped
                 PROVE  k \in server.objects
    BY DEF BytesClimbBackIfListed
  <2>2. BytesInv(d)
    BY <2>1 DEF IndInv
  <2> QED BY <2>1, <2>2 DEF BytesInv, Wanted
<1> QED BY <1>1, Invariance, PTL

=============================================================================
