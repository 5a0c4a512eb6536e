-------------------------- MODULE SyncStoreProofs --------------------------
(***************************************************************************)
(* Proofs about SyncStore, for every set of ids, requests, devices and      *)
(* batches: its type invariant, its inductive invariant, the safety         *)
(* properties that follow from it, and that it implements ChangeFeed.        *)
(***************************************************************************)
EXTENDS SyncStore, Functions, FiniteSetTheorems, WellFoundedInduction, TLAPS

(* A family of subsets of a finite set has one that contains no other.        *)
LEMMA SmallestSubset ==
  ASSUME NEW S, IsFiniteSet(S), NEW F, F \subseteq SUBSET S, F # {}
  PROVE  \E T \in F : \A U \in SUBSET T : U # T => U \notin F
<1>1. F \subseteq FiniteSubsetsOf(S)
  BY FS_FiniteSubsetsOfFinite
<1>2. PICK T \in F : \A U \in F : <<U, T>> \notin StrictSubsetOrdering(S)
  BY <1>1, FS_StrictSubsetOrderingWellFounded, WFMin
<1>3. ASSUME NEW U \in SUBSET T, U # T, U \in F PROVE FALSE
  <2>1. <<U, T>> \in (SUBSET S) \X (SUBSET S)
    OBVIOUS
  <2>2. <<U, T>> \in StrictSubsetOrdering(S)
    BY <1>3, <2>1 DEF StrictSubsetOrdering
  <2> QED
    BY <1>2, <1>3, <2>2
<1> QED
  BY <1>2, <1>3

-----------------------------------------------------------------------------
(* Sums.                                                                     *)

Pick(S) == CHOOSE x \in S : TRUE

(* g gives every subset of S its sum under f, an element at a time.           *)
Tallies(g, f, S) ==
  g = [T \in SUBSET S |-> IF T = {} THEN 0 ELSE f[Pick(T)] + g[T \ {Pick(T)}]]

LEMMA PickIsThere ==
  ASSUME NEW S, S # {}
  PROVE  Pick(S) \in S
BY DEF Pick

LEMMA TallyOfNothing ==
  ASSUME NEW f, NEW S, NEW g, Tallies(g, f, S)
  PROVE  g[{}] = 0
BY DEF Tallies

LEMMA TallyStep ==
  ASSUME NEW f, NEW S, NEW g, Tallies(g, f, S), NEW T \in SUBSET S, T # {}
  PROVE  Pick(T) \in T /\ g[T] = f[Pick(T)] + g[T \ {Pick(T)}]
BY PickIsThere DEF Tallies

(* Two tallies agree on the sets they both tally.                            *)
LEMMA TalliesAgree ==
  ASSUME NEW f, NEW S, IsFiniteSet(S), NEW A \in SUBSET S, NEW B \in SUBSET S,
         NEW g, Tallies(g, f, A), NEW h, Tallies(h, f, B),
         NEW T \in SUBSET A, T \in SUBSET B
  PROVE  g[T] = h[T]
<1> DEFINE F == {U \in SUBSET T : g[U] # h[U]}
<1>1. SUFFICES ASSUME F # {} PROVE FALSE
  OBVIOUS
<1>2. IsFiniteSet(T)
  BY FS_Subset
<1>3. PICK U \in F : \A V \in SUBSET U : V # U => V \notin F
  <2>1. F \subseteq SUBSET T
    OBVIOUS
  <2> HIDE DEF F
  <2> QED BY <1>1, <1>2, <2>1, SmallestSubset
<1>4. U # {}
  BY TallyOfNothing
<1>5. Pick(U) \in U
  BY <1>4, TallyStep
<1>6. U \ {Pick(U)} \notin F /\ U \ {Pick(U)} \in SUBSET T
  BY <1>3, <1>5
<1>7. g[U \ {Pick(U)}] = h[U \ {Pick(U)}]
  BY <1>6
<1>8. U \in SUBSET A /\ U \in SUBSET B
  OBVIOUS
<1>9. g[U] = f[Pick(U)] + g[U \ {Pick(U)}] /\ h[U] = f[Pick(U)] + h[U \ {Pick(U)}]
  BY <1>4, <1>8, TallyStep
<1> QED BY <1>7, <1>9

(* The tally of a finite set exists: a smallest set without one would get its  *)
(* own from those of its proper subsets.                                     *)
LEMMA TallyExists ==
  ASSUME NEW f, NEW S, IsFiniteSet(S)
  PROVE  \E g : Tallies(g, f, S)
<1> DEFINE F == {T \in SUBSET S : ~ \E g : Tallies(g, f, T)}
<1>1. SUFFICES ASSUME F # {} PROVE FALSE
  OBVIOUS
<1>2. PICK T \in F : \A U \in SUBSET T : U # T => U \notin F
  <2>1. F \subseteq SUBSET S
    OBVIOUS
  <2> HIDE DEF F
  <2> QED BY <1>1, <2>1, SmallestSubset
<1> DEFINE sub(U) == CHOOSE g : Tallies(g, f, U)
           value(U) == IF U = {} THEN 0 ELSE f[Pick(U)] + sub(U \ {Pick(U)})[U \ {Pick(U)}]
           g == [U \in SUBSET T |-> value(U)]
<1>3. ASSUME NEW U \in SUBSET T, U # T PROVE Tallies(sub(U), f, U)
  <2>1. \E k : Tallies(k, f, U)
    BY <1>2, <1>3
  <2> QED BY <2>1
<1>4. ASSUME NEW U \in SUBSET T, U # T PROVE sub(U)[U] = value(U)
  <2> HIDE DEF sub
  <2>1. CASE U = {}
    BY <1>3, <1>4, <2>1, TallyOfNothing
  <2>2. CASE U # {}
    <3> DEFINE V == U \ {Pick(U)}
    <3>1. Pick(U) \in U
      BY <2>2, PickIsThere
    <3>2. Tallies(sub(U), f, U) /\ Tallies(sub(V), f, V)
      BY <1>3, <1>4, <3>1
    <3>3. sub(U)[V] = sub(V)[V]
      <4>1. U \in SUBSET S /\ V \in SUBSET S /\ V \in SUBSET U /\ V \in SUBSET V
        OBVIOUS
      <4>2. ASSUME NEW a, NEW b, Tallies(a, f, U), Tallies(b, f, V)
            PROVE  a[V] = b[V]
        <5> HIDE DEF V, F, g, value
        <5> QED BY <4>1, <4>2, TalliesAgree
      <4> HIDE DEF V
      <4> QED BY <3>2, <4>2
    <3>4. sub(U)[U] = f[Pick(U)] + sub(U)[V]
      <4>1. U \in SUBSET U
        OBVIOUS
      <4> QED BY <2>2, <3>2, <4>1, TallyStep
    <3> QED BY <2>2, <3>3, <3>4
  <2> QED BY <2>1, <2>2
<1>5. ASSUME NEW U \in SUBSET T, U # {}
      PROVE  sub(U \ {Pick(U)})[U \ {Pick(U)}] = g[U \ {Pick(U)}]
  <2> HIDE DEF sub, value
  <2>1. Pick(U) \in U
    BY <1>5, PickIsThere
  <2>2. U \ {Pick(U)} \in SUBSET T /\ U \ {Pick(U)} # T
    BY <2>1
  <2> QED BY <2>2, <1>4
<1>6. g = [U \in SUBSET T |-> IF U = {} THEN 0 ELSE f[Pick(U)] + g[U \ {Pick(U)}]]
  <2> HIDE DEF g
  <2>1. ASSUME NEW U \in SUBSET T
        PROVE  value(U) = IF U = {} THEN 0 ELSE f[Pick(U)] + g[U \ {Pick(U)}]
    <3> HIDE DEF sub
    <3> QED BY <1>5
  <2>2. g = [U \in SUBSET T |-> value(U)]
    BY DEF g
  <2> HIDE DEF value
  <2> QED BY <2>1, <2>2
<1>7. Tallies(g, f, T)
  <2> HIDE DEF g
  <2> QED BY <1>6 DEF Tallies
<1> QED BY <1>7

(* The sum is the tally's.                                                   *)
LEMMA SumIsTally ==
  ASSUME NEW f, NEW S, IsFiniteSet(S)
  PROVE  \E g : Tallies(g, f, S) /\ SumFunctionOnSet(f, S) = g[S]
<1> DEFINE tally == CHOOSE g : Tallies(g, f, S)
<1>1. Tallies(tally, f, S)
  BY TallyExists
<1>2. SumFunctionOnSet(f, S) = tally[S]
  BY DEF SumFunctionOnSet, FoldFunctionOnSet, MapThenFoldSet, Tallies, Pick
<1> QED BY <1>1, <1>2

(* Whatever the tally, an integer.                                           *)
LEMMA TallyIsInt ==
  ASSUME NEW f, NEW S, IsFiniteSet(S), \A x \in S : f[x] \in Int,
         NEW g, Tallies(g, f, S), NEW T \in SUBSET S
  PROVE  g[T] \in Int
<1> DEFINE F == {U \in SUBSET S : g[U] \notin Int}
<1>1. SUFFICES ASSUME F # {} PROVE FALSE
  OBVIOUS
<1>2. PICK U \in F : \A V \in SUBSET U : V # U => V \notin F
  <2>1. F \subseteq SUBSET S
    OBVIOUS
  <2> HIDE DEF F
  <2> QED BY <1>1, <2>1, SmallestSubset
<1>3. U # {}
  <2>1. g[{}] \in Int
    BY TallyOfNothing
  <2> QED BY <2>1
<1>4. Pick(U) \in U /\ g[U] = f[Pick(U)] + g[U \ {Pick(U)}]
  BY <1>3, TallyStep
<1>5. U \ {Pick(U)} \in SUBSET S /\ U \ {Pick(U)} \notin F
  BY <1>2, <1>4
<1>6. g[U \ {Pick(U)}] \in Int /\ f[Pick(U)] \in Int
  BY <1>4, <1>5
<1> QED BY <1>4, <1>6

(* Any element may be taken out first.                                       *)
LEMMA TallyTakes ==
  ASSUME NEW f, NEW S, IsFiniteSet(S), \A x \in S : f[x] \in Int,
         NEW g, Tallies(g, f, S), NEW x \in S
  PROVE  g[S] = f[x] + g[S \ {x}]
<1> DEFINE Obeys(U) == \A z \in U : g[U] = f[z] + g[U \ {z}]
           F == {U \in SUBSET S : ~ Obeys(U)}
<1>1. SUFFICES ASSUME F # {} PROVE FALSE
  OBVIOUS
<1>2. PICK U \in F : \A V \in SUBSET U : V # U => V \notin F
  <2>1. F \subseteq SUBSET S
    OBVIOUS
  <2> HIDE DEF F
  <2> QED BY <1>1, <2>1, SmallestSubset
<1>3. PICK z \in U : g[U] # f[z] + g[U \ {z}]
  OBVIOUS
<1> DEFINE y == Pick(U)
<1>4. y \in U /\ g[U] = f[y] + g[U \ {y}]
  <2>1. U \in SUBSET S /\ U # {}
    OBVIOUS
  <2> QED BY <2>1, TallyStep
<1>5. y # z
  BY <1>3, <1>4
<1> HIDE DEF y
<1>6. U \ {y} \in SUBSET S /\ U \ {z} \in SUBSET S /\ (U \ {z}) \ {y} \in SUBSET S
  OBVIOUS
<1>7. Obeys(U \ {y}) /\ Obeys(U \ {z})
  BY <1>2, <1>3, <1>4, <1>6
<1>8. (U \ {y}) \ {z} = (U \ {z}) \ {y}
  OBVIOUS
<1>9. g[U \ {y}] = f[z] + g[(U \ {z}) \ {y}] /\ g[U \ {z}] = f[y] + g[(U \ {z}) \ {y}]
  BY <1>3, <1>4, <1>5, <1>7, <1>8
<1>10. f[z] \in Int /\ f[y] \in Int /\ g[(U \ {z}) \ {y}] \in Int
  <2> HIDE DEF F, Obeys
  <2>1. U \in SUBSET S
    BY DEF F
  <2> QED BY <1>3, <1>4, <1>6, <2>1, TallyIsInt
<1>11. g[U] = f[z] + g[U \ {z}]
  <2> HIDE DEF F, Obeys
  <2> QED BY <1>4, <1>9, <1>10
<1> QED BY <1>3, <1>11

LEMMA SumOfNothing ==
  ASSUME NEW f
  PROVE  SumFunctionOnSet(f, {}) = 0
<1>1. PICK g : Tallies(g, f, {}) /\ SumFunctionOnSet(f, {}) = g[{}]
  BY FS_EmptySet, SumIsTally
<1> QED BY <1>1, TallyOfNothing

LEMMA SumIsInt ==
  ASSUME NEW f, NEW S, IsFiniteSet(S), \A x \in S : f[x] \in Int
  PROVE  SumFunctionOnSet(f, S) \in Int
<1>1. S \in SUBSET S
  OBVIOUS
<1> QED BY <1>1, SumIsTally, TallyIsInt

(* Only what the summands are counts.                                        *)
LEMMA SumSame ==
  ASSUME NEW f, NEW g, NEW S, IsFiniteSet(S), \A x \in S : f[x] = g[x]
  PROVE  SumFunctionOnSet(f, S) = SumFunctionOnSet(g, S)
<1>1. PICK h : Tallies(h, f, S) /\ SumFunctionOnSet(f, S) = h[S]
  BY SumIsTally
<1>2. PICK k : Tallies(k, g, S) /\ SumFunctionOnSet(g, S) = k[S]
  BY SumIsTally
<1>3. Tallies(k, f, S)
  BY <1>2, PickIsThere DEF Tallies
<1>4. S \in SUBSET S
  OBVIOUS
<1> QED BY <1>1, <1>2, <1>3, <1>4, TalliesAgree

(* The sum of all but one.                                                   *)
LEMMA SumTakes ==
  ASSUME NEW f, NEW S, IsFiniteSet(S), \A x \in S : f[x] \in Int, NEW x \in S
  PROVE  SumFunctionOnSet(f, S) = f[x] + SumFunctionOnSet(f, S \ {x})
<1> DEFINE R == S \ {x}
<1>1. PICK g : Tallies(g, f, S) /\ SumFunctionOnSet(f, S) = g[S]
  BY SumIsTally
<1>2. IsFiniteSet(R) /\ R \in SUBSET S /\ S \in SUBSET S /\ R \in SUBSET R
  BY FS_Subset
<1>3. PICK h : Tallies(h, f, R) /\ SumFunctionOnSet(f, R) = h[R]
  <2> HIDE DEF R
  <2> QED BY <1>2, SumIsTally
<1>4. g[R] = h[R]
  <2> HIDE DEF R
  <2> QED BY <1>1, <1>2, <1>3, TalliesAgree
<1>5. g[S] = f[x] + g[R]
  BY <1>1, TallyTakes
<1> QED BY <1>1, <1>3, <1>4, <1>5

(* One summand changes.                                                      *)
LEMMA SumChangesOne ==
  ASSUME NEW f, NEW g, NEW S, IsFiniteSet(S), NEW y \in S,
         \A x \in S : f[x] \in Int /\ g[x] \in Int,
         \A x \in S \ {y} : g[x] = f[x]
  PROVE  SumFunctionOnSet(g, S) = SumFunctionOnSet(f, S) - f[y] + g[y]
<1> DEFINE R == S \ {y}
<1>1. IsFiniteSet(R)
  BY FS_RemoveElement
<1>2. SumFunctionOnSet(f, S) = f[y] + SumFunctionOnSet(f, R)
  BY SumTakes
<1>3. SumFunctionOnSet(g, S) = g[y] + SumFunctionOnSet(g, R)
  BY SumTakes
<1>4. SumFunctionOnSet(f, R) = SumFunctionOnSet(g, R)
  <2> HIDE DEF R
  <2>1. \A x \in R : f[x] = g[x]
    BY DEF R
  <2> QED BY <1>1, <2>1, SumSame
<1>5. SumFunctionOnSet(f, R) \in Int
  <2>1. \A x \in R : f[x] \in Int
    OBVIOUS
  <2> HIDE DEF R
  <2> QED BY <1>1, <2>1, SumIsInt
<1>6. f[y] \in Int /\ g[y] \in Int
  OBVIOUS
<1> HIDE DEF R
<1> QED BY <1>2, <1>3, <1>4, <1>5, <1>6

(* A summand joins.                                                          *)
LEMMA SumGains ==
  ASSUME NEW f, NEW g, NEW S, IsFiniteSet(S), NEW y, y \notin S,
         \A x \in S : f[x] \in Int /\ g[x] = f[x], g[y] \in Int
  PROVE  SumFunctionOnSet(g, S \cup {y}) = SumFunctionOnSet(f, S) + g[y]
<1> DEFINE R == S \cup {y}
<1>1. IsFiniteSet(R) /\ y \in R /\ R \ {y} = S
  BY FS_AddElement
<1>2. \A x \in R : g[x] \in Int
  OBVIOUS
<1>3. SumFunctionOnSet(g, R) = g[y] + SumFunctionOnSet(g, S)
  <2> HIDE DEF R
  <2> QED BY <1>1, <1>2, SumTakes
<1>4. SumFunctionOnSet(g, S) = SumFunctionOnSet(f, S)
  BY SumSame
<1>5. SumFunctionOnSet(f, S) \in Int
  BY SumIsInt
<1> QED BY <1>3, <1>4, <1>5

(* Summands that are not negative give a sum that is not.                     *)
LEMMA SumIsNat ==
  ASSUME NEW f, NEW S, IsFiniteSet(S), \A x \in S : f[x] \in Nat
  PROVE  SumFunctionOnSet(f, S) \in Nat
<1> DEFINE F == {U \in SUBSET S : SumFunctionOnSet(f, U) \notin Nat}
<1>1. SUFFICES ASSUME F # {} PROVE FALSE
  <2>1. S \in SUBSET S
    OBVIOUS
  <2> QED BY <2>1
<1>2. PICK U \in F : \A V \in SUBSET U : V # U => V \notin F
  <2>1. F \subseteq SUBSET S
    OBVIOUS
  <2> HIDE DEF F
  <2> QED BY <1>1, <2>1, SmallestSubset
<1>3. U # {}
  <2>1. SumFunctionOnSet(f, {}) = 0
    BY SumOfNothing
  <2> QED BY <2>1
<1>4. PICK x \in U : TRUE
  BY <1>3
<1>5. U \ {x} \in SUBSET S /\ SumFunctionOnSet(f, U \ {x}) \in Nat
  BY <1>2
<1>6. IsFiniteSet(U) /\ \A z \in U : f[z] \in Int
  BY FS_Subset
<1>7. SumFunctionOnSet(f, U) = f[x] + SumFunctionOnSet(f, U \ {x})
  BY <1>6, SumTakes
<1>8. f[x] \in Nat
  OBVIOUS
<1> QED BY <1>5, <1>7, <1>8

LEMMA SumOfZeros ==
  ASSUME NEW f, NEW S, IsFiniteSet(S), \A x \in S : f[x] = 0
  PROVE  SumFunctionOnSet(f, S) = 0
<1> DEFINE F == {U \in SUBSET S : SumFunctionOnSet(f, U) # 0}
<1>1. SUFFICES ASSUME F # {} PROVE FALSE
  <2>1. S \in SUBSET S
    OBVIOUS
  <2> QED BY <2>1
<1>2. PICK U \in F : \A V \in SUBSET U : V # U => V \notin F
  <2>1. F \subseteq SUBSET S
    OBVIOUS
  <2> HIDE DEF F
  <2> QED BY <1>1, <2>1, SmallestSubset
<1>3. U # {}
  BY SumOfNothing
<1>4. PICK x \in U : TRUE
  BY <1>3
<1>5. U \ {x} \in SUBSET S /\ SumFunctionOnSet(f, U \ {x}) = 0
  BY <1>2
<1>6. IsFiniteSet(U) /\ \A z \in U : f[z] \in Int
  BY FS_Subset
<1>7. SumFunctionOnSet(f, U) = f[x] + SumFunctionOnSet(f, U \ {x})
  BY <1>6, SumTakes
<1> QED BY <1>5, <1>7

-----------------------------------------------------------------------------


(* What a batch still to be decided starts with is a pushed record.          *)
LEMMA NextRecord ==
  ASSUME NEW s \in Seq(PushRecord), s # <<>>
  PROVE  Head(s) \in PushRecord /\ Tail(s) \in Seq(PushRecord)
OBVIOUS

(* The transaction sees a row for every id.                                  *)
LEMMA CurrentIsRow ==
  ASSUME TypeOK, NEW p \in Pushers, NEW i \in Ids
  PROVE  Current(p, i) \in Row
BY DEF TypeOK, Current

(* A page gives stored rows to some of the ids.                              *)
LEMMA PageRows ==
  ASSUME TypeOK, NEW d \in Pullers
  PROVE  /\ OnPage(d) \subseteq Ids
         /\ \A i \in Ids : page[d][i] \in Row /\ page[d][i].rev \in Nat
BY DEF TypeOK, Row, OnPage

LEMMA AbsentIsRow == Absent \in Row
BY DEF Absent, Row

LEMMA EmptyPageType == EmptyPage \in [Ids -> Row]
BY AbsentIsRow DEF EmptyPage

(* What each accepting verdict tells of the row and the record.              *)
LEMMA VerdictFacts ==
  ASSUME NEW row \in Row, NEW rec \in PushRecord, NEW n \in Int, NEW k \in Nat
  PROVE  /\ Verdict(row, rec, n, k) = "write" =>
              /\ ~rec.deleted
              /\ row.deleted => ProviderRepair(row, rec)
              /\ Exists(row) => row.rev = rec.baseRev /\ row.collection = rec.collection
         /\ Verdict(row, rec, n, k) = "delete" =>
              rec.deleted /\ ~row.deleted /\ k > 0
         /\ Verdict(row, rec, n, k) = "already_deleted" => row.deleted
BY DEF Verdict, StaleBase, Spent, Row, PushRecord, Exists

(* The rows an accepted record leaves.                                       *)
LEMMA WrittenRows ==
  ASSUME NEW row \in Row, NEW rec \in PushRecord, NEW r \in Nat
  PROVE  /\ LiveRow(rec, r) \in Row
         /\ LiveRow(rec, r).rev = r
         /\ LiveRow(rec, r).collection = rec.collection
         /\ Tombstone(row, rec, r) \in Row
         /\ Tombstone(row, rec, r).rev = r
         /\ Exists(row) => Tombstone(row, rec, r).collection = row.collection
BY DEF LiveRow, Tombstone, Row, PushRecord

LEMMA SizesAreInts ==
  ASSUME NEW row \in Row
  PROVE  ByteSize(row) \in Nat
BY RulesAssumption DEF ByteSize, Row

LEMMA BytesAfterInt ==
  ASSUME NEW n \in Int, NEW row \in Row, NEW m \in Nat
  PROVE  BytesAfter(n, row, m) \in Int
BY SizesAreInts DEF BytesAfter

(* Writing a row in the open transaction keeps the types.                    *)
LEMMA WriteRowType ==
  ASSUME TypeOK, NEW p \in Pushers, Deciding(p), NEW row \in Row, WriteRow(p, row)
  PROVE  /\ writes' \in [Pushers -> [Ids -> Row]]
         /\ txHead' \in [Pushers -> Nat]
         /\ txBytes' \in [Pushers -> Int]
         /\ accepted' \in [Pushers -> SUBSET Version]
         /\ oks' \in [Pushers -> SUBSET (Ids \X Nat)]
<1> DEFINE rec == Head(todo[p])
<1>1. rec \in PushRecord
  BY NextRecord DEF TypeOK, Deciding
<1>2. rec.id \in Ids /\ rec.baseRev \in Nat /\ rec.deleted \in BOOLEAN /\ row.rev \in Nat
  BY <1>1 DEF PushRecord, Row
<1>3. BytesAfter(txBytes[p], Current(p, rec.id), ByteSize(row)) \in Int
  BY <1>2, CurrentIsRow, SizesAreInts, BytesAfterInt DEF TypeOK
<1>4. [id |-> rec.id, rev |-> row.rev, baseRev |-> rec.baseRev,
       deleted |-> rec.deleted] \in Version
  BY <1>2 DEF Version
<1>5. writes' \in [Pushers -> [Ids -> Row]]
  BY <1>2 DEF TypeOK, WriteRow
<1>6. txHead' \in [Pushers -> Nat]
  BY <1>2 DEF TypeOK, WriteRow
<1>7. txBytes' \in [Pushers -> Int]
  BY <1>3 DEF TypeOK, WriteRow
<1>8. accepted' \in [Pushers -> SUBSET Version]
  BY <1>4 DEF TypeOK, WriteRow
<1>9. oks' \in [Pushers -> SUBSET (Ids \X Nat)]
  <2>1. <<rec.id, row.rev>> \in Ids \X Nat
    BY <1>2
  <2>2. oks[p] \cup {<<rec.id, row.rev>>} \in SUBSET (Ids \X Nat)
    BY <2>1 DEF TypeOK
  <2> QED BY <2>2 DEF TypeOK, WriteRow
<1> QED BY <1>5, <1>6, <1>7, <1>8, <1>9

(* The window grants no more deletes than were asked for, a natural number.   *)
LEMMA GrantIsNat ==
  ASSUME NEW n, NEW granted \in 0 .. n
  PROVE  granted \in Nat
OBVIOUS

(* Every reachable state is well typed: no rev, allowance or page ever leaves *)
(* its range, on any interleaving of pushes, pulls, aborts and lost answers. *)
THEOREM TypeCorrect == Spec => []TypeOK
<1>1. Init => TypeOK
  BY AbsentIsRow, EmptyPageType DEF Init, TypeOK, NoWrites
<1>2. TypeOK /\ [Next]_vars => TypeOK'
  <2> SUFFICES ASSUME TypeOK, [Next]_vars PROVE TypeOK'
    OBVIOUS
  <2> USE DEF TypeOK
  <2>1. ASSUME NEW p \in Pushers, NEW batch \in Batches, Begin(p, batch) PROVE TypeOK'
    <3>1. batch \in Seq(PushRecord)
      BY StoreAssumption
    <3>2. deleteAllowance' \in [Pushers -> Nat]
      BY <2>1, GrantIsNat DEF Begin, Open
    <3> QED BY <2>1, <3>1, <3>2 DEF Begin, Open, pullVars
  <2>2. ASSUME NEW p \in Pushers, AcceptWrite(p) PROVE TypeOK'
    <3>1. Deciding(p) /\ Head(todo[p]) \in PushRecord /\ Tail(todo[p]) \in Seq(PushRecord)
      BY <2>2, NextRecord DEF AcceptWrite, Deciding
    <3>2. txHead[p] + 1 \in Nat
      OBVIOUS
    <3>3. LiveRow(Head(todo[p]), txHead[p] + 1) \in Row
      BY <3>1, <3>2, AbsentIsRow, WrittenRows
    <3>4. WriteRow(p, LiveRow(Head(todo[p]), txHead[p] + 1))
      BY <2>2 DEF AcceptWrite
    <3>5. /\ writes' \in [Pushers -> [Ids -> Row]]
          /\ txHead' \in [Pushers -> Nat]
          /\ txBytes' \in [Pushers -> Int]
          /\ accepted' \in [Pushers -> SUBSET Version]
          /\ oks' \in [Pushers -> SUBSET (Ids \X Nat)]
      <4> HIDE DEF TypeOK
      <4> QED BY <3>1, <3>3, <3>4, WriteRowType
    <3> QED BY <2>2, <3>1, <3>5 DEF AcceptWrite, Deciding, dbVars, pullVars
  <2>3. ASSUME NEW p \in Pushers, AcceptDelete(p) PROVE TypeOK'
    <3> DEFINE rec == Head(todo[p])
               row == Current(p, rec.id)
    <3>1. Deciding(p) /\ rec \in PushRecord /\ Tail(todo[p]) \in Seq(PushRecord)
      BY <2>3, NextRecord DEF AcceptDelete, Deciding
    <3>2. row \in Row
      BY <3>1, CurrentIsRow DEF PushRecord
    <3>3. Tombstone(row, rec, txHead[p] + 1) \in Row
      <4>1. txHead[p] + 1 \in Nat
        OBVIOUS
      <4> QED BY <3>1, <3>2, <4>1, WrittenRows
    <3>4. deleteAllowance[p] - 1 \in Nat
      BY <2>3, <3>1, <3>2, VerdictFacts DEF AcceptDelete, NextVerdict
    <3>5. deleteAllowance' \in [Pushers -> Nat]
      BY <2>3, <3>4 DEF AcceptDelete
    <3>6. WriteRow(p, Tombstone(row, rec, txHead[p] + 1))
      BY <2>3 DEF AcceptDelete
    <3>7. /\ writes' \in [Pushers -> [Ids -> Row]]
          /\ txHead' \in [Pushers -> Nat]
          /\ txBytes' \in [Pushers -> Int]
          /\ accepted' \in [Pushers -> SUBSET Version]
          /\ oks' \in [Pushers -> SUBSET (Ids \X Nat)]
      <4> HIDE DEF TypeOK, rec, row
      <4> QED BY <3>1, <3>3, <3>6, WriteRowType
    <3> QED BY <2>3, <3>1, <3>5, <3>7 DEF AcceptDelete, Deciding, dbVars, pullVars
  <2>4. ASSUME NEW p \in Pushers, RepeatDelete(p) PROVE TypeOK'
    <3>1. Deciding(p) /\ Head(todo[p]) \in PushRecord /\ Tail(todo[p]) \in Seq(PushRecord)
      BY <2>4, NextRecord DEF RepeatDelete, Deciding
    <3>2. /\ Head(todo[p]).id \in Ids
          /\ Current(p, Head(todo[p]).id).rev \in Nat
      <4>1. Head(todo[p]).id \in Ids
        BY <3>1 DEF PushRecord
      <4>2. Current(p, Head(todo[p]).id) \in Row
        BY <4>1, CurrentIsRow
      <4> QED BY <4>1, <4>2 DEF Row
    <3> QED BY SMTT(20), <2>4, <3>1, <3>2 DEF RepeatDelete, Deciding, dbVars, pullVars
  <2>5. ASSUME NEW p \in Pushers, Refuse(p) PROVE TypeOK'
    <3>1. Tail(todo[p]) \in Seq(PushRecord)
      BY <2>5, NextRecord DEF Refuse, Deciding
    <3> QED BY <2>5, <3>1 DEF Refuse, Deciding, dbVars, pullVars
  <2>6. ASSUME NEW p \in Pushers, Commit(p) PROVE TypeOK'
    <3>1. records' \in [Ids -> Row]
      BY <2>6, CurrentIsRow DEF Commit
    <3>2. writes' \in [Pushers -> [Ids -> Row]]
      BY <2>6, AbsentIsRow DEF Commit, EndTransaction, NoWrites
    <3>3. history' \subseteq Version
      BY <2>6 DEF Commit
    <3>4. /\ pc' \in [Pushers -> {"idle", "open", "committed", "answering"}]
          /\ todo' \in [Pushers -> Seq(PushRecord)]
          /\ head' \in Nat /\ totalBytes' \in Int /\ lock' \in Pushers \cup {Nobody}
      BY <2>6 DEF Commit, EndTransaction
    <3>5. /\ txHead' \in [Pushers -> Nat] /\ txBytes' \in [Pushers -> Int]
          /\ deleteAllowance' \in [Pushers -> Nat]
          /\ accepted' \in [Pushers -> SUBSET Version]
      BY <2>6 DEF EndTransaction, Commit
    <3> QED BY <2>6, <3>1, <3>2, <3>3, <3>4, <3>5 DEF Commit, pullVars
  <2>7. ASSUME NEW p \in Pushers, Abort(p) PROVE TypeOK'
    <3>1. writes' \in [Pushers -> [Ids -> Row]]
      BY <2>7, AbsentIsRow DEF Abort, EndTransaction, NoWrites
    <3> QED BY <2>7, <3>1 DEF Abort, EndTransaction, pullVars
  <2>8. ASSUME NEW p \in Pushers, Publish(p) PROVE TypeOK'
    BY <2>8 DEF Publish, dbVars, pullVars
  <2>9. ASSUME NEW p \in Pushers, Answer(p) PROVE TypeOK'
    BY <2>9 DEF Answer, dbVars, pullVars
  <2>10. ASSUME NEW p \in Pushers, LoseAnswer(p) PROVE TypeOK'
    BY <2>10 DEF LoseAnswer, dbVars, pullVars
  <2>11. ASSUME NEW d \in Pullers, Pull(d) PROVE TypeOK'
    <3> PICK S \in PageIds(watermark[d]) :
               page' = [page EXCEPT ![d] =
                          [i \in Ids |-> IF i \in S THEN records[i] ELSE Absent]]
      BY <2>11 DEF Pull
    <3>1. [i \in Ids |-> IF i \in S THEN records[i] ELSE Absent] \in [Ids -> Row]
      BY AbsentIsRow
    <3> QED BY <2>11, <3>1 DEF Pull, dbVars, pushVars
  <2>12. ASSUME NEW d \in Pullers, Deliver(d) PROVE TypeOK'
    <3>1. watermark' \in [Pullers -> Nat]
      BY <2>12, PageRows DEF Deliver
    <3>2. seen' \in [Pullers -> [Ids -> Nat]]
      BY <2>12, PageRows DEF Deliver
    <3>3. page' \in [Pullers -> [Ids -> Row]]
      BY <2>12, EmptyPageType DEF Deliver
    <3>4. asking' \in [Pullers -> BOOLEAN]
      BY <2>12 DEF Deliver
    <3> QED BY <2>12, <3>1, <3>2, <3>3, <3>4 DEF Deliver, dbVars, pushVars
  <2>13. ASSUME NEW d \in Pullers, LosePage(d) PROVE TypeOK'
    BY <2>13, EmptyPageType DEF LosePage, dbVars, pushVars
  <2>14. CASE UNCHANGED vars
    BY <2>14 DEF vars, dbVars, pushVars, pullVars
  <2> QED
    BY <2>1, <2>2, <2>3, <2>4, <2>5, <2>6, <2>7, <2>8, <2>9, <2>10, <2>11,
       <2>12, <2>13, <2>14 DEF Next, Push, Device
<1> QED BY <1>1, <1>2, PTL DEF Spec

-----------------------------------------------------------------------------
(* The inductive invariant, part by part.                                    *)

LEMMA LockInvStep == TypeOK /\ LockInv /\ [Next]_vars => LockInv'
<1> SUFFICES ASSUME TypeOK, LockInv, [Next]_vars PROVE LockInv'
  OBVIOUS
<1> USE StoreAssumption DEF LockInv, TypeOK
<1>1. ASSUME NEW p \in Pushers, NEW batch \in Batches, Begin(p, batch) PROVE LockInv'
  BY <1>1 DEF Begin, Open
<1>2. ASSUME NEW p \in Pushers, Deciding(p), AcceptWrite(p) \/ AcceptDelete(p)
      PROVE LockInv'
  BY <1>2 DEF AcceptWrite, AcceptDelete, WriteRow, Deciding, dbVars
<1>3. ASSUME NEW p \in Pushers, Deciding(p), RepeatDelete(p) \/ Refuse(p)
      PROVE LockInv'
  BY <1>3 DEF RepeatDelete, Refuse, Deciding, dbVars
<1>4. ASSUME NEW p \in Pushers, Commit(p) PROVE LockInv'
  BY <1>4 DEF Commit, EndTransaction
<1>5. ASSUME NEW p \in Pushers, Abort(p) PROVE LockInv'
  BY <1>5 DEF Abort, EndTransaction
<1>6. ASSUME NEW p \in Pushers, Publish(p) \/ Answer(p) \/ LoseAnswer(p) PROVE LockInv'
  BY SMTT(20), <1>6 DEF Publish, Answer, LoseAnswer, dbVars
<1>7. ASSUME NEW d \in Pullers, Device(d) PROVE LockInv'
  BY <1>7 DEF Device, Pull, Deliver, LosePage, dbVars, pushVars
<1>8. CASE UNCHANGED vars
  BY <1>8 DEF vars, dbVars, pushVars
<1> QED
  BY <1>1, <1>2, <1>3, <1>4, <1>5, <1>6, <1>7, <1>8
     DEF Next, Push, AcceptWrite, AcceptDelete, RepeatDelete, Refuse

(* An accepted record of the open transaction: the rev is the next one, and   *)
(* only p's own transaction is touched.                                     *)
Accepting(p, rec, row) ==
  /\ Deciding(p)
  /\ rec = Head(todo[p])
  /\ row.rev = txHead[p] + 1
  /\ row.deleted = rec.deleted
  /\ WriteRow(p, row)
  /\ \/ /\ NextVerdict(p) = "write"
        /\ ~rec.deleted
        /\ row.collection = rec.collection
        /\ Current(p, rec.id).deleted => ProviderRepair(Current(p, rec.id), rec)
        /\ Exists(Current(p, rec.id)) =>
             /\ Current(p, rec.id).rev = rec.baseRev
             /\ Current(p, rec.id).collection = rec.collection
     \/ /\ NextVerdict(p) = "delete"
        /\ rec.deleted
        /\ ~Current(p, rec.id).deleted
        /\ row.collection = IF Exists(Current(p, rec.id))
                            THEN Current(p, rec.id).collection ELSE rec.collection

LEMMA AcceptingSteps ==
  ASSUME TypeOK, NEW p \in Pushers, AcceptWrite(p) \/ AcceptDelete(p)
  PROVE  \E rec \in PushRecord, row \in Row : Accepting(p, rec, row)
<1> DEFINE rec == Head(todo[p])
           cur == Current(p, rec.id)
<1>1. Deciding(p) /\ rec \in PushRecord
  BY NextRecord DEF AcceptWrite, AcceptDelete, Deciding, TypeOK
<1>2. rec.id \in Ids
  BY <1>1 DEF PushRecord
<1>3. cur \in Row /\ txHead[p] + 1 \in Nat /\ txBytes[p] \in Int /\ deleteAllowance[p] \in Nat
  <2>1. cur \in Row
    BY <1>2, CurrentIsRow
  <2> QED BY <2>1 DEF TypeOK
<1> DEFINE verdict == Verdict(cur, rec, txBytes[p], deleteAllowance[p])
<1>f. /\ verdict = "write" =>
           /\ ~rec.deleted
           /\ cur.deleted => ProviderRepair(cur, rec)
           /\ Exists(cur) => cur.rev = rec.baseRev /\ cur.collection = rec.collection
      /\ verdict = "delete" => rec.deleted /\ ~cur.deleted
  BY <1>1, <1>3, VerdictFacts
<1>n. NextVerdict(p) = verdict
  BY DEF NextVerdict
<1>4. CASE AcceptWrite(p)
  <2> DEFINE row == LiveRow(rec, txHead[p] + 1)
  <2>a. NextVerdict(p) = "write" /\ WriteRow(p, row)
    BY <1>4 DEF AcceptWrite
  <2>b. row.rev = txHead[p] + 1 /\ row.collection = rec.collection /\ row.deleted = FALSE
    <3> HIDE DEF rec, cur, verdict
    <3> QED BY DEF LiveRow
  <2>1. Accepting(p, rec, row)
    <3> HIDE DEF rec, cur, row, verdict
    <3>1. rec = Head(todo[p]) /\ cur = Current(p, rec.id)
      BY DEF rec, cur
    <3>2. row.deleted = rec.deleted
      <4>1. rec.deleted \in BOOLEAN
        BY <1>1 DEF PushRecord
      <4>2. ~rec.deleted
        BY <1>f, <1>n, <2>a
      <4> QED BY <2>b, <4>1, <4>2
    <3> QED BY <1>1, <1>f, <1>n, <2>a, <2>b, <3>1, <3>2 DEF Accepting
  <2>2. LiveRow(rec, txHead[p] + 1) \in Row
    BY <1>1, <1>3, WrittenRows
  <2> QED BY <1>1, <2>1, <2>2
<1>5. CASE AcceptDelete(p)
  <2> DEFINE row == Tombstone(cur, rec, txHead[p] + 1)
  <2>a. NextVerdict(p) = "delete" /\ WriteRow(p, row)
    BY <1>5 DEF AcceptDelete
  <2>b. /\ row.rev = txHead[p] + 1 /\ row.deleted = TRUE
        /\ row.collection = IF Exists(cur) THEN cur.collection ELSE rec.collection
    <3> HIDE DEF rec, cur, verdict
    <3> QED BY DEF Tombstone
  <2>1. Accepting(p, rec, row)
    <3> HIDE DEF rec, cur, row, verdict
    <3>1. rec = Head(todo[p]) /\ cur = Current(p, rec.id)
      BY DEF rec, cur
    <3>2. row.deleted = rec.deleted
      <4>1. rec.deleted \in BOOLEAN
        BY <1>1 DEF PushRecord
      <4>2. rec.deleted
        BY <1>f, <1>n, <2>a
      <4> QED BY <2>b, <4>1, <4>2
    <3> QED BY <1>1, <1>f, <1>n, <2>a, <2>b, <3>1, <3>2 DEF Accepting
  <2>2. Tombstone(cur, rec, txHead[p] + 1) \in Row
    BY <1>1, <1>3, WrittenRows
  <2> QED BY <1>1, <2>1, <2>2
<1> QED BY <1>4, <1>5

LEMMA RevInvStep == TypeOK /\ LockInv /\ RevInv /\ [Next]_vars => RevInv'
<1> SUFFICES ASSUME TypeOK, LockInv, RevInv, [Next]_vars PROVE RevInv'
  OBVIOUS
<1>1. ASSUME NEW p \in Pushers, NEW batch \in Batches, Begin(p, batch) PROVE RevInv'
  <2>1. writes[p] = NoWrites
    BY <1>1 DEF LockInv, Begin, Open
  <2>2. \A q \in Pushers : pc'[q] = "open" => q = p
    BY <1>1, StoreAssumption DEF LockInv, Begin, Open
  <2>3. /\ UNCHANGED <<records, head, writes>>
        /\ txHead'[p] = head
    BY <1>1 DEF Begin, Open, TypeOK
  <2>4. head \in Nat /\ ~ head > head
    BY DEF TypeOK
  <2> QED BY <2>1, <2>2, <2>3, <2>4 DEF RevInv, RevsDistinct, NoWrites, Absent, Exists
<1>2. ASSUME NEW p \in Pushers, AcceptWrite(p) \/ AcceptDelete(p) PROVE RevInv'
  <2>1. PICK rec \in PushRecord, row \in Row : Accepting(p, rec, row)
    BY <1>2, AcceptingSteps
  <2>2. /\ UNCHANGED <<records, head, pc>>
        /\ pc[p] = "open"
        /\ txHead' = [txHead EXCEPT ![p] = txHead[p] + 1]
        /\ writes' = [writes EXCEPT ![p][rec.id] = row]
        /\ row.rev = txHead[p] + 1
        /\ rec.id \in Ids
    BY <2>1 DEF Accepting, Deciding, WriteRow, PushRecord, dbVars
  <2>3. \A q \in Pushers : pc[q] = "open" => q = p
    BY <2>2 DEF LockInv
  <2>4. /\ head \in Nat /\ txHead[p] \in Nat /\ txHead'[p] = txHead[p] + 1
        /\ writes'[p] = [writes[p] EXCEPT ![rec.id] = row]
        /\ \A i \in Ids : writes[p][i].rev \in Nat /\ writes'[p][i].rev \in Nat
    BY <2>2 DEF TypeOK, Row
  <2>5. /\ head <= txHead[p]
        /\ \A i \in Ids : Exists(writes[p][i]) =>
             head < writes[p][i].rev /\ writes[p][i].rev <= txHead[p]
        /\ \A i, j \in Ids :
             Exists(writes[p][i]) /\ writes[p][i].rev = writes[p][j].rev => i = j
    BY <2>2 DEF RevInv
  <2>6. \A i \in Ids : writes'[p][i] = IF i = rec.id THEN row ELSE writes[p][i]
    BY <2>4, <2>2 DEF TypeOK
  <2>7. /\ head <= txHead'[p]
        /\ \A i \in Ids : Exists(writes'[p][i]) =>
             head < writes'[p][i].rev /\ writes'[p][i].rev <= txHead'[p]
    BY <2>2, <2>4, <2>5, <2>6 DEF Exists
  <2>8. \A i, j \in Ids :
          Exists(writes'[p][i]) /\ writes'[p][i].rev = writes'[p][j].rev => i = j
    BY <2>2, <2>4, <2>5, <2>6 DEF Exists
  <2>9. \E i \in Ids : writes'[p][i].rev = txHead'[p]
    BY <2>2, <2>4, <2>6
  <2> QED BY <2>2, <2>3, <2>7, <2>8, <2>9 DEF RevInv, RevsDistinct, Exists
<1>3. ASSUME NEW p \in Pushers, RepeatDelete(p) \/ Refuse(p) PROVE RevInv'
  BY <1>3 DEF RevInv, RevsDistinct, Exists, RepeatDelete, Refuse, Deciding, dbVars
<1>4. ASSUME NEW p \in Pushers, Commit(p) PROVE RevInv'
  <2>1. /\ pc[p] = "open"
        /\ records' = [i \in Ids |-> Current(p, i)]
        /\ head' = txHead[p]
    BY <1>4 DEF Commit
  <2>2. \A q \in Pushers : pc'[q] # "open"
    BY <1>4, <2>1 DEF Commit, LockInv, TypeOK
  <2>3. /\ head \in Nat /\ txHead[p] \in Nat
        /\ \A i \in Ids : writes[p][i].rev \in Nat /\ records[i].rev \in Nat
    BY DEF TypeOK, Row
  <2>4. /\ head <= txHead[p]
        /\ \A i \in Ids : Exists(writes[p][i]) =>
             head < writes[p][i].rev /\ writes[p][i].rev <= txHead[p]
        /\ \A i, j \in Ids :
             Exists(writes[p][i]) /\ writes[p][i].rev = writes[p][j].rev => i = j
        /\ txHead[p] > head => \E i \in Ids : writes[p][i].rev = txHead[p]
    BY <2>1 DEF RevInv
  <2>5. \A i \in Ids : records'[i] =
          IF Exists(writes[p][i]) THEN writes[p][i] ELSE records[i]
    BY <2>1 DEF Current
  <2>6. \A i \in Ids : records[i].rev <= head
    BY DEF RevInv
  <2>7. \A i \in Ids : records'[i].rev <= head'
    BY <2>1, <2>3, <2>4, <2>5, <2>6 DEF Exists
  <2>8. RevsDistinct'
    BY <2>1, <2>3, <2>4, <2>5, <2>6 DEF RevInv, RevsDistinct, Exists
  <2>9. head' > 0 => \E i \in Ids : records'[i].rev = head'
    <3>1. CASE txHead[p] > head
      BY <3>1, <2>1, <2>3, <2>4, <2>5 DEF Exists
    <3>2. CASE txHead[p] = head
      <4>1. \A i \in Ids : ~Exists(writes[p][i])
        BY <3>2, <2>3, <2>4
      <4> QED BY <4>1, <3>2, <2>1, <2>5 DEF RevInv
    <3> QED BY <3>1, <3>2, <2>3, <2>4
  <2> QED BY <2>2, <2>7, <2>8, <2>9 DEF RevInv
<1>5. ASSUME NEW p \in Pushers, Abort(p) PROVE RevInv'
  <2>1. /\ UNCHANGED <<records, head>>
        /\ \A q \in Pushers : pc'[q] # "open"
    BY <1>5 DEF Abort, LockInv, TypeOK
  <2> QED BY <2>1 DEF RevInv, RevsDistinct, Exists
<1>6. ASSUME NEW p \in Pushers, Publish(p) \/ Answer(p) \/ LoseAnswer(p) PROVE RevInv'
  <2>1. /\ UNCHANGED <<records, head, writes, txHead>>
        /\ \A q \in Pushers : pc'[q] = "open" => pc[q] = "open"
    BY <1>6 DEF Publish, Answer, LoseAnswer, dbVars, TypeOK
  <2> QED BY <2>1 DEF RevInv, RevsDistinct, Exists
<1>7. ASSUME UNCHANGED <<dbVars, pushVars>> PROVE RevInv'
  BY <1>7 DEF RevInv, RevsDistinct, Exists, dbVars, pushVars
<1> QED
  BY <1>1, <1>2, <1>3, <1>4, <1>5, <1>6, <1>7
     DEF Next, Push, Device, Pull, Deliver, LosePage, vars

(* A step changes the database only by committing, and a row it changes gets  *)
(* a rev above the old head.                                                *)
LEMMA CommittedRevs ==
  ASSUME TypeOK, LockInv, RevInv, [Next]_vars
  PROVE  /\ head \in Nat /\ head' \in Nat /\ head <= head'
         /\ \A i \in Ids : /\ records[i].rev \in Nat
                           /\ records'[i].rev \in Nat
                           /\ \/ records'[i] = records[i]
                              \/ head < records'[i].rev /\ Exists(records'[i])
<1>1. ASSUME NEW p \in Pushers, Commit(p)
      PROVE  /\ head' = txHead[p]
             /\ \A i \in Ids : records'[i] =
                  IF Exists(writes[p][i]) THEN writes[p][i] ELSE records[i]
  BY <1>1 DEF Commit, Current
<1>2. ASSUME NEW p \in Pushers, Commit(p)
      PROVE  /\ head <= txHead[p]
             /\ \A i \in Ids : Exists(writes[p][i]) => head < writes[p][i].rev
  BY <1>2 DEF Commit, RevInv
<1>3. /\ head \in Nat
      /\ \A p \in Pushers : txHead[p] \in Nat
      /\ \A i \in Ids : records[i].rev \in Nat
      /\ \A p \in Pushers, i \in Ids : writes[p][i].rev \in Nat
  BY DEF TypeOK, Row
<1>4. CASE \E p \in Pushers : Commit(p)
  BY <1>1, <1>2, <1>3, <1>4
<1>5. CASE UNCHANGED <<records, head>>
  BY <1>3, <1>5
<1>6. UNCHANGED <<records, head>> \/ \E p \in Pushers : Commit(p)
  BY DEF Next, Push, Device, Begin, Open, AcceptWrite, AcceptDelete, RepeatDelete,
         Refuse, Deciding, Abort, Publish, Answer, LoseAnswer, Pull, Deliver,
         LosePage, vars, dbVars
<1> QED BY <1>4, <1>5, <1>6

(* The only steps that change what a device holds are its own.               *)
LEMMA DeviceSteps ==
  ASSUME [Next]_vars
  PROVE  \/ UNCHANGED pullVars
         \/ \E d \in Pullers : Device(d) /\ UNCHANGED dbVars
BY DEF Next, Push, Device, Begin, Open, AcceptWrite, AcceptDelete, RepeatDelete,
       Refuse, Deciding, Commit, Abort, Publish, Answer, LoseAnswer, Pull, Deliver,
       LosePage, vars

LEMMA PageInvStep ==
  TypeOK /\ LockInv /\ RevInv /\ PageInv /\ [Next]_vars => PageInv'
<1> SUFFICES ASSUME TypeOK, LockInv, RevInv, PageInv, [Next]_vars PROVE PageInv'
  OBVIOUS
<1>1. CASE UNCHANGED pullVars
  <2>1. page' = page /\ watermark' = watermark /\ \A d \in Pullers : OnPage(d)' = OnPage(d)
    BY <1>1 DEF pullVars, OnPage
  <2>2. \A d \in Pullers : watermark[d] \in Nat /\ \A j \in OnPage(d) : page[d][j].rev \in Nat
    BY PageRows DEF TypeOK
  <2>3. ASSUME NEW d \in Pullers, NEW j \in OnPage(d)
        PROVE  /\ watermark[d] < page[d][j].rev
               /\ page[d][j].rev <= head'
               /\ page[d][j].rev <= records'[j].rev
    BY <2>2, CommittedRevs, PageRows DEF PageInv
  <2>4. ASSUME NEW d \in Pullers, NEW j \in OnPage(d), NEW i \in Ids,
               Exists(records'[i]), records'[i].rev <= page[d][j].rev
        PROVE  \/ records'[i].rev <= watermark[d]
               \/ i \in OnPage(d) /\ page[d][i].rev = records'[i].rev
    <3>1. page[d][j].rev <= head /\ page[d][j].rev \in Nat
      BY <2>2 DEF PageInv
    <3>2. records'[i] = records[i]
      BY <3>1, <2>4, CommittedRevs
    <3> QED BY <3>2, <2>4 DEF PageInv
  <2> QED BY <2>1, <2>2, <2>3, <2>4, CommittedRevs DEF PageInv
<1>2. ASSUME NEW d \in Pullers, Device(d), UNCHANGED dbVars PROVE PageInv'
  <2>1. records' = records /\ head' = head
    BY <1>2 DEF dbVars
  <2>2. /\ head \in Nat /\ \A i \in Ids : records[i].rev \in Nat
        /\ \A e \in Pullers : watermark[e] \in Nat
    BY DEF TypeOK, Row
  <2>3. CASE Pull(d)
    <3>1. PICK S \in PageIds(watermark[d]) :
               page' = [page EXCEPT ![d] =
                          [i \in Ids |-> IF i \in S THEN records[i] ELSE Absent]]
      BY <2>3 DEF Pull
    <3>2. watermark' = watermark
      BY <2>3 DEF Pull
    <3>3. /\ S \subseteq Ids
          /\ \A i \in S : records[i].rev > watermark[d]
          /\ \A i \in S, j \in Ids :
               records[j].rev > watermark[d] /\ records[j].rev < records[i].rev => j \in S
      BY DEF PageIds, Prefixes, Newer
    <3>4. page'[d] = [i \in Ids |-> IF i \in S THEN records[i] ELSE Absent]
          /\ \A e \in Pullers \ {d} : page'[e] = page[e]
      BY <3>1 DEF TypeOK
    <3>5. \A j \in S : records[j].rev <= head
      BY <3>3 DEF RevInv
    <3>6. ASSUME NEW j \in S, NEW i \in Ids, Exists(records[i]),
                 records[i].rev <= records[j].rev, ~(records[i].rev <= watermark[d])
          PROVE  i \in S
      <4>1. CASE records[i].rev < records[j].rev
        BY <4>1, <3>3, <3>6, <2>2
      <4>2. CASE records[i].rev = records[j].rev
        <5>1. i = j
          BY <4>2, <3>3, <3>6 DEF RevInv, RevsDistinct
        <5> QED BY <5>1
      <4>3. records[j].rev \in Nat /\ records[i].rev \in Nat
        BY <3>3, <2>2
      <4> QED BY <4>1, <4>2, <4>3, <3>6
    <3>7. ASSUME NEW e \in Pullers, e # d
          PROVE  page'[e] = page[e] /\ watermark'[e] = watermark[e]
      BY <3>4, <3>7, <3>2
    <3>8. /\ OnPage(d)' = S
          /\ \A i \in S : page'[d][i] = records[i]
          /\ watermark'[d] = watermark[d]
      <4>1. \A i \in Ids : page'[d][i] = IF i \in S THEN records[i] ELSE Absent
        BY <3>4
      <4>2. \A i \in S : Exists(records[i])
        BY <3>3, <2>2 DEF Exists
      <4> QED BY <4>1, <4>2, <3>2, <3>3 DEF OnPage, Exists, Absent
    <3>9. \A e \in Pullers : e # d => OnPage(e)' = OnPage(e)
      BY <3>7 DEF OnPage
    <3> QED BY <2>1, <2>2, <3>3, <3>5, <3>6, <3>7, <3>8, <3>9 DEF PageInv
  <2>4. CASE Deliver(d)
    <3>1. page' = [page EXCEPT ![d] = EmptyPage]
      BY <2>4 DEF Deliver
    <3>2. \/ watermark' = watermark
          \/ \E last \in OnPage(d) :
               watermark' = [watermark EXCEPT ![d] = page[d][last].rev]
      BY <2>4 DEF Deliver
    <3>3. watermark'[d] <= head
      BY <3>2 DEF PageInv, TypeOK
    <3>4. \A e \in Pullers \ {d} : page'[e] = page[e] /\ watermark'[e] = watermark[e]
      BY <3>1, <3>2 DEF TypeOK
    <3>5. OnPage(d)' = {} /\ \A e \in Pullers \ {d} : OnPage(e)' = OnPage(e)
      BY <3>1, <3>4 DEF TypeOK, EmptyPage, OnPage, Exists, Absent
    <3> QED BY <2>1, <3>3, <3>4, <3>5 DEF PageInv
  <2>5. CASE LosePage(d)
    <3>1. page' = [page EXCEPT ![d] = EmptyPage] /\ watermark' = watermark
      BY <2>5 DEF LosePage
    <3>2. OnPage(d)' = {} /\ \A e \in Pullers \ {d} :
                              page'[e] = page[e] /\ OnPage(e)' = OnPage(e)
      BY <3>1 DEF TypeOK, EmptyPage, OnPage, Exists, Absent
    <3> QED BY <2>1, <3>1, <3>2 DEF PageInv
  <2> QED BY <1>2, <2>3, <2>4, <2>5 DEF Device
<1> QED BY <1>1, <1>2, DeviceSteps

LEMMA NoSkippedRecordStep ==
  TypeOK /\ LockInv /\ RevInv /\ PageInv /\ NoSkippedRecord /\ [Next]_vars
    => NoSkippedRecord'
<1> SUFFICES ASSUME TypeOK, LockInv, RevInv, PageInv, NoSkippedRecord, [Next]_vars
             PROVE  NoSkippedRecord'
  OBVIOUS
<1>1. CASE UNCHANGED pullVars
  <2>1. watermark' = watermark /\ seen' = seen
    BY <1>1 DEF pullVars
  <2>2. \A d \in Pullers : watermark[d] \in Nat /\ watermark[d] <= head
    BY DEF TypeOK, PageInv
  <2> QED BY <2>1, <2>2, CommittedRevs DEF NoSkippedRecord
<1>2. ASSUME NEW d \in Pullers, Device(d), UNCHANGED dbVars PROVE NoSkippedRecord'
  <2>1. records' = records
    BY <1>2 DEF dbVars
  <2>2. CASE Pull(d) \/ LosePage(d)
    BY <2>1, <2>2 DEF Pull, LosePage, NoSkippedRecord
  <2>3. CASE Deliver(d)
    <3>1. seen' = [seen EXCEPT ![d] = [i \in Ids |->
                     IF i \in OnPage(d) THEN page[d][i].rev ELSE seen[d][i]]]
      BY <2>3 DEF Deliver
    <3>2. \A i \in Ids : seen'[d][i] =
            IF i \in OnPage(d) THEN page[d][i].rev ELSE seen[d][i]
      BY <3>1 DEF TypeOK
    <3>3. \A e \in Pullers \ {d} : seen'[e] = seen[e] /\ watermark'[e] = watermark[e]
      BY <2>3, <3>1 DEF Deliver, TypeOK
    <3>4. ASSUME NEW i \in Ids, Exists(records[i]), records[i].rev <= watermark'[d]
          PROVE  seen'[d][i] = records[i].rev
      <4>1. CASE OnPage(d) = {} /\ watermark' = watermark
        BY <4>1, <3>2, <3>4 DEF NoSkippedRecord
      <4>2. ASSUME NEW last \in OnPage(d),
                   watermark' = [watermark EXCEPT ![d] = page[d][last].rev]
            PROVE  seen'[d][i] = records[i].rev
        <5>1. records[i].rev <= page[d][last].rev
          BY <4>2, <3>4 DEF TypeOK
        <5>2. \/ records[i].rev <= watermark[d]
              \/ i \in OnPage(d) /\ page[d][i].rev = records[i].rev
          BY <5>1, <3>4 DEF PageInv
        <5>3. i \in OnPage(d) => watermark[d] < page[d][i].rev
          BY DEF PageInv
        <5>4. CASE i \in OnPage(d) /\ page[d][i].rev = records[i].rev
          BY <5>4, <3>2
        <5>5. CASE i \notin OnPage(d)
          BY <5>2, <5>5, <3>2, <3>4 DEF NoSkippedRecord
        <5>6. ASSUME i \in OnPage(d), records[i].rev <= watermark[d] PROVE FALSE
          <6>1. watermark[d] < page[d][i].rev /\ page[d][i].rev <= records[i].rev
            BY <5>6 DEF PageInv
          <6>2. watermark[d] \in Nat /\ page[d][i].rev \in Nat /\ records[i].rev \in Nat
            BY <5>6, PageRows DEF TypeOK, Row
          <6> QED BY <5>6, <6>1, <6>2
        <5> QED BY <5>2, <5>4, <5>5, <5>6
      <4> QED BY <4>1, <4>2, <2>3 DEF Deliver
    <3> QED BY <2>1, <3>3, <3>4 DEF NoSkippedRecord
  <2> QED BY <1>2, <2>2, <2>3 DEF Device
<1> QED BY <1>1, <1>2, DeviceSteps

(* What the open transaction sees of a row is no older than any version of    *)
(* it, committed or its own.                                                *)
LEMMA VersionsBelowCurrent ==
  ASSUME TypeOK, LockInv, RevInv, HistoryInv, NEW p \in Pushers, pc[p] = "open",
         NEW v \in history \cup accepted[p]
  PROVE  /\ v.id \in Ids /\ v.rev \in Nat /\ 0 < v.rev
         /\ v.rev <= Current(p, v.id).rev
         /\ v \in accepted[p] => v.rev <= txHead[p] /\ head < v.rev
         /\ v \in history => v.rev <= head
<1>1. v \in Version
  BY DEF TypeOK
<1>2. v.id \in Ids /\ v.rev \in Nat
  BY <1>1 DEF Version
<1>3. /\ records[v.id].rev \in Nat /\ writes[p][v.id].rev \in Nat
      /\ head \in Nat /\ txHead[p] \in Nat
  BY <1>2 DEF TypeOK, Row
<1>4. /\ records[v.id].rev <= head
      /\ Exists(writes[p][v.id]) =>
           head < writes[p][v.id].rev /\ writes[p][v.id].rev <= txHead[p]
  BY <1>2 DEF RevInv
<1>5. CASE v \in history
  <2>1. 0 < v.rev /\ v.rev <= records[v.id].rev
    BY <1>5 DEF HistoryInv
  <2>2. v.rev <= Current(p, v.id).rev
    BY <2>1, <1>2, <1>3, <1>4 DEF Current
  <2>3. v \in accepted[p] => FALSE
    BY <2>1, <1>2, <1>3, <1>4 DEF HistoryInv
  <2> QED BY <1>2, <1>3, <1>4, <2>1, <2>2, <2>3
<1>6. CASE v \in accepted[p]
  <2>1. head < v.rev /\ v.rev <= writes[p][v.id].rev
    BY <1>6 DEF HistoryInv
  <2>2. Exists(writes[p][v.id])
    BY <2>1, <1>2, <1>3 DEF Exists
  <2>3. v \in history => v.rev <= records[v.id].rev
    BY DEF HistoryInv
  <2> QED BY <1>2, <1>3, <1>4, <2>1, <2>2, <2>3 DEF Current
<1> QED BY <1>5, <1>6

LEMMA HistoryInvStep ==
  TypeOK /\ LockInv /\ RevInv /\ HistoryInv /\ [Next]_vars => HistoryInv'
<1> SUFFICES ASSUME TypeOK, LockInv, RevInv, HistoryInv, [Next]_vars PROVE HistoryInv'
  OBVIOUS
<1>1. ASSUME NEW p \in Pushers, AcceptWrite(p) \/ AcceptDelete(p) PROVE HistoryInv'
  <2>1. PICK rec \in PushRecord, row \in Row : Accepting(p, rec, row)
    BY <1>1, AcceptingSteps
  <2> DEFINE new == [id |-> rec.id, rev |-> row.rev, baseRev |-> rec.baseRev,
                     deleted |-> rec.deleted]
             cur == Current(p, rec.id)
  <2>2. /\ UNCHANGED <<records, head, history>>
        /\ pc[p] = "open"
        /\ accepted' = [accepted EXCEPT ![p] = accepted[p] \cup {new}]
        /\ writes' = [writes EXCEPT ![p][rec.id] = row]
        /\ row.rev = txHead[p] + 1
        /\ rec.id \in Ids /\ rec.baseRev \in Nat
        /\ ~rec.deleted => (Exists(cur) => cur.rev = rec.baseRev)
    BY <2>1, <1>1 DEF Accepting, Deciding, WriteRow, PushRecord, dbVars
  <2>3. /\ accepted'[p] = accepted[p] \cup {new}
        /\ \A q \in Pushers \ {p} : accepted'[q] = {}
    BY <2>2 DEF TypeOK, LockInv
  <2>4. /\ writes'[p][rec.id] = row
        /\ \A i \in Ids \ {rec.id} : writes'[p][i] = writes[p][i]
    BY <2>2 DEF TypeOK
  <2>5. head \in Nat /\ txHead[p] \in Nat /\ head <= txHead[p]
    BY <2>2 DEF TypeOK, RevInv
  <2>6. ASSUME NEW w \in accepted'[p]
        PROVE  head < w.rev /\ w.rev <= writes'[p][w.id].rev
    <3>1. CASE w = new
      BY <3>1, <2>2, <2>4, <2>5
    <3>2. CASE w \in accepted[p]
      <4>1. /\ w.id \in Ids /\ w.rev \in Nat /\ w.rev <= txHead[p] /\ head < w.rev
        BY <3>2, <2>2, VersionsBelowCurrent
      <4>2. w.rev <= writes[p][w.id].rev
        BY <3>2 DEF HistoryInv
      <4> QED BY <4>1, <4>2, <2>2, <2>4, <2>5
    <3> QED BY <3>1, <3>2, <2>3
  <2>7. ASSUME NEW w \in accepted'[p], NEW v \in history \cup accepted'[p],
               v.id = w.id, v.rev < w.rev, ~w.deleted
        PROVE  w.baseRev >= v.rev
    <3>1. CASE w = new /\ v \in history \cup accepted[p]
      <4>1. v.id \in Ids /\ v.rev \in Nat /\ 0 < v.rev /\ v.rev <= cur.rev
        BY <3>1, <2>2, <2>7, VersionsBelowCurrent
      <4>2. cur.rev \in Nat
        BY <2>2, CurrentIsRow DEF Row
      <4>3. Exists(cur)
        BY <4>1, <4>2 DEF Exists
      <4> QED BY <3>1, <4>1, <4>2, <4>3, <2>2, <2>7
    <3>2. CASE w \in accepted[p] /\ v = new
      <4>1. w.rev \in Nat /\ w.rev <= txHead[p]
        BY <3>2, <2>2, VersionsBelowCurrent
      <4> QED BY <3>2, <4>1, <2>2, <2>5, <2>7
    <3>3. CASE w \in accepted[p] /\ v \in history \cup accepted[p]
      BY <3>3, <2>7 DEF HistoryInv
    <3>4. CASE w = new /\ v = new
      BY <3>4, <2>2, <2>5, <2>7
    <3> QED BY <3>1, <3>2, <3>3, <3>4, <2>3
  <2>8. history' = history /\ records' = records /\ head' = head
    BY <2>2
  <2> HIDE DEF new
  <2> QED BY <2>3, <2>6, <2>7, <2>8 DEF HistoryInv, NoLostUpdate
<1>2. ASSUME NEW p \in Pushers, Commit(p) PROVE HistoryInv'
  <2>1. /\ pc[p] = "open"
        /\ history' = history \cup accepted[p]
        /\ \A i \in Ids : records'[i] = Current(p, i)
        /\ \A q \in Pushers : accepted'[q] = {}
    BY <1>2 DEF Commit, EndTransaction, LockInv, TypeOK
  <2>2. \A v \in history' : 0 < v.rev /\ v.rev <= records'[v.id].rev
    BY <2>1, VersionsBelowCurrent
  <2>3. ASSUME NEW v \in history', NEW w \in history', v.id = w.id, v.rev < w.rev,
               ~w.deleted
        PROVE  w.baseRev >= v.rev
    <3>1. CASE w \in accepted[p]
      BY <3>1, <2>1, <2>3 DEF HistoryInv
    <3>2. CASE w \in history /\ v \in history
      BY <3>2, <2>3 DEF HistoryInv, NoLostUpdate
    <3>3. CASE w \in history /\ v \in accepted[p]
      <4>1. w.rev \in Nat /\ v.rev \in Nat /\ w.rev <= head /\ head < v.rev
        BY <3>3, <2>1, VersionsBelowCurrent
      <4> QED BY <4>1, <2>3 DEF TypeOK
    <3> QED BY <3>1, <3>2, <3>3, <2>1
  <2> QED BY <2>1, <2>2, <2>3 DEF HistoryInv, NoLostUpdate
<1>3. ASSUME NEW p \in Pushers, Abort(p) PROVE HistoryInv'
  <2>1. /\ UNCHANGED <<records, head, history>>
        /\ \A q \in Pushers : accepted'[q] = {}
    BY <1>3 DEF Abort, EndTransaction, LockInv, TypeOK
  <2> QED BY <2>1 DEF HistoryInv, NoLostUpdate
<1>4. ASSUME UNCHANGED <<records, head, history, accepted, writes>> PROVE HistoryInv'
  BY <1>4 DEF HistoryInv, NoLostUpdate
<1> QED
  BY <1>1, <1>2, <1>3, <1>4
     DEF Next, Push, Device, Begin, Open, RepeatDelete, Refuse, Deciding, Publish,
         Answer, LoseAnswer, Pull, Deliver, LosePage, vars, dbVars, pushVars

LEMMA OksInvStep == TypeOK /\ LockInv /\ RevInv /\ OksInv /\ [Next]_vars => OksInv'
<1> SUFFICES ASSUME TypeOK, LockInv, RevInv, OksInv, [Next]_vars PROVE OksInv'
  OBVIOUS
<1>a. ASSUME NEW a \in acked PROVE records'[a[1]].rev >= a[2]
  <2>1. a[1] \in Ids /\ a[2] \in Nat /\ records[a[1]].rev >= a[2]
    BY DEF TypeOK, OksInv, AckedIsStored
  <2>2. records[a[1]].rev <= head
    BY <2>1 DEF RevInv
  <2> QED BY <2>1, <2>2, CommittedRevs
<1>1. ASSUME NEW p \in Pushers, AcceptWrite(p) \/ AcceptDelete(p) PROVE OksInv'
  <2>1. PICK rec \in PushRecord, row \in Row : Accepting(p, rec, row)
    BY <1>1, AcceptingSteps
  <2>2. /\ UNCHANGED <<records, acked>>
        /\ pc[p] = "open"
        /\ oks' = [oks EXCEPT ![p] = oks[p] \cup {<<rec.id, row.rev>>}]
        /\ writes' = [writes EXCEPT ![p][rec.id] = row]
        /\ row.rev = txHead[p] + 1
        /\ rec.id \in Ids
    BY <2>1, <1>1 DEF Accepting, Deciding, WriteRow, PushRecord, dbVars
  <2>3. /\ txHead[p] \in Nat /\ head \in Nat /\ head <= txHead[p]
        /\ \A i \in Ids : Current(p, i).rev \in Nat /\ Current(p, i).rev <= txHead[p]
    <3>1. txHead[p] \in Nat /\ head \in Nat /\ head <= txHead[p]
      BY <2>2 DEF TypeOK, RevInv
    <3>2. ASSUME NEW i \in Ids
          PROVE  Current(p, i).rev \in Nat /\ Current(p, i).rev <= txHead[p]
      <4>1. Current(p, i).rev \in Nat
        BY CurrentIsRow DEF Row
      <4>2. records[i].rev <= head /\ records[i].rev \in Nat
        BY DEF RevInv, TypeOK, Row
      <4> QED BY <2>2, <3>1, <4>1, <4>2 DEF RevInv, Current
    <3> QED BY <3>1, <3>2
  <2>4. /\ \A i \in Ids : Current(p, i)' = IF i = rec.id THEN row ELSE Current(p, i)
    BY <2>2, <2>3 DEF Current, TypeOK, Exists
  <2>5. \A q \in Pushers \ {p}, i \in Ids : Current(q, i)' = Current(q, i)
    BY <2>2 DEF Current, TypeOK
  <2>6. ASSUME NEW o \in oks'[p] PROVE o[2] <= Current(p, o[1])'.rev
    <3>1. CASE o = <<rec.id, row.rev>>
      BY <3>1, <2>2, <2>3, <2>4
    <3>2. CASE o \in oks[p]
      <4>1. o[1] \in Ids /\ o[2] \in Nat /\ o[2] <= Current(p, o[1]).rev
        BY <3>2 DEF TypeOK, OksInv
      <4> QED BY <4>1, <2>2, <2>3, <2>4
    <3> QED BY <3>1, <3>2, <2>2 DEF TypeOK
  <2>7. ASSUME NEW q \in Pushers \ {p}, NEW o \in oks'[q]
        PROVE  o[2] <= Current(q, o[1])'.rev
    <3>1. o \in oks[q]
      BY <2>2 DEF TypeOK
    <3>2. o[1] \in Ids /\ o[2] <= Current(q, o[1]).rev
      BY <3>1 DEF TypeOK, OksInv
    <3> QED BY <3>2, <2>5
  <2> QED BY <2>2, <2>6, <2>7 DEF OksInv, AckedIsStored
<1>2. ASSUME NEW p \in Pushers, RepeatDelete(p) PROVE OksInv'
  <2> DEFINE rec == Head(todo[p])
  <2>1. rec.id \in Ids
    BY <1>2, NextRecord DEF RepeatDelete, Deciding, TypeOK, PushRecord
  <2>2. /\ UNCHANGED <<records, writes, acked>>
        /\ oks' = [oks EXCEPT ![p] = oks[p] \cup {<<rec.id, Current(p, rec.id).rev>>}]
    BY <1>2 DEF RepeatDelete, Deciding, dbVars
  <2>3. \A q \in Pushers, i \in Ids : Current(q, i)' = Current(q, i)
    BY <2>2 DEF Current
  <2>4. Current(p, rec.id).rev \in Nat
    BY <2>1, CurrentIsRow DEF Row
  <2>5. ASSUME NEW q \in Pushers, NEW o \in oks'[q] PROVE o[2] <= Current(q, o[1])'.rev
    <3>1. CASE o \in oks[q]
      <4>1. o[1] \in Ids /\ o[2] <= Current(q, o[1]).rev
        BY <3>1 DEF TypeOK, OksInv
      <4> QED BY <4>1, <2>3
    <3>2. CASE q = p /\ o = <<rec.id, Current(p, rec.id).rev>>
      BY <3>2, <2>1, <2>3, <2>4
    <3> QED BY <3>1, <3>2, <2>2 DEF TypeOK
  <2> QED BY <2>2, <2>5 DEF OksInv, AckedIsStored
<1>3. ASSUME NEW p \in Pushers, Commit(p) PROVE OksInv'
  <2>1. /\ UNCHANGED <<oks, acked>>
        /\ pc[p] = "open"
        /\ \A i \in Ids : records'[i] = Current(p, i)
        /\ writes' = [writes EXCEPT ![p] = NoWrites]
    BY <1>3 DEF Commit, EndTransaction
  <2>2. \A q \in Pushers : writes'[q] = NoWrites
    BY <2>1 DEF TypeOK, LockInv
  <2>3. \A q \in Pushers, i \in Ids : Current(q, i)' = records'[i]
    BY <2>2 DEF Current, NoWrites, Absent, Exists
  <2>4. ASSUME NEW q \in Pushers, NEW o \in oks[q] PROVE o[2] <= Current(q, o[1])'.rev
    <3>1. o[1] \in Ids /\ o[2] \in Nat /\ o[2] <= Current(q, o[1]).rev
      BY DEF TypeOK, OksInv
    <3>2. CASE q = p
      BY <3>1, <3>2, <2>1, <2>3
    <3>3. CASE q # p
      <4>1. Current(q, o[1]) = records[o[1]]
        BY <3>1, <3>3, <2>1 DEF LockInv, Current, NoWrites, Absent, Exists
      <4>2. records[o[1]].rev <= head
        BY <3>1 DEF RevInv
      <4> QED BY <3>1, <4>1, <4>2, <2>3, CommittedRevs
    <3> QED BY <3>2, <3>3
  <2> QED BY <1>a, <2>1, <2>4 DEF OksInv, AckedIsStored
<1>4. ASSUME NEW p \in Pushers, Abort(p) PROVE OksInv'
  <2>1. /\ UNCHANGED <<records, acked>>
        /\ oks' = [oks EXCEPT ![p] = {}]
        /\ \A q \in Pushers \ {p} : writes'[q] = writes[q]
    BY <1>4 DEF Abort, EndTransaction, TypeOK
  <2>2. \A q \in Pushers \ {p} : oks'[q] = oks[q]
        /\ \A i \in Ids : Current(q, i)' = Current(q, i)
    BY <2>1 DEF Current, TypeOK
  <2>3. oks'[p] = {}
    BY <2>1 DEF TypeOK
  <2>4. ASSUME NEW q \in Pushers, NEW o \in oks'[q] PROVE o[2] <= Current(q, o[1])'.rev
    <3>1. q # p /\ o \in oks[q]
      BY <2>2, <2>3
    <3>2. o[1] \in Ids /\ o[2] <= Current(q, o[1]).rev
      BY <3>1 DEF TypeOK, OksInv
    <3> QED BY <3>1, <3>2, <2>2
  <2> QED BY <2>1, <2>4 DEF OksInv, AckedIsStored
<1>5. ASSUME NEW p \in Pushers, Answer(p) \/ LoseAnswer(p) PROVE OksInv'
  <2>1. /\ UNCHANGED <<records, writes>>
        /\ pc[p] # "open"
        /\ oks' = [oks EXCEPT ![p] = {}]
        /\ acked' \subseteq acked \cup oks[p]
    BY <1>5 DEF Answer, LoseAnswer, dbVars
  <2>2. \A q \in Pushers : oks'[q] \subseteq oks[q]
        /\ \A i \in Ids : Current(q, i)' = Current(q, i)
    BY <2>1 DEF Current, TypeOK
  <2>3. ASSUME NEW q \in Pushers, NEW o \in oks'[q] PROVE o[2] <= Current(q, o[1])'.rev
    <3>1. o \in oks[q] /\ o[1] \in Ids
      BY <2>2 DEF TypeOK
    <3> QED BY <3>1, <2>2 DEF OksInv
  <2>4. ASSUME NEW o \in oks[p] PROVE records'[o[1]].rev >= o[2]
    <3>1. o[1] \in Ids /\ o[2] \in Nat /\ o[2] <= Current(p, o[1]).rev
      BY DEF TypeOK, OksInv
    <3>2. Current(p, o[1]) = records[o[1]]
      BY <3>1, <2>1 DEF LockInv, Current, NoWrites, Absent, Exists
    <3>3. records[o[1]].rev \in Nat
      BY <3>1 DEF TypeOK, Row
    <3> QED BY <3>1, <3>2, <3>3, <2>1
  <2> QED BY <1>a, <2>1, <2>3, <2>4 DEF OksInv, AckedIsStored
<1>6. ASSUME UNCHANGED <<records, writes, oks, acked>> PROVE OksInv'
  <2>1. \A q \in Pushers, i \in Ids : Current(q, i)' = Current(q, i)
    BY <1>6 DEF Current
  <2>2. ASSUME NEW q \in Pushers, NEW o \in oks[q] PROVE o[2] <= Current(q, o[1])'.rev
    BY <2>1 DEF OksInv, TypeOK
  <2> QED BY <1>6, <2>2 DEF OksInv, AckedIsStored
<1> QED
  BY <1>1, <1>2, <1>3, <1>4, <1>5, <1>6
     DEF Next, Push, Device, Begin, Open, Refuse, Deciding, Publish, Pull, Deliver,
         LosePage, vars, dbVars, pushVars

(* While a transaction is open no other commits, so the tombstones it was     *)
(* decided against are the ones it replaces.                                *)
LEMMA TombstoneInvStep ==
  TypeOK /\ LockInv /\ RevInv /\ TombstoneInv /\ [Next]_vars => TombstoneInv'
<1> SUFFICES ASSUME TypeOK, LockInv, RevInv, TombstoneInv, [Next]_vars PROVE TombstoneInv'
  OBVIOUS
<1>1. ASSUME NEW p \in Pushers, AcceptWrite(p) \/ AcceptDelete(p) PROVE TombstoneInv'
  <2>1. PICK rec \in PushRecord, row \in Row : Accepting(p, rec, row)
    BY <1>1, AcceptingSteps
  <2> DEFINE cur == Current(p, rec.id)
  <2>2. /\ records' = records
        /\ writes' = [writes EXCEPT ![p][rec.id] = row]
        /\ rec.id \in Ids
        /\ row.rev = txHead[p] + 1 /\ txHead[p] \in Nat
        /\ \/ /\ row.collection = rec.collection
              /\ cur.deleted => ProviderRepair(cur, rec)
              /\ Exists(cur) => cur.collection = rec.collection
           \/ /\ ~cur.deleted
              /\ Exists(cur) => row.collection = cur.collection
    BY <2>1 DEF Accepting, Deciding, WriteRow, PushRecord, dbVars, TypeOK
  <2>3. ASSUME NEW i \in Ids, Exists(writes'[p][i]), records[i].deleted
        PROVE  records[i].collection = "providers" /\ writes'[p][i].collection = "providers"
    <3>1. CASE i # rec.id
      BY <2>2, <2>3, <3>1 DEF TypeOK, TombstoneInv
    <3>2. CASE i = rec.id /\ Exists(writes[p][i])
      <4>1. /\ cur = writes[p][i] /\ cur.collection = "providers" /\ Exists(cur)
            /\ records[i].collection = "providers"
        BY <3>2, <2>3 DEF Current, TombstoneInv
      <4>2. CASE cur.deleted
        BY <4>1, <4>2, <3>2, <2>2 DEF ProviderRepair, TypeOK
      <4>3. CASE row.collection = rec.collection /\ cur.collection = rec.collection
        BY <4>1, <4>3, <3>2, <2>2 DEF TypeOK
      <4>4. CASE ~cur.deleted /\ row.collection = cur.collection
        BY <4>1, <4>4, <3>2, <2>2 DEF TypeOK
      <4> QED BY <4>1, <4>2, <4>3, <4>4, <2>2
    <3>3. CASE i = rec.id /\ ~Exists(writes[p][i])
      <4>1. cur = records[i] /\ cur.deleted
        BY <3>3, <2>3 DEF Current
      <4> QED BY <4>1, <3>3, <2>2 DEF ProviderRepair, TypeOK
    <3> QED BY <3>1, <3>2, <3>3
  <2>4. \A q \in Pushers \ {p} : writes'[q] = writes[q]
    BY <2>2 DEF TypeOK
  <2> QED BY <2>2, <2>3, <2>4 DEF TombstoneInv
<1>2. ASSUME NEW p \in Pushers, Commit(p) \/ Abort(p) PROVE TombstoneInv'
  <2>1. pc[p] = "open" /\ writes' = [writes EXCEPT ![p] = NoWrites]
    BY <1>2 DEF Commit, Abort, EndTransaction
  <2>2. \A q \in Pushers : writes'[q] = NoWrites
    BY <2>1 DEF LockInv, TypeOK
  <2> QED BY <2>2 DEF TombstoneInv, NoWrites, Absent, Exists
<1>3. ASSUME UNCHANGED <<records, writes>> PROVE TombstoneInv'
  BY <1>3 DEF TombstoneInv
<1> QED
  BY <1>1, <1>2, <1>3
     DEF Next, Push, Device, Begin, Open, RepeatDelete, Refuse, Deciding, Publish,
         Answer, LoseAnswer, Pull, Deliver, LosePage, vars, dbVars, pushVars

(* What an accepting verdict tells of the bytes: the row fits, or is a         *)
(* tombstone and holds none.                                                 *)
LEMMA VerdictBytes ==
  ASSUME NEW row \in Row, NEW rec \in PushRecord, NEW n \in Int, NEW k \in Nat, NEW r \in Nat
  PROVE  /\ Verdict(row, rec, n, k) = "write" =>
              BytesAfter(n, row, ByteSize(LiveRow(rec, r))) <= QuotaBytes
         /\ ByteSize(Tombstone(row, rec, r)) = 0
<1>1. rec.val \in Vals
  BY DEF PushRecord
<1>2. ByteSize(LiveRow(rec, r)) = Size[rec.val]
  BY <1>1 DEF ByteSize, LiveRow
<1>3. Verdict(row, rec, n, k) = "write" => ~(BytesAfter(n, row, Size[rec.val]) > QuotaBytes)
  BY DEF Verdict
<1>4. BytesAfter(n, row, Size[rec.val]) \in Int /\ QuotaBytes \in Int
  BY <1>1, BytesAfterInt, RulesAssumption
<1>5. ByteSize(Tombstone(row, rec, r)) = 0
  BY RulesAssumption DEF ByteSize, Tombstone
<1> QED BY <1>2, <1>3, <1>4, <1>5

(* The ciphertext lengths of a table of rows.                                  *)
LEMMA SizesTyped ==
  ASSUME NEW R \in [Ids -> Row], NEW j \in Ids
  PROVE  Sizes(R)[j] = ByteSize(R[j]) /\ Sizes(R)[j] \in Int
<1>1. R[j] \in Row
  OBVIOUS
<1>2. ByteSize(R[j]) \in Int
  BY <1>1, SizesAreInts
<1> QED BY <1>2 DEF Sizes

(* The sum of the stored bytes follows the replacement of one row.            *)
LEMMA SizesChangeOne ==
  ASSUME NEW R \in [Ids -> Row], NEW Q \in [Ids -> Row], NEW i \in Ids, NEW row \in Row,
         Q[i] = row, \A j \in Ids \ {i} : Q[j] = R[j]
  PROVE  SumFunctionOnSet(Sizes(Q), Ids)
           = BytesAfter(SumFunctionOnSet(Sizes(R), Ids), R[i], ByteSize(row))
<1>1. \A j \in Ids : Sizes(R)[j] \in Int /\ Sizes(Q)[j] \in Int
  BY SizesTyped
<1>2. \A j \in Ids \ {i} : Sizes(Q)[j] = Sizes(R)[j]
  BY SizesTyped
<1>3. Sizes(R)[i] = ByteSize(R[i]) /\ Sizes(Q)[i] = ByteSize(row)
  BY SizesTyped
<1> DEFINE f == Sizes(R)
           g == Sizes(Q)
<1>4. SumFunctionOnSet(g, Ids) = SumFunctionOnSet(f, Ids) - f[i] + g[i]
  <2> HIDE DEF f, g
  <2>1. IsFiniteSet(Ids)
    BY StoreAssumption
  <2>2. \A j \in Ids : f[j] \in Int /\ g[j] \in Int
    BY <1>1 DEF f, g
  <2>3. \A j \in Ids \ {i} : g[j] = f[j]
    BY <1>2 DEF f, g
  <2> QED BY <2>1, <2>2, <2>3, SumChangesOne
<1> QED BY <1>3, <1>4 DEF BytesAfter

(* Every step keeps the count exact: that of the account and, because only the *)
(* holder of its lock changes it, that of the open transaction.              *)
LEMMA BytesInvStep == TypeOK /\ LockInv /\ BytesInv /\ [Next]_vars => BytesInv'
<1> SUFFICES ASSUME TypeOK, LockInv, BytesInv, [Next]_vars PROVE BytesInv'
  OBVIOUS
<1>1. ASSUME NEW p \in Pushers, NEW batch \in Batches, Begin(p, batch) PROVE BytesInv'
  <2>1. /\ records' = records /\ totalBytes' = totalBytes /\ writes' = writes
        /\ pc' = [pc EXCEPT ![p] = "open"] /\ txBytes' = [txBytes EXCEPT ![p] = totalBytes]
    BY <1>1 DEF Begin, Open
  <2>2. writes[p] = NoWrites
    BY <1>1 DEF Begin, Open, LockInv
  <2>3. \A q \in Pushers : pc[q] # "open"
    BY <1>1, StoreAssumption DEF Begin, LockInv
  <2>4. BytesExact'
    BY <2>1 DEF BytesInv, BytesExact, Bytes, Sizes
  <2>5. View(p)' = [i \in Ids |-> records[i]]
    BY <2>1, <2>2 DEF View, Current, NoWrites, Absent, Exists
  <2>6. [i \in Ids |-> records[i]] = records
    BY DEF TypeOK
  <2>7. Sizes(View(p)') = Sizes(records)
    BY <2>5, <2>6
  <2>8. txBytes'[p] = SumFunctionOnSet(Sizes(View(p))', Ids) /\ txBytes'[p] <= QuotaBytes
    BY <2>1, <2>7 DEF BytesInv, BytesExact, Bytes, TypeOK, Sizes
  <2>9. \A q \in Pushers : pc'[q] = "open" => q = p
    BY <2>1, <2>3 DEF TypeOK
  <2> QED BY <2>4, <2>8, <2>9 DEF BytesInv
(* What an accepted row does to the count of its transaction.                 *)
<1>2. ASSUME NEW p \in Pushers, NEW rec \in PushRecord, NEW row \in Row,
             Accepting(p, rec, row),
             BytesAfter(txBytes[p], Current(p, rec.id), ByteSize(row)) <= QuotaBytes
      PROVE  BytesInv'
  <2> DEFINE id == rec.id
  <2>1. /\ records' = records /\ totalBytes' = totalBytes /\ pc' = pc /\ pc[p] = "open"
        /\ writes' = [writes EXCEPT ![p][id] = row]
        /\ txBytes' = [txBytes EXCEPT ![p] =
                         BytesAfter(@, Current(p, id), ByteSize(row))]
        /\ id \in Ids /\ row.rev = txHead[p] + 1 /\ txHead[p] \in Nat
    BY <1>2 DEF Accepting, Deciding, WriteRow, PushRecord, dbVars, TypeOK
  <2> HIDE DEF id
  <2>2. BytesExact'
    BY <2>1 DEF BytesInv, BytesExact, Bytes, Sizes
  <2>3. ASSUME NEW q \in Pushers, q # p
        PROVE  View(q)' = View(q) /\ txBytes'[q] = txBytes[q]
    BY <2>1, <2>3 DEF View, Current, TypeOK
  <2>4. View(p) \in [Ids -> Row] /\ View(p)[id] = Current(p, id)
    BY <2>1, CurrentIsRow DEF View
  <2>5. View(p)' = [View(p) EXCEPT ![id] = row]
    <3>1. ASSUME NEW i \in Ids PROVE Current(p, i)' = IF i = id THEN row ELSE Current(p, i)
      BY <2>1 DEF Current, Exists, TypeOK
    <3> QED BY <3>1, <2>4 DEF View
  <2>6. View(p)' \in [Ids -> Row]
    BY <2>4, <2>5
  <2>7. SumFunctionOnSet(Sizes(View(p)'), Ids)
          = BytesAfter(SumFunctionOnSet(Sizes(View(p)), Ids), Current(p, id), ByteSize(row))
    <3>1. View(p)'[id] = row /\ \A j \in Ids \ {id} : View(p)'[j] = View(p)[j]
      BY <2>1, <2>4, <2>5
    <3> QED BY <2>1, <2>4, <2>6, <3>1, SizesChangeOne
  <2>8. txBytes'[p] = BytesAfter(txBytes[p], Current(p, id), ByteSize(row))
    BY <2>1 DEF TypeOK
  <2>9. txBytes'[p] = SumFunctionOnSet(Sizes(View(p)'), Ids) /\ txBytes'[p] <= QuotaBytes
    BY <1>2, <2>1, <2>7, <2>8 DEF BytesInv, id
  <2>10. Sizes(View(p))' = Sizes(View(p)')
    BY DEF Sizes
  <2>11. ASSUME NEW q \in Pushers, pc'[q] = "open"
         PROVE  txBytes'[q] = SumFunctionOnSet(Sizes(View(q))', Ids) /\ txBytes'[q] <= QuotaBytes
    <3>1. CASE q = p
      BY <3>1, <2>9, <2>10
    <3>2. CASE q # p
      <4>1. Sizes(View(q))' = Sizes(View(q))
        BY <3>2, <2>3 DEF Sizes
      <4> QED BY <3>2, <2>1, <2>3, <2>11, <4>1 DEF BytesInv
    <3> QED BY <3>1, <3>2
  <2> QED BY <2>2, <2>11 DEF BytesInv
<1>3. ASSUME NEW p \in Pushers, AcceptWrite(p) \/ AcceptDelete(p) PROVE BytesInv'
  <2>1. PICK rec \in PushRecord, row \in Row : Accepting(p, rec, row)
    BY <1>3, AcceptingSteps
  <2> DEFINE cur == Current(p, rec.id)
  <2>2. /\ rec = Head(todo[p]) /\ WriteRow(p, row) /\ pc[p] = "open"
        /\ writes' = [writes EXCEPT ![p][rec.id] = row] /\ rec.id \in Ids
    BY <2>1 DEF Accepting, Deciding, WriteRow, PushRecord
  <2>3. cur \in Row /\ txHead[p] + 1 \in Nat /\ txBytes[p] \in Int /\ deleteAllowance[p] \in Nat
    BY <2>2, CurrentIsRow DEF TypeOK
  <2>4. writes'[p][rec.id] = row
    BY <2>2 DEF TypeOK
  <2>5. CASE AcceptWrite(p)
    <3>1. row = LiveRow(rec, txHead[p] + 1)
      BY <2>2, <2>4, <2>5 DEF AcceptWrite, WriteRow, TypeOK
    <3>2. Verdict(cur, rec, txBytes[p], deleteAllowance[p]) = "write"
      BY <2>2, <2>5 DEF AcceptWrite, NextVerdict
    <3>3. BytesAfter(txBytes[p], cur, ByteSize(row)) <= QuotaBytes
      <4> HIDE DEF cur
      <4> QED BY <2>3, <3>1, <3>2, VerdictBytes
    <3> QED BY <1>2, <2>1, <3>3
  <2>6. CASE AcceptDelete(p)
    <3>1. row = Tombstone(cur, rec, txHead[p] + 1)
      BY <2>2, <2>4, <2>6 DEF AcceptDelete, WriteRow, TypeOK
    <3>2. ByteSize(row) = 0
      <4> HIDE DEF cur
      <4> QED BY <2>3, <3>1, VerdictBytes
    <3>3. ByteSize(cur) \in Nat /\ txBytes[p] <= QuotaBytes /\ QuotaBytes \in Int
      BY <2>2, <2>3, SizesAreInts, RulesAssumption DEF BytesInv
    <3>4. BytesAfter(txBytes[p], cur, ByteSize(row)) <= QuotaBytes
      <4> HIDE DEF cur
      <4> QED BY <2>3, <3>2, <3>3 DEF BytesAfter
    <3> QED BY <1>2, <2>1, <3>4
  <2> QED BY <1>3, <2>5, <2>6
<1>4. ASSUME NEW p \in Pushers, Commit(p) PROVE BytesInv'
  <2>1. /\ records' = View(p) /\ totalBytes' = txBytes[p] /\ pc[p] = "open"
        /\ \E to \in {"committed", "answering"} : pc' = [pc EXCEPT ![p] = to]
    BY <1>4 DEF Commit, View
  <2>2. BytesExact'
    <3>1. Sizes(records)' = Sizes(View(p))
      BY <2>1 DEF Sizes
    <3> QED BY <2>1, <3>1 DEF BytesInv, BytesExact, Bytes
  <2>3. \A q \in Pushers : pc'[q] # "open"
    BY <2>1 DEF LockInv, TypeOK
  <2> QED BY <2>2, <2>3 DEF BytesInv
<1>5. ASSUME NEW p \in Pushers, Abort(p) PROVE BytesInv'
  <2>1. /\ records' = records /\ totalBytes' = totalBytes /\ pc[p] = "open"
        /\ pc' = [pc EXCEPT ![p] = "idle"]
    BY <1>5 DEF Abort
  <2>2. BytesExact'
    BY <2>1 DEF BytesInv, BytesExact, Bytes, Sizes
  <2>3. \A q \in Pushers : pc'[q] # "open"
    BY <2>1 DEF LockInv, TypeOK
  <2> QED BY <2>2, <2>3 DEF BytesInv
<1>6. ASSUME UNCHANGED <<records, totalBytes, writes, txBytes>>,
             \A q \in Pushers : pc'[q] = "open" => pc[q] = "open"
      PROVE  BytesInv'
  <2>1. BytesExact'
    BY <1>6 DEF BytesInv, BytesExact, Bytes, Sizes
  <2>2. \A q \in Pushers : Sizes(View(q))' = Sizes(View(q))
    BY <1>6 DEF View, Current, Sizes
  <2> QED BY <1>6, <2>1, <2>2 DEF BytesInv
<1>7. ASSUME NEW p \in Pushers,
             RepeatDelete(p) \/ Refuse(p) \/ Publish(p) \/ Answer(p) \/ LoseAnswer(p)
      PROVE  BytesInv'
  BY <1>6, <1>7 DEF RepeatDelete, Refuse, Deciding, Publish, Answer, LoseAnswer, dbVars, TypeOK
<1>8. ASSUME NEW d \in Pullers, Device(d) PROVE BytesInv'
  BY <1>6, <1>8 DEF Device, Pull, Deliver, LosePage, dbVars, pushVars
<1>9. CASE UNCHANGED vars
  BY <1>6, <1>9 DEF vars, dbVars, pushVars
<1> QED BY <1>1, <1>3, <1>4, <1>5, <1>7, <1>8, <1>9 DEF Next, Push

(* The inductive invariant holds of every reachable state, for any number of  *)
(* concurrent requests and devices, any ids and any batches.                *)
THEOREM Invariance == Spec => []IndInv
<1>1. Init => IndInv
  <2> SUFFICES ASSUME Init PROVE IndInv
    OBVIOUS
  <2> USE DEF Init, NoWrites, Absent, Exists
  <2>1. LockInv
    BY StoreAssumption DEF LockInv
  <2>2. RevInv
    BY DEF RevInv, RevsDistinct
  <2>3. PageInv /\ NoSkippedRecord
    BY DEF PageInv, NoSkippedRecord, EmptyPage, OnPage
  <2>4. HistoryInv /\ OksInv
    BY DEF HistoryInv, NoLostUpdate, OksInv, AckedIsStored
  <2>5. TombstoneInv
    BY DEF TombstoneInv
  <2>6. BytesInv
    <3>1. \A i \in Ids : Sizes(records)[i] = 0
      BY RulesAssumption DEF Sizes, ByteSize
    <3>2. SumFunctionOnSet(Sizes(records), Ids) = 0
      BY <3>1, StoreAssumption, SumOfZeros
    <3> QED BY <3>2, RulesAssumption DEF BytesInv, BytesExact, Bytes
  <2> QED BY <2>1, <2>2, <2>3, <2>4, <2>5, <2>6 DEF IndInv
<1>2. TypeOK /\ IndInv /\ [Next]_vars => IndInv'
  BY LockInvStep, RevInvStep, PageInvStep, NoSkippedRecordStep, HistoryInvStep,
     OksInvStep, TombstoneInvStep, BytesInvStep DEF IndInv
<1> QED BY <1>1, <1>2, TypeCorrect, PTL DEF Spec

(* A device that has moved beyond a rev holds the version committed at it.    *)
THEOREM NothingSkipped == Spec => []NoSkippedRecord
<1>1. IndInv => NoSkippedRecord
  BY DEF IndInv
<1> QED BY <1>1, Invariance, PTL

(* No accepted write overwrites a version its author had not seen.           *)
THEOREM UpdatesNotLost == Spec => []NoLostUpdate
<1>1. IndInv => NoLostUpdate
  BY DEF IndInv, HistoryInv
<1> QED BY <1>1, Invariance, PTL

(* Pulling up to head is possible and is enough, and no page splits a rev.    *)
THEOREM HeadAndRevs == Spec => [](HeadIsARow /\ RevsDistinct)
<1>1. IndInv => HeadIsARow /\ RevsDistinct
  BY DEF IndInv, RevInv, HeadIsARow
<1> QED BY <1>1, Invariance, PTL

(* An acknowledged rev is durable.                                           *)
THEOREM AcksAreDurable == Spec => []AckedIsStored
<1>1. IndInv => AckedIsStored
  BY DEF IndInv, OksInv
<1> QED BY <1>1, Invariance, PTL

(* The account's counter is what its rows hold, and the quota bounds it.      *)
THEOREM BytesAreExact == Spec => []BytesExact
<1>1. IndInv => BytesExact
  BY DEF IndInv, BytesInv
<1> QED BY <1>1, Invariance, PTL

(* No step, whatever the batches, brings back a deleted record, providers     *)
(* excepted.                                                                *)
THEOREM TombstonesStay == Spec => TombstoneTerminal
<1>1. TypeOK /\ IndInv /\ [Next]_vars =>
        [\A i \in Ids : records[i].deleted =>
           \/ records'[i] = records[i]
           \/ records[i].collection = "providers" /\ records'[i].collection = "providers"]_records
  <2> SUFFICES ASSUME TypeOK, IndInv, [Next]_vars, records' # records,
                      NEW i \in Ids, records[i].deleted, records'[i] # records[i]
               PROVE  records[i].collection = "providers" /\ records'[i].collection = "providers"
    OBVIOUS
  <2>1. PICK p \in Pushers : Commit(p)
    BY DEF Next, Push, Device, Begin, Open, AcceptWrite, AcceptDelete, RepeatDelete,
           Refuse, Deciding, Abort, Publish, Answer, LoseAnswer, Pull, Deliver,
           LosePage, vars, dbVars
  <2>2. Exists(writes[p][i]) /\ records'[i] = writes[p][i]
    BY <2>1 DEF Commit, Current
  <2> QED BY <2>2 DEF IndInv, TombstoneInv
<1> QED BY <1>1, TypeCorrect, Invariance, PTL DEF Spec, TombstoneTerminal

-----------------------------------------------------------------------------
(* The store as a change feed.  First, that the versions committed form a log. *)

(* The next rev extends the versions numbered so far.                         *)
LEMMA DenseGrows ==
  ASSUME NEW V \in SUBSET Version, NEW low \in Nat, NEW high \in Nat, low <= high,
         Dense(V, low, high), NEW v \in Version, v.rev = high + 1
  PROVE  Dense(V \cup {v}, low, high + 1)
<1>1. \A w \in V : w.rev \in Nat /\ low < w.rev /\ w.rev <= high
  BY DEF Dense, Version
<1>2. \A r \in (low + 1) .. (high + 1) : r = high + 1 \/ r \in (low + 1) .. high
  OBVIOUS
<1>3. \A r \in (low + 1) .. (high + 1) : \E w \in V \cup {v} : w.rev = r
  BY <1>2 DEF Dense
<1>4. \A w \in V : w.rev # v.rev
  BY <1>1
<1>5. \A u, w \in V \cup {v} : u.rev = w.rev => u = w
  BY <1>4 DEF Dense
<1>6. \A w \in V \cup {v} : low < w.rev /\ w.rev <= high + 1
  BY <1>1
<1> HIDE DEF Dense
<1> QED BY <1>3, <1>5, <1>6 DEF Dense

(* Versions numbered to mid and from mid on are numbered throughout.          *)
LEMMA DenseJoins ==
  ASSUME NEW V \in SUBSET Version, NEW W \in SUBSET Version,
         NEW low \in Nat, NEW mid \in Nat, NEW high \in Nat, low <= mid, mid <= high,
         Dense(V, low, mid), Dense(W, mid, high)
  PROVE  Dense(V \cup W, low, high)
<1>1. /\ \A v \in V : v.rev \in Nat /\ low < v.rev /\ v.rev <= mid
      /\ \A w \in W : w.rev \in Nat /\ mid < w.rev /\ w.rev <= high
  BY DEF Dense, Version
<1>2. \A r \in (low + 1) .. high : r \in (low + 1) .. mid \/ r \in (mid + 1) .. high
  OBVIOUS
<1>3. \A r \in (low + 1) .. high : \E u \in V \cup W : u.rev = r
  BY <1>2 DEF Dense
<1>4. \A v \in V, w \in W : v.rev # w.rev
  BY <1>1
<1>5. \A u, w \in V \cup W : u.rev = w.rev => u = w
  BY <1>4 DEF Dense
<1>6. \A w \in V \cup W : low < w.rev /\ w.rev <= high
  BY <1>1
<1> QED BY <1>3, <1>5, <1>6 DEF Dense

(* A transaction that accepted nothing has given out no rev.                  *)
LEMMA DenseNothing ==
  ASSUME NEW n \in Nat
  PROVE  Dense({}, n, n)
BY DEF Dense

VersionOf(rec, row) ==
  [id |-> rec.id, rev |-> row.rev, baseRev |-> rec.baseRev, deleted |-> rec.deleted]

(* What accepting a record leaves the open transaction with.                  *)
LEMMA AcceptedVersion ==
  ASSUME TypeOK, LockInv, NEW p \in Pushers, NEW rec \in PushRecord, NEW row \in Row,
         Accepting(p, rec, row)
  PROVE  /\ VersionOf(rec, row) \in Version /\ rec.id \in Ids
         /\ pc[p] = "open" /\ pc' = pc
         /\ history' = history /\ records' = records /\ head' = head
         /\ pullVars' = pullVars /\ acked' = acked
         /\ head \in Nat /\ txHead[p] \in Nat
         /\ accepted[p] \in SUBSET Version
         /\ writes[p] \in [Ids -> Row]
         /\ txHead'[p] = txHead[p] + 1
         /\ accepted'[p] = accepted[p] \cup {VersionOf(rec, row)}
         /\ oks'[p] = oks[p] \cup {<<rec.id, row.rev>>}
         /\ writes'[p] = [writes[p] EXCEPT ![rec.id] = row]
         /\ \A q \in Pushers \ {p} : /\ pc[q] # "open" /\ accepted[q] = {}
                                     /\ writes[q] = NoWrites
                                     /\ accepted'[q] = accepted[q]
                                     /\ writes'[q] = writes[q]
                                     /\ oks'[q] = oks[q]
<1> DEFINE new == VersionOf(rec, row)
<1>1. rec.id \in Ids /\ rec.baseRev \in Nat /\ rec.deleted \in BOOLEAN /\ row.rev \in Nat
  BY DEF PushRecord, Row
<1>2. new \in Version
  BY <1>1 DEF Version, VersionOf
<1>3. /\ pc[p] = "open" /\ pc' = pc /\ history' = history /\ records' = records
      /\ head' = head /\ pullVars' = pullVars
      /\ acked' = acked
  BY DEF Accepting, Deciding, dbVars
<1>4. /\ txHead' = [txHead EXCEPT ![p] = row.rev]
      /\ accepted' = [accepted EXCEPT ![p] = @ \cup {new}]
      /\ oks' = [oks EXCEPT ![p] = @ \cup {<<rec.id, row.rev>>}]
      /\ writes' = [writes EXCEPT ![p][rec.id] = row]
      /\ row.rev = txHead[p] + 1
  BY DEF Accepting, WriteRow, VersionOf
<1>5. /\ head \in Nat /\ txHead \in [Pushers -> Nat]
      /\ accepted \in [Pushers -> SUBSET Version]
      /\ oks \in [Pushers -> SUBSET (Ids \X Nat)]
      /\ writes \in [Pushers -> [Ids -> Row]]
  BY DEF TypeOK
<1>6. \A q \in Pushers \ {p} : pc[q] # "open" /\ accepted[q] = {} /\ writes[q] = NoWrites
  BY <1>3 DEF LockInv
<1> HIDE DEF new
<1>7. /\ txHead'[p] = txHead[p] + 1
      /\ accepted'[p] = accepted[p] \cup {new}
      /\ oks'[p] = oks[p] \cup {<<rec.id, row.rev>>}
      /\ writes'[p] = [writes[p] EXCEPT ![rec.id] = row]
      /\ \A q \in Pushers \ {p} : /\ accepted'[q] = accepted[q]
                                  /\ writes'[q] = writes[q]
                                  /\ oks'[q] = oks[q]
  BY <1>4, <1>5
<1>8. txHead[p] \in Nat /\ accepted[p] \in SUBSET Version /\ writes[p] \in [Ids -> Row]
  BY <1>5
<1> QED BY <1>1, <1>2, <1>3, <1>5, <1>6, <1>7, <1>8 DEF new

(* The end of a transaction leaves no one with one.                          *)
LEMMA TransactionOver ==
  ASSUME TypeOK, LockInv, NEW p \in Pushers, pc[p] = "open", EndTransaction(p)
  PROVE  /\ \A q \in Pushers : accepted'[q] = {} /\ writes'[q] = NoWrites
         /\ \A q \in Pushers \ {p} : accepted[q] = {} /\ writes[q] = NoWrites
BY DEF TypeOK, LockInv, EndTransaction

(* Revs go on from txHead, and nothing else is given one.                     *)
LEMMA VersionInvStep ==
  TypeOK /\ LockInv /\ RevInv /\ VersionInv /\ [Next]_vars => VersionInv'
<1> SUFFICES ASSUME TypeOK, LockInv, RevInv, VersionInv, [Next]_vars PROVE VersionInv'
  OBVIOUS
<1>0. /\ history \in SUBSET Version /\ head \in Nat
      /\ \A p \in Pushers : accepted[p] \in SUBSET Version /\ txHead[p] \in Nat
  BY DEF TypeOK
<1>1. ASSUME NEW p \in Pushers, NEW batch \in Batches, Begin(p, batch) PROVE VersionInv'
  <2>1. /\ UNCHANGED <<records, head, writes, accepted, history>>
        /\ txHead'[p] = head
        /\ accepted[p] = {}
        /\ \A q \in Pushers : pc'[q] = "open" => q = p
    BY <1>1, StoreAssumption DEF TypeOK, LockInv, Begin, Open
  <2>2. \A q \in Pushers : pc'[q] = "open" => Dense(accepted'[q], head', txHead'[q])
    BY <1>0, <2>1, DenseNothing
  <2> QED BY <2>1, <2>2 DEF VersionInv
<1>2. ASSUME NEW p \in Pushers, AcceptWrite(p) \/ AcceptDelete(p) PROVE VersionInv'
  <2>1. PICK rec \in PushRecord, row \in Row : Accepting(p, rec, row)
    BY <1>2, AcceptingSteps
  <2> DEFINE new == VersionOf(rec, row)
  <2>2. /\ new \in Version /\ new.rev = txHead[p] + 1 /\ new.deleted = row.deleted
        /\ new.rev = row.rev /\ new.id = rec.id
    <3>1. new \in Version
      BY <2>1, AcceptedVersion
    <3>2. row.rev = txHead[p] + 1 /\ row.deleted = rec.deleted
      BY <2>1 DEF Accepting
    <3> QED BY <3>1, <3>2 DEF VersionOf
  <2>3. /\ history' = history /\ records' = records /\ head' = head /\ pc' = pc
        /\ pc[p] = "open" /\ txHead'[p] = txHead[p] + 1
        /\ accepted'[p] = accepted[p] \cup {new}
        /\ writes'[p] = [writes[p] EXCEPT ![rec.id] = row]
        /\ writes[p] \in [Ids -> Row]
        /\ \A q \in Pushers \ {p} : /\ pc[q] # "open" /\ accepted'[q] = accepted[q]
                                    /\ writes'[q] = writes[q]
    BY <2>1, AcceptedVersion
  <2> HIDE DEF new
  <2>4. Dense(accepted'[p], head', txHead'[p])
    <3>1. Dense(accepted[p], head, txHead[p]) /\ head <= txHead[p]
      BY <2>3 DEF VersionInv, RevInv
    <3> QED BY <1>0, <2>2, <2>3, <3>1, DenseGrows
  <2>5. ASSUME NEW i \in Ids, Exists(writes'[p][i])
        PROVE  Recorded(accepted'[p], i, writes'[p][i])
    <3>1. CASE i = rec.id
      BY <2>2, <2>3, <3>1 DEF Recorded
    <3>2. CASE i # rec.id
      BY <2>3, <2>5, <3>2 DEF VersionInv, Recorded
    <3> QED BY <3>1, <3>2
  <2> QED BY <2>3, <2>4, <2>5 DEF VersionInv
<1>3. ASSUME NEW p \in Pushers, Commit(p) PROVE VersionInv'
  <2>1. /\ pc[p] = "open" /\ EndTransaction(p)
        /\ head' = txHead[p] /\ history' = history \cup accepted[p]
        /\ \A i \in Ids : records'[i] = Current(p, i)
    BY <1>3 DEF Commit
  <2>2. \A q \in Pushers : pc'[q] # "open"
    BY <1>3 DEF Commit, LockInv, TypeOK
  <2>3. Dense(history', 0, head')
    <3>1. Dense(history, 0, head) /\ Dense(accepted[p], head, txHead[p])
          /\ head <= txHead[p]
      BY <2>1 DEF VersionInv, RevInv
    <3>2. 0 \in Nat /\ 0 <= head
      BY <1>0
    <3> QED BY <1>0, <2>1, <3>1, <3>2, DenseJoins
  <2>4. ASSUME NEW i \in Ids, Exists(records'[i]) \/ records'[i].deleted
        PROVE  Recorded(history', i, records'[i])
    BY <2>1, <2>4 DEF Current, VersionInv, Recorded
  <2>5. \A q \in Pushers, i \in Ids : ~Exists(writes'[q][i])
    BY <2>1, TransactionOver DEF NoWrites, Absent, Exists
  <2> QED BY <2>2, <2>3, <2>4, <2>5 DEF VersionInv
<1>4. ASSUME NEW p \in Pushers, Abort(p) PROVE VersionInv'
  <2>1. /\ pc[p] = "open" /\ EndTransaction(p) /\ UNCHANGED <<records, head, history>>
    BY <1>4 DEF Abort
  <2>2. \A q \in Pushers : pc'[q] # "open"
    BY <1>4 DEF Abort, LockInv, TypeOK
  <2>3. \A q \in Pushers, i \in Ids : ~Exists(writes'[q][i])
    BY <2>1, TransactionOver DEF NoWrites, Absent, Exists
  <2> QED BY <2>1, <2>2, <2>3 DEF VersionInv
<1>5. ASSUME UNCHANGED <<records, head, history, writes, accepted, txHead>>,
             \A q \in Pushers : pc'[q] = "open" => pc[q] = "open"
      PROVE  VersionInv'
  BY <1>5 DEF VersionInv
<1>6. ASSUME NEW p \in Pushers, Publish(p) \/ Answer(p) \/ LoseAnswer(p) PROVE VersionInv'
  BY <1>5, <1>6 DEF Publish, Answer, LoseAnswer, dbVars, TypeOK
<1>7. ASSUME NEW p \in Pushers, RepeatDelete(p) \/ Refuse(p) PROVE VersionInv'
  BY <1>5, <1>7 DEF RepeatDelete, Refuse, Deciding, dbVars
<1>8. ASSUME NEW d \in Pullers, Device(d) PROVE VersionInv'
  BY <1>5, <1>8 DEF Device, Pull, Deliver, LosePage, dbVars, pushVars
<1>9. CASE UNCHANGED vars
  BY <1>5, <1>9 DEF vars, dbVars, pushVars
<1> QED BY <1>1, <1>2, <1>3, <1>4, <1>6, <1>7, <1>8, <1>9 DEF Next, Push

(* A stored row keeps its collection: an update of another is refused, and a  *)
(* deletion takes the row's own.                                            *)
LEMMA CollectionInvStep ==
  TypeOK /\ LockInv /\ CollectionInv /\ [Next]_vars => CollectionInv'
<1> SUFFICES ASSUME TypeOK, LockInv, CollectionInv, [Next]_vars PROVE CollectionInv'
  OBVIOUS
<1>1. ASSUME NEW p \in Pushers, AcceptWrite(p) \/ AcceptDelete(p) PROVE CollectionInv'
  <2>1. PICK rec \in PushRecord, row \in Row : Accepting(p, rec, row)
    BY <1>1, AcceptingSteps
  <2> DEFINE cur == Current(p, rec.id)
  <2>2. /\ records' = records /\ rec.id \in Ids
        /\ writes'[p] = [writes[p] EXCEPT ![rec.id] = row]
        /\ writes[p] \in [Ids -> Row]
        /\ \A q \in Pushers \ {p} : writes'[q] = writes[q]
    BY <2>1, AcceptedVersion
  <2>3. /\ Exists(cur) => row.collection = cur.collection
        /\ ~Exists(cur) => row.collection = rec.collection
    BY <2>1 DEF Accepting
  <2>4. rec.collection \in Collections
    BY DEF PushRecord
  <2>5. /\ Exists(cur) => cur.collection \in Collections
        /\ Exists(records[rec.id]) =>
             Exists(cur) /\ cur.collection = records[rec.id].collection
    BY <2>2 DEF CollectionInv, Current
  <2>6. /\ row.collection \in Collections
        /\ Exists(records[rec.id]) => row.collection = records[rec.id].collection
    BY <2>3, <2>4, <2>5
  <2>7. ASSUME NEW i \in Ids, Exists(writes'[p][i])
        PROVE  /\ writes'[p][i].collection \in Collections
               /\ Exists(records[i]) => writes'[p][i].collection = records[i].collection
    <3>1. CASE i = rec.id
      BY <2>2, <2>6, <3>1
    <3>2. CASE i # rec.id
      BY <2>2, <2>7, <3>2 DEF CollectionInv
    <3> QED BY <3>1, <3>2
  <2> QED BY <2>2, <2>7 DEF CollectionInv
<1>2. ASSUME NEW p \in Pushers, Commit(p) \/ Abort(p) PROVE CollectionInv'
  <2>1. /\ pc[p] = "open" /\ EndTransaction(p)
        /\ (\A i \in Ids : records'[i] = Current(p, i)) \/ records' = records
    BY <1>2 DEF Commit, Abort
  <2>2. \A q \in Pushers, i \in Ids : ~Exists(writes'[q][i])
    BY <2>1, TransactionOver DEF NoWrites, Absent, Exists
  <2>3. \A i \in Ids : Exists(records'[i]) => records'[i].collection \in Collections
    BY <2>1 DEF CollectionInv, Current
  <2> QED BY <2>2, <2>3 DEF CollectionInv
<1>3. ASSUME UNCHANGED <<records, writes>> PROVE CollectionInv'
  BY <1>3 DEF CollectionInv
<1> QED
  BY <1>1, <1>2, <1>3
     DEF Next, Push, Device, Begin, Open, RepeatDelete, Refuse, Deciding, Publish,
         Answer, LoseAnswer, Pull, Deliver, LosePage, vars, dbVars, pushVars

(* The versions an open transaction sees: those of an id up to the row it      *)
(* sees, which is itself the last of them.                                   *)
LEMMA LastVersion ==
  ASSUME TypeOK, LockInv, RevInv, HistoryInv, VersionInv,
         NEW p \in Pushers, pc[p] = "open", NEW i \in Ids,
         NEW v \in history \cup accepted[p], v.id = i,
         \A u \in history \cup accepted[p] : u.id = i => u.rev <= v.rev
  PROVE  /\ Exists(Current(p, i)) /\ v.rev = Current(p, i).rev
         /\ v.deleted = Current(p, i).deleted
<1> DEFINE cur == Current(p, i)
<1>1. v.rev \in Nat /\ 0 < v.rev /\ v.rev <= cur.rev
  BY VersionsBelowCurrent
<1>2. cur.rev \in Nat
  BY CurrentIsRow DEF Row
<1>3. Exists(cur)
  BY <1>1, <1>2 DEF Exists
<1>4. PICK u \in history \cup accepted[p] : u.id = i /\ u.rev = cur.rev /\ u.deleted = cur.deleted
  BY <1>3 DEF Current, VersionInv, Recorded
<1>5. u.rev = v.rev
  BY <1>1, <1>2, <1>4
<1>6. u = v
  <2>1. /\ v \in history => v.rev <= head
        /\ u \in history => u.rev <= head
        /\ v \in accepted[p] => head < v.rev
        /\ u \in accepted[p] => head < u.rev
    BY VersionsBelowCurrent
  <2>2. u.rev \in Nat /\ head \in Nat
    BY <1>1, <1>5 DEF TypeOK
  <2>3. (u \in history /\ v \in history) \/ (u \in accepted[p] /\ v \in accepted[p])
    BY <1>5, <2>1, <2>2
  <2> QED BY <1>5, <2>3 DEF VersionInv, Dense
<1> QED BY <1>3, <1>4, <1>5, <1>6

(* What is accepted goes on top of the last version of its id.                *)
LEMMA ChainInvStep ==
  TypeOK /\ LockInv /\ RevInv /\ HistoryInv /\ VersionInv /\ CollectionInv /\ ChainInv
    /\ [Next]_vars => ChainInv'
<1> SUFFICES ASSUME TypeOK, LockInv, RevInv, HistoryInv, VersionInv, CollectionInv,
                    ChainInv, [Next]_vars
             PROVE  ChainInv'
  OBVIOUS
<1>1. ASSUME NEW p \in Pushers, AcceptWrite(p) \/ AcceptDelete(p) PROVE ChainInv'
  <2>1. PICK rec \in PushRecord, row \in Row : Accepting(p, rec, row)
    BY <1>1, AcceptingSteps
  <2> DEFINE new == VersionOf(rec, row)
             cur == Current(p, rec.id)
  <2>2. /\ rec.id \in Ids /\ pc[p] = "open" /\ history' = history
        /\ accepted'[p] = accepted[p] \cup {new}
        /\ writes'[p] = [writes[p] EXCEPT ![rec.id] = row]
        /\ writes[p] \in [Ids -> Row]
        /\ txHead[p] \in Nat
        /\ \A q \in Pushers \ {p} : accepted'[q] = {}
    BY <2>1, AcceptedVersion
  <2>3. new.id = rec.id /\ new.rev = row.rev /\ new.deleted = rec.deleted
        /\ new.baseRev = rec.baseRev
    BY DEF VersionOf
  <2>4. row.rev = txHead[p] + 1
    BY <2>1 DEF Accepting
  <2>5. \A v \in history \cup accepted[p] :
          v.id \in Ids /\ v.rev \in Nat /\ v.rev <= txHead[p]
    <3> TAKE v \in history \cup accepted[p]
    <3>1. /\ v.id \in Ids /\ v.rev \in Nat
          /\ v \in accepted[p] => v.rev <= txHead[p]
          /\ v \in history => v.rev <= head
      BY <2>2, VersionsBelowCurrent
    <3>2. head \in Nat /\ head <= txHead[p]
      BY <2>2 DEF TypeOK, RevInv
    <3> QED BY <2>2, <3>1, <3>2
  <2>6. \A v \in history \cup accepted[p] : v.rev < new.rev /\ ~(new.rev < v.rev)
    BY <2>2, <2>3, <2>4, <2>5
  <2>7. ASSUME NEW w \in accepted'[p], NEW v \in history \cup accepted'[p],
               v.id = w.id, v.rev < w.rev,
               \A u \in history \cup accepted'[p] :
                 u.id = w.id /\ u.rev < w.rev => u.rev <= v.rev
        PROVE  OnTop(w, v, writes'[p][w.id].collection)
    <3>1. CASE w = new
      <4>1. v \in history \cup accepted[p] /\ v.id = rec.id
        BY <2>2, <2>3, <2>4, <2>7, <3>1
      <4>2. \A u \in history \cup accepted[p] : u.id = rec.id => u.rev <= v.rev
        BY <2>2, <2>3, <2>6, <2>7, <3>1
      <4>3. Exists(cur) /\ v.rev = cur.rev /\ v.deleted = cur.deleted
        <5> HIDE DEF new
        <5> QED BY <2>2, <4>1, <4>2, LastVersion
      <4>4. writes'[p][w.id].collection = row.collection
        BY <2>2, <2>3, <3>1
      <4>5. IF rec.deleted THEN ~cur.deleted
            ELSE /\ cur.rev = rec.baseRev /\ row.collection = rec.collection
                 /\ cur.deleted => ProviderRepair(cur, rec)
        BY <2>1, <4>3 DEF Accepting
      <4>6. IF rec.deleted THEN ~v.deleted
            ELSE rec.baseRev = v.rev /\ (v.deleted => row.collection = "providers")
        BY <4>3, <4>5 DEF ProviderRepair
      <4> HIDE DEF new
      <4> QED BY <2>3, <3>1, <4>4, <4>6 DEF OnTop
    <3>2. CASE w \in accepted[p]
      <4>1. v \in history \cup accepted[p]
        BY <2>2, <2>3, <2>4, <2>5, <2>7, <3>2
      <4>2. OnTop(w, v, writes[p][w.id].collection)
        BY <2>2, <2>7, <3>2, <4>1 DEF ChainInv
      <4>3. CASE w.id # rec.id
        BY <2>2, <4>2, <4>3
      <4>4. CASE w.id = rec.id
        <5>1. Exists(writes[p][rec.id])
          <6>1. head < w.rev /\ w.rev <= writes[p][w.id].rev
            BY <3>2 DEF HistoryInv
          <6>2. head \in Nat /\ w.rev \in Nat /\ writes[p][rec.id].rev \in Nat
            BY <2>2, <2>5, <3>2 DEF TypeOK, Row
          <6> QED BY <4>4, <6>1, <6>2 DEF Exists
        <5>2. cur = writes[p][rec.id] /\ Exists(cur)
          BY <5>1 DEF Current
        <5>3. row.collection = cur.collection
          BY <2>1, <5>2 DEF Accepting
        <5>4. writes'[p][w.id].collection = writes[p][w.id].collection
          BY <2>2, <4>4, <5>2, <5>3
        <5> QED BY <4>2, <5>4
      <4> QED BY <4>3, <4>4
    <3> QED BY <2>2, <2>7, <3>1, <3>2
  <2> HIDE DEF new
  <2> QED BY <2>2, <2>7 DEF ChainInv
<1>2. ASSUME NEW p \in Pushers, Commit(p) \/ Abort(p) PROVE ChainInv'
  <2>1. pc[p] = "open" /\ EndTransaction(p)
    BY <1>2 DEF Commit, Abort
  <2> QED BY <2>1, TransactionOver DEF ChainInv
<1>3. ASSUME UNCHANGED <<history, accepted, writes>> PROVE ChainInv'
  BY <1>3 DEF ChainInv
<1> QED
  BY <1>1, <1>2, <1>3
     DEF Next, Push, Device, Begin, Open, RepeatDelete, Refuse, Deciding, Publish,
         Answer, LoseAnswer, Pull, Deliver, LosePage, vars, dbVars, pushVars

(* What a transaction sees deleted is a row that was stored.                  *)
LEMMA DeletedRowExists ==
  ASSUME TypeOK, VersionInv, NEW p \in Pushers, NEW i \in Ids, Current(p, i).deleted
  PROVE  Exists(Current(p, i))
<1>1. CASE Exists(writes[p][i])
  BY <1>1 DEF Current
<1>2. CASE ~Exists(writes[p][i])
  <2>1. Current(p, i) = records[i] /\ records[i].deleted
    BY <1>2 DEF Current
  <2>2. PICK v \in history : v.rev = records[i].rev
    BY <2>1 DEF VersionInv, Recorded
  <2>3. 0 < v.rev
    BY DEF VersionInv, Dense
  <2> QED BY <2>1, <2>2, <2>3 DEF Exists
<1> QED BY <1>1, <1>2

(* What a device has taken in lies behind its watermark, and every row of a   *)
(* page is a version.                                                       *)
LEMMA PagesAreVersions ==
  ASSUME TypeOK, LockInv, RevInv, PageInv, VersionInv, AnswersInv, [Next]_vars,
         NEW d \in Pullers
  PROVE  /\ \A j \in OnPage(d)' : \E v \in history' : v.id = j /\ v.rev = page'[d][j].rev
         /\ \A i \in Ids : seen'[d][i] <= watermark'[d]
<1>1. history \subseteq history'
  BY DEF Next, Push, Device, Begin, Open, AcceptWrite, AcceptDelete, RepeatDelete,
         Refuse, Deciding, Commit, Abort, Publish, Answer, LoseAnswer, Pull, Deliver,
         LosePage, vars, dbVars, pushVars
<1>2. /\ \A j \in OnPage(d) : \E v \in history : v.id = j /\ v.rev = page[d][j].rev
      /\ \A i \in Ids : seen[d][i] <= watermark[d]
  BY DEF AnswersInv
<1>3. /\ watermark \in [Pullers -> Nat] /\ page \in [Pullers -> [Ids -> Row]]
      /\ seen \in [Pullers -> [Ids -> Nat]]
      /\ \A i \in Ids : page[d][i].rev \in Nat
  BY PageRows DEF TypeOK
<1>4. CASE page'[d] = page[d] /\ seen'[d] = seen[d] /\ watermark'[d] = watermark[d]
  BY <1>1, <1>2, <1>4 DEF OnPage
<1>5. CASE Pull(d)
  <2>1. PICK S \in PageIds(watermark[d]) :
             page' = [page EXCEPT ![d] = [i \in Ids |-> IF i \in S THEN records[i] ELSE Absent]]
    BY <1>5 DEF Pull
  <2>2. \A i \in Ids : page'[d][i] = IF i \in S THEN records[i] ELSE Absent
    BY <1>3, <2>1
  <2>3. \A j \in OnPage(d)' : j \in Ids /\ Exists(records[j]) /\ page'[d][j] = records[j]
    BY <2>2 DEF OnPage, Exists, Absent
  <2>4. seen' = seen /\ watermark' = watermark
    BY <1>5 DEF Pull
  <2> QED BY <1>1, <1>2, <2>3, <2>4 DEF VersionInv, Recorded
<1>6. CASE Deliver(d) \/ LosePage(d)
  <2>1. page' = [page EXCEPT ![d] = EmptyPage]
    BY <1>6 DEF Deliver, LosePage
  <2>2. OnPage(d)' = {}
    BY <1>3, <2>1 DEF OnPage, EmptyPage, Exists, Absent
  <2>3. CASE LosePage(d)
    BY <1>2, <2>2, <2>3 DEF LosePage
  <2>4. CASE Deliver(d)
    <3>1. \A i \in Ids : seen'[d][i] = IF i \in OnPage(d) THEN page[d][i].rev ELSE seen[d][i]
      BY <1>3, <2>4 DEF Deliver
    <3>2. CASE OnPage(d) = {} /\ watermark' = watermark
      BY <1>2, <2>2, <3>1, <3>2
    <3>3. ASSUME NEW last \in OnPage(d),
                 \A i \in OnPage(d) : page[d][i].rev <= page[d][last].rev,
                 watermark' = [watermark EXCEPT ![d] = page[d][last].rev]
          PROVE  \A i \in Ids : seen'[d][i] <= watermark'[d]
      <4>1. watermark'[d] = page[d][last].rev /\ last \in Ids
        BY <1>3, <3>3 DEF OnPage
      <4>2. watermark[d] < page[d][last].rev
        BY DEF PageInv
      <4>3. \A i \in Ids : seen[d][i] \in Nat
        BY <1>3
      <4> QED BY <1>2, <1>3, <3>1, <3>3, <4>1, <4>2, <4>3
    <3> QED BY <2>2, <2>4, <3>2, <3>3 DEF Deliver
  <2> QED BY <1>6, <2>3, <2>4
<1>7. \/ page'[d] = page[d] /\ seen'[d] = seen[d] /\ watermark'[d] = watermark[d]
      \/ Pull(d) \/ Deliver(d) \/ LosePage(d)
  <2>1. CASE UNCHANGED pullVars
    BY <2>1 DEF pullVars
  <2>2. ASSUME NEW e \in Pullers, e # d, Device(e)
        PROVE  page'[d] = page[d] /\ seen'[d] = seen[d] /\ watermark'[d] = watermark[d]
    <3>1. /\ \E x : page' = [page EXCEPT ![e] = x]
          /\ seen' = seen \/ \E x : seen' = [seen EXCEPT ![e] = x]
          /\ watermark' = watermark \/ \E x : watermark' = [watermark EXCEPT ![e] = x]
      BY <2>2 DEF Device, Pull, Deliver, LosePage
    <3> QED BY <1>3, <2>2, <3>1
  <2> QED BY <2>1, <2>2, DeviceSteps DEF Device
<1> QED BY <1>4, <1>5, <1>6, <1>7

(* Every rev a request will report is that of a version: its transaction's    *)
(* while it is open, committed afterwards.                                  *)
LEMMA AnswersInvStep ==
  TypeOK /\ LockInv /\ RevInv /\ PageInv /\ VersionInv /\ AnswersInv /\ [Next]_vars
    => AnswersInv'
<1> SUFFICES ASSUME TypeOK, LockInv, RevInv, PageInv, VersionInv, AnswersInv, [Next]_vars
             PROVE  AnswersInv'
  OBVIOUS
<1> DEFINE Known(p, o) == \E v \in history \cup accepted[p] : v.id = o[1] /\ v.rev = o[2]
           Told == \A p \in Pushers : \A o \in oks[p] : Known(p, o)
<1>0. /\ Told
      /\ oks \in [Pushers -> SUBSET (Ids \X Nat)]
  BY DEF AnswersInv, TypeOK
<1>1. Told'
  <2>1. ASSUME NEW p \in Pushers, AcceptWrite(p) \/ AcceptDelete(p) PROVE Told'
    <3>1. PICK rec \in PushRecord, row \in Row : Accepting(p, rec, row)
      BY <2>1, AcceptingSteps
    <3>2. /\ history' = history
          /\ accepted'[p] = accepted[p] \cup {VersionOf(rec, row)}
          /\ oks'[p] = oks[p] \cup {<<rec.id, row.rev>>}
          /\ \A q \in Pushers \ {p} : accepted'[q] = accepted[q] /\ oks'[q] = oks[q]
      BY ZenonT(40), <3>1, AcceptedVersion
    <3>3. Known(p, <<rec.id, row.rev>>)'
      <4>1. VersionOf(rec, row).id = rec.id /\ VersionOf(rec, row).rev = row.rev
        BY DEF VersionOf
      <4> QED BY <3>2, <4>1
    <3>4. \A o \in oks[p] : Known(p, o)'
      BY <1>0, <3>2
    <3>5. \A q \in Pushers \ {p} : \A o \in oks[q] : Known(q, o)'
      BY <1>0, <3>2
    <3> HIDE DEF Known
    <3> QED BY <3>2, <3>3, <3>4, <3>5
  <2>2. ASSUME NEW p \in Pushers, RepeatDelete(p) PROVE Told'
    <3> DEFINE rec == Head(todo[p])
               cur == Current(p, rec.id)
    <3>1. rec \in PushRecord /\ pc[p] = "open"
      BY <2>2, NextRecord DEF RepeatDelete, Deciding, TypeOK
    <3>2. rec.id \in Ids
      BY <3>1 DEF PushRecord
    <3>3. /\ history' = history /\ accepted' = accepted
          /\ oks' = [oks EXCEPT ![p] = oks[p] \cup {<<rec.id, cur.rev>>}]
      BY <2>2 DEF RepeatDelete, Deciding
    <3>4. Exists(cur)
      <4>1. cur.deleted
        <5>1. cur \in Row /\ txBytes[p] \in Int /\ deleteAllowance[p] \in Nat
          BY <3>2, CurrentIsRow DEF TypeOK
        <5>2. Verdict(cur, rec, txBytes[p], deleteAllowance[p]) = "already_deleted"
          BY <2>2 DEF RepeatDelete, NextVerdict
        <5> HIDE DEF rec, cur
        <5> QED BY <3>1, <5>1, <5>2, VerdictFacts
      <4> QED BY <4>1, <3>2, DeletedRowExists
    <3>5. PICK o : o = <<rec.id, cur.rev>>
      OBVIOUS
    <3>6. o[1] = rec.id /\ o[2] = cur.rev
      BY <3>5
    <3>7. Known(p, o)
      <4>1. \E v \in history \cup accepted[p] : v.id = rec.id /\ v.rev = cur.rev
        BY <3>2, <3>4 DEF Current, VersionInv, Recorded
      <4> QED BY <3>6, <4>1
    <3>8. /\ \A q \in Pushers : \A a \in oks[q] : Known(q, a)'
          /\ Known(p, o)'
      BY <1>0, <3>3, <3>7
    <3>9. /\ oks'[p] = oks[p] \cup {o}
          /\ \A q \in Pushers \ {p} : oks'[q] = oks[q]
      BY <1>0, <3>3, <3>5
    <3> HIDE DEF Known
    <3> QED BY <3>8, <3>9
  <2>3. ASSUME NEW p \in Pushers, Commit(p) PROVE Told'
    <3>1. /\ oks' = oks /\ history' = history \cup accepted[p] /\ pc[p] = "open"
          /\ \A q \in Pushers \ {p} : accepted[q] = {}
      BY <2>3 DEF Commit, LockInv
    <3>2. \A q \in Pushers : history \cup accepted[q] \subseteq history'
      BY <3>1
    <3> QED BY <1>0, <3>1, <3>2
  <2>4. ASSUME NEW p \in Pushers, Abort(p) \/ Answer(p) \/ LoseAnswer(p) PROVE Told'
    <3>1. /\ oks' = [oks EXCEPT ![p] = {}] /\ history' = history
          /\ \A q \in Pushers \ {p} : accepted'[q] = accepted[q]
      BY <2>4 DEF Abort, EndTransaction, Answer, LoseAnswer, TypeOK
    <3>2. oks'[p] = {} /\ \A q \in Pushers \ {p} : oks'[q] = oks[q]
      BY <1>0, <3>1
    <3> QED BY <1>0, <3>1, <3>2
  <2>5. ASSUME UNCHANGED <<oks, history, accepted>> PROVE Told'
    BY <1>0, <2>5
  <2> HIDE DEF Told
  <2> QED
    BY <2>1, <2>2, <2>3, <2>4, <2>5
       DEF Next, Push, Device, Begin, Open, Refuse, Deciding, Publish, Pull, Deliver,
           LosePage, vars, dbVars, pushVars
<1>2. \A d \in Pullers :
        /\ \A j \in OnPage(d)' : \E v \in history' : v.id = j /\ v.rev = page'[d][j].rev
        /\ \A i \in Ids : seen'[d][i] <= watermark'[d]
  BY PagesAreVersions
<1> QED BY <1>1, <1>2 DEF AnswersInv

(* The log is one in every reachable state.                                  *)
THEOREM LogInvariance == Spec => []FeedInv
<1>1. Init => FeedInv
  <2> SUFFICES ASSUME Init PROVE FeedInv
    OBVIOUS
  <2> USE DEF Init, NoWrites, Absent, Exists
  <2>1. VersionInv
    BY DenseNothing DEF VersionInv
  <2>2. CollectionInv /\ ChainInv
    BY DEF CollectionInv, ChainInv
  <2>3. AnswersInv
    BY DEF AnswersInv, EmptyPage, OnPage
  <2> QED BY <2>1, <2>2, <2>3 DEF FeedInv
<1>2. TypeOK /\ IndInv /\ FeedInv /\ [Next]_vars => FeedInv'
  BY VersionInvStep, CollectionInvStep, ChainInvStep, AnswersInvStep DEF IndInv, FeedInv
<1> QED BY <1>1, <1>2, TypeCorrect, Invariance, PTL DEF Spec

-----------------------------------------------------------------------------
(* The refinement.                                                           *)

(* The fields of an entry of the log.                                        *)
LEMMA EntryFields ==
  ASSUME NEW v, NEW row
  PROVE  /\ LogEntry(v, row).id = v.id /\ LogEntry(v, row).collection = row.collection
         /\ LogEntry(v, row).deleted = v.deleted /\ LogEntry(v, row).base = v.baseRev
BY DEF LogEntry

(* The log of densely numbered versions has each at its rev.                  *)
LEMMA LogEntries ==
  ASSUME NEW V \in SUBSET Version, NEW n \in Nat, NEW R, Dense(V, 0, n),
         \A v \in V : R[v.id].collection \in Collections
  PROVE  /\ LogOf(V, n, R) \in Seq(Feed!Change)
         /\ Len(LogOf(V, n, R)) = n /\ DOMAIN LogOf(V, n, R) = 1 .. n
         /\ \A v \in V : v.rev \in 1 .. n /\ LogOf(V, n, R)[v.rev] = LogEntry(v, R[v.id])
         /\ \A r \in 1 .. n : \E v \in V : v.rev = r
<1> DEFINE at(r) == CHOOSE v \in V : v.rev = r
<1>1. \A r \in 1 .. n : \E v \in V : v.rev = r
  BY DEF Dense
<1>2. \A v \in V : v.rev \in 1 .. n
  BY DEF Dense, Version
<1>3. \A r \in 1 .. n : at(r) \in V /\ at(r).rev = r
  BY <1>1
<1>4. \A v \in V : at(v.rev) = v
  BY <1>2, <1>3 DEF Dense
<1>5. LogOf(V, n, R) = [r \in 1 .. n |-> LogEntry(at(r), R[at(r).id])]
  BY DEF LogOf
<1>6. \A v \in V : LogEntry(v, R[v.id]) \in Feed!Change
  BY DEF Version, Feed!Change, LogEntry
<1> HIDE DEF at
<1>7. LogOf(V, n, R) \in [1 .. n -> Feed!Change]
  BY <1>3, <1>5, <1>6
<1>8. \A v \in V : LogOf(V, n, R)[v.rev] = LogEntry(v, R[v.id])
  BY <1>2, <1>4, <1>5
<1>9. LogOf(V, n, R) \in Seq(Feed!Change) /\ Len(LogOf(V, n, R)) = n
  BY <1>7
<1> QED BY <1>1, <1>2, <1>7, <1>8, <1>9

(* What the log of a reachable state holds.                                  *)
LEMMA LoggedEntries ==
  ASSUME TypeOK, IndInv, FeedInv
  PROVE  /\ Logged \in Seq(Feed!Change) /\ Len(Logged) = head /\ head \in Nat
         /\ DOMAIN Logged = 1 .. head
         /\ \A v \in history : /\ v \in Version /\ v.rev \in 1 .. head /\ v.id \in Ids
                               /\ Exists(records[v.id])
                               /\ Logged[v.rev] = LogEntry(v, records[v.id])
         /\ \A r \in 1 .. head : \E v \in history : v.rev = r
<1>1. /\ history \in SUBSET Version /\ head \in Nat
      /\ \A i \in Ids : records[i].rev \in Nat
  BY DEF TypeOK, Row
<1>2. \A v \in history : v.id \in Ids /\ v.rev \in Nat
  BY <1>1 DEF Version
<1>3. \A v \in history : Exists(records[v.id])
  <2> TAKE v \in history
  <2>1. 0 < v.rev /\ v.rev <= records[v.id].rev
    BY DEF IndInv, HistoryInv
  <2> QED BY <1>1, <1>2, <2>1 DEF Exists
<1>4. \A v \in history : records[v.id].collection \in Collections
  BY <1>2, <1>3 DEF FeedInv, CollectionInv
<1>5. Dense(history, 0, head)
  BY DEF FeedInv, VersionInv
<1>6. /\ Logged \in Seq(Feed!Change) /\ Len(Logged) = head /\ DOMAIN Logged = 1 .. head
      /\ \A v \in history : v.rev \in 1 .. head /\ Logged[v.rev] = LogEntry(v, records[v.id])
      /\ \A r \in 1 .. head : \E v \in history : v.rev = r
  <2>1. Logged = LogOf(history, head, records)
    BY DEF Logged
  <2>2. PICK V, n, R : V = history /\ n = head /\ R = records
    OBVIOUS
  <2>3. /\ V \in SUBSET Version /\ n \in Nat /\ Dense(V, 0, n)
        /\ \A v \in V : R[v.id].collection \in Collections
    BY <1>1, <1>4, <1>5, <2>2
  <2>4. /\ LogOf(V, n, R) \in Seq(Feed!Change)
        /\ Len(LogOf(V, n, R)) = n /\ DOMAIN LogOf(V, n, R) = 1 .. n
        /\ \A v \in V : v.rev \in 1 .. n /\ LogOf(V, n, R)[v.rev] = LogEntry(v, R[v.id])
        /\ \A r \in 1 .. n : \E v \in V : v.rev = r
    BY <2>3, LogEntries
  <2> QED BY <2>1, <2>2, <2>4
<1> QED BY <1>1, <1>2, <1>3, <1>6

(* The revs of an id in the log are those of its versions.                    *)
LEMMA LoggedRevs ==
  ASSUME TypeOK, IndInv, FeedInv, NEW i, NEW r
  PROVE  r \in Feed!Revs(Logged, i) <=> \E v \in history : v.id = i /\ v.rev = r
<1>1. r \in Feed!Revs(Logged, i) <=> r \in DOMAIN Logged /\ Logged[r].id = i
  BY DEF Feed!Revs
<1>2. \A v \in history : v.rev \in DOMAIN Logged /\ Logged[v.rev].id = v.id
  BY LoggedEntries, EntryFields
<1>3. \A q \in DOMAIN Logged : \E v \in history : v.rev = q
  BY LoggedEntries
<1> QED BY <1>1, <1>2, <1>3

(* The last change of an id in the log is its row.                            *)
LEMMA NewestIsTheRow ==
  ASSUME TypeOK, IndInv, FeedInv, NEW i \in Ids, NEW q, Feed!Newest(Logged, i, q)
  PROVE  Exists(records[i]) /\ q = records[i].rev
<1>1. /\ q \in Feed!Revs(Logged, i) /\ Len(Logged) = head /\ head \in Nat
      /\ \A r \in Feed!Revs(Logged, i) : r < Len(Logged) + 1 => r <= q
  BY LoggedEntries DEF Feed!Newest, Feed!LastBelow
<1>2. PICK v \in history : v.id = i /\ v.rev = q
  BY <1>1, LoggedRevs
<1>3. v.rev \in 1 .. head /\ Exists(records[i])
  BY <1>2, LoggedEntries
<1>4. PICK u \in history : u.id = i /\ u.rev = records[i].rev
  BY <1>3 DEF FeedInv, VersionInv, Recorded
<1>5. u.rev \in Feed!Revs(Logged, i) /\ u.rev \in 1 .. head
  BY <1>4, LoggedRevs, LoggedEntries
<1>6. u.rev <= q
  BY <1>1, <1>5
<1>7. v.rev <= records[i].rev
  BY <1>2 DEF IndInv, HistoryInv
<1> QED BY <1>2, <1>3, <1>4, <1>5, <1>6, <1>7

(* What a commit puts after the log was decided against what is below it.      *)
LEMMA CommitDecided ==
  ASSUME TypeOK, IndInv, FeedInv, NEW p \in Pushers, pc[p] = "open",
         NEW l, NEW R, NEW n \in Nat,
         \A i \in Ids : R[i] = Current(p, i),
         DOMAIN l = 1 .. n,
         \A v \in history \cup accepted[p] :
           v.rev \in 1 .. n /\ l[v.rev] = LogEntry(v, R[v.id]),
         \A r \in 1 .. n : \E v \in history \cup accepted[p] : v.rev = r,
         NEW r \in 1 .. n, head < r
  PROVE  Feed!Decided(l, r)
<1>0. head \in Nat /\ history \in SUBSET Version /\ accepted[p] \in SUBSET Version
  BY DEF TypeOK
<1>1. PICK w \in history \cup accepted[p] : w.rev = r
  OBVIOUS
<1>2. w \in accepted[p] /\ w.id \in Ids
  BY <1>0, <1>1, VersionsBelowCurrent DEF IndInv
<1>3. /\ l[r].id = w.id /\ l[r].collection = R[w.id].collection
      /\ l[r].deleted = w.deleted /\ l[r].base = w.baseRev
  <2>1. l[r] = LogEntry(w, R[w.id])
    BY <1>1
  <2> QED BY <2>1, EntryFields
<1>4. R[w.id] = writes[p][w.id]
  <2>1. Exists(writes[p][w.id])
    <3>1. head < w.rev /\ w.rev <= writes[p][w.id].rev
      BY <1>2 DEF IndInv, HistoryInv
    <3>2. w.rev \in Nat /\ writes[p][w.id].rev \in Nat
      BY <1>0, <1>2 DEF TypeOK, Row, Version
    <3> QED BY <1>0, <3>1, <3>2 DEF Exists
  <2> QED BY <1>2, <2>1 DEF Current
<1>5. ASSUME NEW q \in DOMAIN l, Feed!LastBelow(l, l[r].id, r, q)
      PROVE  /\ l[r].collection = l[q].collection
             /\ IF l[r].deleted THEN ~l[q].deleted
                ELSE l[r].base = q /\ (l[q].deleted => l[r].collection = "providers")
  <2>1. PICK v \in history \cup accepted[p] : v.rev = q
    BY <1>5
  <2>2. l[q].id = v.id /\ l[q].collection = R[v.id].collection /\ l[q].deleted = v.deleted
    <3>1. l[q] = LogEntry(v, R[v.id])
      BY <2>1
    <3> QED BY <3>1, EntryFields
  <2>3. /\ l[q].id = w.id /\ q < r
        /\ \A s \in DOMAIN l : l[s].id = w.id /\ s < r => s <= q
    BY <1>3, <1>5 DEF Feed!LastBelow, Feed!Revs
  <2>4. ASSUME NEW u \in history \cup accepted[p], u.id = w.id, u.rev < w.rev
        PROVE  u.rev <= v.rev
    <3>1. u.rev \in DOMAIN l /\ l[u.rev].id = u.id
      BY EntryFields
    <3> QED BY <1>1, <2>1, <2>3, <2>4, <3>1
  <2>5. OnTop(w, v, writes[p][w.id].collection)
    BY <1>1, <1>2, <2>1, <2>2, <2>3, <2>4 DEF FeedInv, ChainInv
  <2> QED BY <1>3, <1>4, <2>1, <2>2, <2>3, <2>5 DEF OnTop
<1> QED BY <1>5 DEF Feed!Decided

(* A commit appends to the log what the transaction accepted.                 *)
LEMMA CommitGrows ==
  ASSUME TypeOK, IndInv, FeedInv, TypeOK', IndInv', FeedInv',
         NEW p \in Pushers, Commit(p)
  PROVE  Feed!Grow \/ UNCHANGED Feed!vars
<1>1. /\ pc[p] = "open" /\ head' = txHead[p] /\ history' = history \cup accepted[p]
      /\ records' = [i \in Ids |-> Current(p, i)]
      /\ UNCHANGED <<watermark, seen, acked>>
  BY DEF Commit, pullVars
<1>2. /\ history' \in SUBSET Version /\ head \in Nat /\ head' \in Nat
      /\ records \in [Ids -> Row] /\ \A i \in Ids : records'[i].rev \in Nat
      /\ accepted[p] \in SUBSET Version
  BY DEF TypeOK, Row
<1>3. Dense(accepted[p], head, txHead[p]) /\ head <= head'
  BY <1>1 DEF FeedInv, VersionInv, IndInv, RevInv
<1>4. CASE accepted[p] = {}
  <2>1. \A i \in Ids : ~Exists(writes[p][i])
    BY <1>4 DEF FeedInv, VersionInv, Recorded
  <2>2. records' = records
    BY <1>1, <1>2, <2>1 DEF Current
  <2>3. head' = head
    BY <1>1, <1>2, <1>3, <1>4 DEF Dense
  <2>4. history' = history
    BY <1>1, <1>4
  <2> QED BY <1>1, <2>2, <2>3, <2>4 DEF Feed!vars, Logged
<1>5. CASE accepted[p] # {}
  <2> DEFINE l == LogOf(history', head', records')
  <2>1. \A v \in history' : v.id \in Ids /\ v.rev \in Nat /\ Exists(records'[v.id])
    <3> TAKE v \in history'
    <3>1. v.id \in Ids /\ v.rev \in Nat
      BY <1>2 DEF Version
    <3>2. 0 < v.rev /\ v.rev <= records'[v.id].rev
      BY DEF IndInv, HistoryInv
    <3> QED BY <1>2, <3>1, <3>2 DEF Exists
  <2>2. \A v \in history' : records'[v.id].collection \in Collections
    BY <2>1 DEF FeedInv, CollectionInv
  <2>3. Dense(history', 0, head')
    BY DEF FeedInv, VersionInv
  <2>4. /\ l \in Seq(Feed!Change) /\ Len(l) = head' /\ DOMAIN l = 1 .. head'
        /\ \A v \in history' : v.rev \in 1 .. head' /\ l[v.rev] = LogEntry(v, records'[v.id])
        /\ \A r \in 1 .. head' : \E v \in history' : v.rev = r
    <3>1. PICK V, n, R : V = history' /\ n = head' /\ R = records'
      OBVIOUS
    <3>2. /\ V \in SUBSET Version /\ n \in Nat /\ Dense(V, 0, n)
          /\ \A v \in V : R[v.id].collection \in Collections
      BY <1>2, <2>2, <2>3, <3>1
    <3>3. /\ LogOf(V, n, R) \in Seq(Feed!Change)
          /\ Len(LogOf(V, n, R)) = n /\ DOMAIN LogOf(V, n, R) = 1 .. n
          /\ \A v \in V : v.rev \in 1 .. n /\ LogOf(V, n, R)[v.rev] = LogEntry(v, R[v.id])
          /\ \A r \in 1 .. n : \E v \in V : v.rev = r
      BY <3>2, LogEntries
    <3> QED BY <3>1, <3>3
  <2>5. Logged' = l
    BY DEF Logged
  <2> HIDE DEF l
  <2>6. head < head'
    <3>1. PICK v \in accepted[p] : TRUE
      BY <1>5
    <3>2. v.rev \in Nat /\ head < v.rev /\ v.rev <= head'
      BY <1>1, <1>2, <1>3 DEF Dense, Version
    <3> QED BY <1>2, <3>2
  <2>7. ASSUME NEW r \in DOMAIN Logged PROVE l[r] = Logged[r]
    <3>1. PICK v \in history : v.rev = r
      BY LoggedEntries
    <3>2. /\ Logged[r] = LogEntry(v, records[v.id]) /\ v.id \in Ids
          /\ Exists(records[v.id])
      BY <3>1, LoggedEntries
    <3>3. l[r] = LogEntry(v, records'[v.id])
      BY <1>1, <2>4, <3>1
    <3>4. records'[v.id].collection = records[v.id].collection
      <4>1. records'[v.id] = Current(p, v.id)
        BY <1>1, <3>2
      <4>2. Exists(writes[p][v.id]) => writes[p][v.id].collection = records[v.id].collection
        BY <3>2 DEF FeedInv, CollectionInv
      <4> QED BY <4>1, <4>2 DEF Current
    <3> QED BY <3>2, <3>3, <3>4 DEF LogEntry
  <2>8. ASSUME NEW r \in DOMAIN l \ DOMAIN Logged PROVE Feed!Decided(l, r)
    <3>1. r \in 1 .. head' /\ head < r
      BY <1>2, <2>4, LoggedEntries
    <3>2. PICK m, R, n : m = l /\ R = records' /\ n = head'
      OBVIOUS
    <3>3. \A i \in Ids : R[i] = Current(p, i)
      BY <1>1, <3>2
    <3>4. /\ \A v \in history \cup accepted[p] :
               v.rev \in 1 .. n /\ m[v.rev] = LogEntry(v, R[v.id])
          /\ \A q \in 1 .. n : \E v \in history \cup accepted[p] : v.rev = q
          /\ DOMAIN m = 1 .. n /\ n \in Nat
      BY <1>1, <1>2, <2>4, <3>2
    <3>5. r \in 1 .. n /\ pc[p] = "open"
      BY <1>1, <3>1, <3>2
    <3>6. Feed!Decided(m, r)
      BY <3>1, <3>3, <3>4, <3>5, CommitDecided
    <3> QED BY <3>2, <3>6
  <2>9. Len(Logged) < Len(l)
    BY <2>4, <2>6, LoggedEntries
  <2> QED BY <1>1, <2>4, <2>5, <2>7, <2>8, <2>9 DEF Feed!Grow
<1> QED BY <1>4, <1>5

(* An answer names changes that are in the log.                              *)
LEMMA AnswerTells ==
  ASSUME TypeOK, IndInv, FeedInv, NEW p \in Pushers, Answer(p)
  PROVE  Feed!Tell
<1>1. /\ pc[p] = "answering" /\ acked' = acked \cup oks[p]
      /\ UNCHANGED <<records, head, history, watermark, seen>>
  BY DEF Answer, dbVars, pullVars
<1>2. accepted[p] = {}
  BY <1>1 DEF IndInv, LockInv
<1>3. \A o \in oks[p] : \E v \in history : v.id = o[1] /\ v.rev = o[2]
  BY <1>2 DEF FeedInv, AnswersInv
<1>4. \A o \in oks[p] : o[2] \in Feed!Revs(Logged, o[1])
  BY <1>3, LoggedRevs
<1>5. Logged' = Logged
  BY <1>1 DEF Logged
<1> QED BY <1>1, <1>4, <1>5 DEF Feed!Tell

(* A page that arrives takes its device onward through the log.               *)
LEMMA DeliverReads ==
  ASSUME TypeOK, IndInv, FeedInv, TypeOK', IndInv', FeedInv',
         NEW d \in Pullers, Deliver(d)
  PROVE  Feed!Read(d)
<1>1. /\ UNCHANGED <<records, head, history, acked>>
      /\ \A i \in Ids : seen'[d][i] = IF i \in OnPage(d) THEN page[d][i].rev ELSE seen[d][i]
      /\ seen' = [seen EXCEPT ![d] = seen'[d]]
      /\ watermark' = [watermark EXCEPT ![d] = watermark'[d]]
  BY DEF Deliver, dbVars, TypeOK
<1>2. /\ Logged' = Logged /\ Len(Logged) = head /\ head \in Nat
      /\ watermark[d] \in Nat /\ watermark'[d] \in Nat
      /\ seen'[d] \in [Ids -> Nat]
  BY <1>1, LoggedEntries DEF Logged, TypeOK
<1>3. watermark'[d] \in watermark[d] .. Len(Logged)
  <2>1. watermark'[d] <= head
    BY <1>1 DEF IndInv, PageInv
  <2>2. watermark[d] <= watermark'[d]
    <3>1. CASE watermark' = watermark
      BY <1>2, <3>1
    <3>2. ASSUME NEW last \in OnPage(d), watermark' = [watermark EXCEPT ![d] = page[d][last].rev]
          PROVE  watermark[d] <= watermark'[d]
      <4>1. watermark'[d] = page[d][last].rev
        BY <3>2 DEF TypeOK
      <4>2. watermark[d] < page[d][last].rev
        BY DEF IndInv, PageInv
      <4> QED BY <1>2, <4>1, <4>2
    <3> QED BY <3>1, <3>2 DEF Deliver
  <2> QED BY <1>2, <2>1, <2>2
<1>4. seen'[d] \in [Ids -> 0 .. watermark'[d]]
  <2>1. \A i \in Ids : seen'[d][i] <= watermark'[d] /\ seen'[d][i] \in Nat
    BY <1>2 DEF FeedInv, AnswersInv
  <2> QED BY <1>2, <2>1
<1>5. ASSUME NEW i \in Ids, seen'[d][i] # seen[d][i]
      PROVE  watermark[d] < seen'[d][i] /\ seen'[d][i] \in Feed!Revs(Logged, i)
  <2>1. i \in OnPage(d) /\ seen'[d][i] = page[d][i].rev
    BY <1>1, <1>5
  <2>2. watermark[d] < page[d][i].rev
    BY <2>1 DEF IndInv, PageInv
  <2>3. \E v \in history : v.id = i /\ v.rev = page[d][i].rev
    BY <2>1 DEF FeedInv, AnswersInv
  <2> QED BY <2>1, <2>2, <2>3, LoggedRevs
<1>6. ASSUME NEW i \in Ids, NEW q \in Feed!Revs(Logged, i), q <= watermark'[d],
             Feed!Newest(Logged, i, q)
      PROVE  seen'[d][i] = q
  <2>1. Exists(records[i]) /\ q = records[i].rev
    BY <1>6, NewestIsTheRow
  <2> QED BY <1>1, <1>6, <2>1 DEF IndInv, NoSkippedRecord
<1> QED BY <1>1, <1>2, <1>3, <1>4, <1>5, <1>6 DEF Feed!Read

(* The record store implements the change feed: every behaviour of pushes,    *)
(* transactions, aborts, pages and lost answers is, seen through the mapping,  *)
(* one of the log's, for any ids, requests, devices, batches and page limits. *)
THEOREM StoreIsAFeed == Spec => IsAFeed
<1>1. Init => Feed!Init
  <2> SUFFICES ASSUME Init PROVE Feed!Init
    OBVIOUS
  <2>1. Logged = <<>>
    BY DEF Init, Logged, LogOf
  <2> QED BY <2>1 DEF Init, Feed!Init
<1>2. TypeOK /\ IndInv /\ FeedInv /\ TypeOK' /\ IndInv' /\ FeedInv' /\ [Next]_vars
        => [Feed!Next]_(Feed!vars)
  <2> SUFFICES ASSUME TypeOK, IndInv, FeedInv, TypeOK', IndInv', FeedInv', [Next]_vars
               PROVE  Feed!Next \/ UNCHANGED Feed!vars
    OBVIOUS
  <2>1. ASSUME NEW p \in Pushers, Commit(p) PROVE Feed!Next \/ UNCHANGED Feed!vars
    BY <2>1, CommitGrows DEF Feed!Next
  <2>2. ASSUME NEW p \in Pushers, Answer(p) PROVE Feed!Next
    BY <2>2, AnswerTells DEF Feed!Next
  <2>3. ASSUME NEW d \in Pullers, Deliver(d) PROVE Feed!Next
    BY <2>3, DeliverReads DEF Feed!Next
  <2>4. ASSUME UNCHANGED <<records, head, history, watermark, seen, acked>>
        PROVE  UNCHANGED Feed!vars
    BY <2>4 DEF Feed!vars, Logged
  <2> QED
    BY <2>1, <2>2, <2>3, <2>4
       DEF Next, Push, Device, Begin, Open, AcceptWrite, AcceptDelete, RepeatDelete,
           Refuse, Deciding, Abort, Publish, LoseAnswer, Pull, LosePage, vars, dbVars,
           pullVars
<1> QED
  BY <1>1, <1>2, TypeCorrect, Invariance, LogInvariance, PTL DEF Spec, IsAFeed, Feed!Spec

=============================================================================
