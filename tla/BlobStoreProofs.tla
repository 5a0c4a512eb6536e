-------------------------- MODULE BlobStoreProofs --------------------------
(***************************************************************************)
(* Proofs about BlobStore, for every set of blobs, bodies and requests and    *)
(* every quota: its types, the quota, and which row can count on its object. *)
(***************************************************************************)
EXTENDS BlobStore, Functions, FiniteSetTheorems, WellFoundedInduction, TLAPS

(* A family of subsets of a finite set has one that contains no other.        *)
LEMMA SmallestSubset ==
  ASSUME NEW S, IsFiniteSet(S), NEW F, F \subseteq SUBSET S, F # {}
  PROVE  \E T \in F : \A U \in SUBSET T : U # T => U \notin F
<1>1. F \subseteq FiniteSubsetsOf(S)
  BY FS_FiniteSubsetsOfFinite
<1>2. PICK T \in F : \A U \in F : <<U, T>> \notin StrictSubsetOrdering(S)
  BY <1>1, FS_StrictSubsetOrderingWellFounded, WFMin
<1>3. ASSUME NEW U \in SUBSET T, U # T, U \in F PROVE FALSE
  <2>1. <<U, T>> \in (SUBSET S) \X (SUBSET S)
    OBVIOUS
  <2>2. <<U, T>> \in StrictSubsetOrdering(S)
    BY <1>3, <2>1 DEF StrictSubsetOrdering
  <2> QED
    BY <1>2, <1>3, <2>2
<1> QED
  BY <1>2, <1>3

-----------------------------------------------------------------------------
(* Sums.                                                                     *)

Pick(S) == CHOOSE x \in S : TRUE

(* g gives every subset of S its sum under f, an element at a time.           *)
Tallies(g, f, S) ==
  g = [T \in SUBSET S |-> IF T = {} THEN 0 ELSE f[Pick(T)] + g[T \ {Pick(T)}]]

LEMMA PickIsThere ==
  ASSUME NEW S, S # {}
  PROVE  Pick(S) \in S
BY DEF Pick

LEMMA TallyOfNothing ==
  ASSUME NEW f, NEW S, NEW g, Tallies(g, f, S)
  PROVE  g[{}] = 0
BY DEF Tallies

LEMMA TallyStep ==
  ASSUME NEW f, NEW S, NEW g, Tallies(g, f, S), NEW T \in SUBSET S, T # {}
  PROVE  Pick(T) \in T /\ g[T] = f[Pick(T)] + g[T \ {Pick(T)}]
BY PickIsThere DEF Tallies

(* Two tallies agree on the sets they both tally.                            *)
LEMMA TalliesAgree ==
  ASSUME NEW f, NEW S, IsFiniteSet(S), NEW A \in SUBSET S, NEW B \in SUBSET S,
         NEW g, Tallies(g, f, A), NEW h, Tallies(h, f, B),
         NEW T \in SUBSET A, T \in SUBSET B
  PROVE  g[T] = h[T]
<1> DEFINE F == {U \in SUBSET T : g[U] # h[U]}
<1>1. SUFFICES ASSUME F # {} PROVE FALSE
  OBVIOUS
<1>2. IsFiniteSet(T)
  BY FS_Subset
<1>3. PICK U \in F : \A V \in SUBSET U : V # U => V \notin F
  <2>1. F \subseteq SUBSET T
    OBVIOUS
  <2> HIDE DEF F
  <2> QED BY <1>1, <1>2, <2>1, SmallestSubset
<1>4. U # {}
  BY TallyOfNothing
<1>5. Pick(U) \in U
  BY <1>4, TallyStep
<1>6. U \ {Pick(U)} \notin F /\ U \ {Pick(U)} \in SUBSET T
  BY <1>3, <1>5
<1>7. g[U \ {Pick(U)}] = h[U \ {Pick(U)}]
  BY <1>6
<1>8. U \in SUBSET A /\ U \in SUBSET B
  OBVIOUS
<1>9. g[U] = f[Pick(U)] + g[U \ {Pick(U)}] /\ h[U] = f[Pick(U)] + h[U \ {Pick(U)}]
  BY <1>4, <1>8, TallyStep
<1> QED BY <1>7, <1>9

(* The tally of a finite set exists: a smallest set without one would get its  *)
(* own from those of its proper subsets.                                     *)
LEMMA TallyExists ==
  ASSUME NEW f, NEW S, IsFiniteSet(S)
  PROVE  \E g : Tallies(g, f, S)
<1> DEFINE F == {T \in SUBSET S : ~ \E g : Tallies(g, f, T)}
<1>1. SUFFICES ASSUME F # {} PROVE FALSE
  OBVIOUS
<1>2. PICK T \in F : \A U \in SUBSET T : U # T => U \notin F
  <2>1. F \subseteq SUBSET S
    OBVIOUS
  <2> HIDE DEF F
  <2> QED BY <1>1, <2>1, SmallestSubset
<1> DEFINE sub(U) == CHOOSE g : Tallies(g, f, U)
           value(U) == IF U = {} THEN 0 ELSE f[Pick(U)] + sub(U \ {Pick(U)})[U \ {Pick(U)}]
           g == [U \in SUBSET T |-> value(U)]
<1>3. ASSUME NEW U \in SUBSET T, U # T PROVE Tallies(sub(U), f, U)
  <2>1. \E k : Tallies(k, f, U)
    BY <1>2, <1>3
  <2> QED BY <2>1
<1>4. ASSUME NEW U \in SUBSET T, U # T PROVE sub(U)[U] = value(U)
  <2> HIDE DEF sub
  <2>1. CASE U = {}
    BY <1>3, <1>4, <2>1, TallyOfNothing
  <2>2. CASE U # {}
    <3> DEFINE V == U \ {Pick(U)}
    <3>1. Pick(U) \in U
      BY <2>2, PickIsThere
    <3>2. Tallies(sub(U), f, U) /\ Tallies(sub(V), f, V)
      BY <1>3, <1>4, <3>1
    <3>3. sub(U)[V] = sub(V)[V]
      <4>1. U \in SUBSET S /\ V \in SUBSET S /\ V \in SUBSET U /\ V \in SUBSET V
        OBVIOUS
      <4>2. ASSUME NEW a, NEW b, Tallies(a, f, U), Tallies(b, f, V)
            PROVE  a[V] = b[V]
        <5> HIDE DEF V, F, g, value
        <5> QED BY <4>1, <4>2, TalliesAgree
      <4> HIDE DEF V
      <4> QED BY <3>2, <4>2
    <3>4. sub(U)[U] = f[Pick(U)] + sub(U)[V]
      <4>1. U \in SUBSET U
        OBVIOUS
      <4> QED BY <2>2, <3>2, <4>1, TallyStep
    <3> QED BY <2>2, <3>3, <3>4
  <2> QED BY <2>1, <2>2
<1>5. ASSUME NEW U \in SUBSET T, U # {}
      PROVE  sub(U \ {Pick(U)})[U \ {Pick(U)}] = g[U \ {Pick(U)}]
  <2> HIDE DEF sub, value
  <2>1. Pick(U) \in U
    BY <1>5, PickIsThere
  <2>2. U \ {Pick(U)} \in SUBSET T /\ U \ {Pick(U)} # T
    BY <2>1
  <2> QED BY <2>2, <1>4
<1>6. g = [U \in SUBSET T |-> IF U = {} THEN 0 ELSE f[Pick(U)] + g[U \ {Pick(U)}]]
  <2> HIDE DEF g
  <2>1. ASSUME NEW U \in SUBSET T
        PROVE  value(U) = IF U = {} THEN 0 ELSE f[Pick(U)] + g[U \ {Pick(U)}]
    <3> HIDE DEF sub
    <3> QED BY <1>5
  <2>2. g = [U \in SUBSET T |-> value(U)]
    BY DEF g
  <2> HIDE DEF value
  <2> QED BY <2>1, <2>2
<1>7. Tallies(g, f, T)
  <2> HIDE DEF g
  <2> QED BY <1>6 DEF Tallies
<1> QED BY <1>7

(* The sum is the tally's.                                                   *)
LEMMA SumIsTally ==
  ASSUME NEW f, NEW S, IsFiniteSet(S)
  PROVE  \E g : Tallies(g, f, S) /\ SumFunctionOnSet(f, S) = g[S]
<1> DEFINE tally == CHOOSE g : Tallies(g, f, S)
<1>1. Tallies(tally, f, S)
  BY TallyExists
<1>2. SumFunctionOnSet(f, S) = tally[S]
  BY DEF SumFunctionOnSet, FoldFunctionOnSet, MapThenFoldSet, Tallies, Pick
<1> QED BY <1>1, <1>2

(* Whatever the tally, an integer.                                           *)
LEMMA TallyIsInt ==
  ASSUME NEW f, NEW S, IsFiniteSet(S), \A x \in S : f[x] \in Int,
         NEW g, Tallies(g, f, S), NEW T \in SUBSET S
  PROVE  g[T] \in Int
<1> DEFINE F == {U \in SUBSET S : g[U] \notin Int}
<1>1. SUFFICES ASSUME F # {} PROVE FALSE
  OBVIOUS
<1>2. PICK U \in F : \A V \in SUBSET U : V # U => V \notin F
  <2>1. F \subseteq SUBSET S
    OBVIOUS
  <2> HIDE DEF F
  <2> QED BY <1>1, <2>1, SmallestSubset
<1>3. U # {}
  <2>1. g[{}] \in Int
    BY TallyOfNothing
  <2> QED BY <2>1
<1>4. Pick(U) \in U /\ g[U] = f[Pick(U)] + g[U \ {Pick(U)}]
  BY <1>3, TallyStep
<1>5. U \ {Pick(U)} \in SUBSET S /\ U \ {Pick(U)} \notin F
  BY <1>2, <1>4
<1>6. g[U \ {Pick(U)}] \in Int /\ f[Pick(U)] \in Int
  BY <1>4, <1>5
<1> QED BY <1>4, <1>6

(* Any element may be taken out first.                                       *)
LEMMA TallyTakes ==
  ASSUME NEW f, NEW S, IsFiniteSet(S), \A x \in S : f[x] \in Int,
         NEW g, Tallies(g, f, S), NEW x \in S
  PROVE  g[S] = f[x] + g[S \ {x}]
<1> DEFINE Obeys(U) == \A z \in U : g[U] = f[z] + g[U \ {z}]
           F == {U \in SUBSET S : ~ Obeys(U)}
<1>1. SUFFICES ASSUME F # {} PROVE FALSE
  OBVIOUS
<1>2. PICK U \in F : \A V \in SUBSET U : V # U => V \notin F
  <2>1. F \subseteq SUBSET S
    OBVIOUS
  <2> HIDE DEF F
  <2> QED BY <1>1, <2>1, SmallestSubset
<1>3. PICK z \in U : g[U] # f[z] + g[U \ {z}]
  OBVIOUS
<1> DEFINE y == Pick(U)
<1>4. y \in U /\ g[U] = f[y] + g[U \ {y}]
  <2>1. U \in SUBSET S /\ U # {}
    OBVIOUS
  <2> QED BY <2>1, TallyStep
<1>5. y # z
  BY <1>3, <1>4
<1> HIDE DEF y
<1>6. U \ {y} \in SUBSET S /\ U \ {z} \in SUBSET S /\ (U \ {z}) \ {y} \in SUBSET S
  OBVIOUS
<1>7. Obeys(U \ {y}) /\ Obeys(U \ {z})
  BY <1>2, <1>3, <1>4, <1>6
<1>8. (U \ {y}) \ {z} = (U \ {z}) \ {y}
  OBVIOUS
<1>9. g[U \ {y}] = f[z] + g[(U \ {z}) \ {y}] /\ g[U \ {z}] = f[y] + g[(U \ {z}) \ {y}]
  BY <1>3, <1>4, <1>5, <1>7, <1>8
<1>10. f[z] \in Int /\ f[y] \in Int /\ g[(U \ {z}) \ {y}] \in Int
  <2> HIDE DEF F, Obeys
  <2>1. U \in SUBSET S
    BY DEF F
  <2> QED BY <1>3, <1>4, <1>6, <2>1, TallyIsInt
<1>11. g[U] = f[z] + g[U \ {z}]
  <2> HIDE DEF F, Obeys
  <2> QED BY <1>4, <1>9, <1>10
<1> QED BY <1>3, <1>11

LEMMA SumOfNothing ==
  ASSUME NEW f
  PROVE  SumFunctionOnSet(f, {}) = 0
<1>1. PICK g : Tallies(g, f, {}) /\ SumFunctionOnSet(f, {}) = g[{}]
  BY FS_EmptySet, SumIsTally
<1> QED BY <1>1, TallyOfNothing

LEMMA SumIsInt ==
  ASSUME NEW f, NEW S, IsFiniteSet(S), \A x \in S : f[x] \in Int
  PROVE  SumFunctionOnSet(f, S) \in Int
<1>1. S \in SUBSET S
  OBVIOUS
<1> QED BY <1>1, SumIsTally, TallyIsInt

(* Only what the summands are counts.                                        *)
LEMMA SumSame ==
  ASSUME NEW f, NEW g, NEW S, IsFiniteSet(S), \A x \in S : f[x] = g[x]
  PROVE  SumFunctionOnSet(f, S) = SumFunctionOnSet(g, S)
<1>1. PICK h : Tallies(h, f, S) /\ SumFunctionOnSet(f, S) = h[S]
  BY SumIsTally
<1>2. PICK k : Tallies(k, g, S) /\ SumFunctionOnSet(g, S) = k[S]
  BY SumIsTally
<1>3. Tallies(k, f, S)
  BY <1>2, PickIsThere DEF Tallies
<1>4. S \in SUBSET S
  OBVIOUS
<1> QED BY <1>1, <1>2, <1>3, <1>4, TalliesAgree

(* The sum of all but one.                                                   *)
LEMMA SumTakes ==
  ASSUME NEW f, NEW S, IsFiniteSet(S), \A x \in S : f[x] \in Int, NEW x \in S
  PROVE  SumFunctionOnSet(f, S) = f[x] + SumFunctionOnSet(f, S \ {x})
<1> DEFINE R == S \ {x}
<1>1. PICK g : Tallies(g, f, S) /\ SumFunctionOnSet(f, S) = g[S]
  BY SumIsTally
<1>2. IsFiniteSet(R) /\ R \in SUBSET S /\ S \in SUBSET S /\ R \in SUBSET R
  BY FS_Subset
<1>3. PICK h : Tallies(h, f, R) /\ SumFunctionOnSet(f, R) = h[R]
  <2> HIDE DEF R
  <2> QED BY <1>2, SumIsTally
<1>4. g[R] = h[R]
  <2> HIDE DEF R
  <2> QED BY <1>1, <1>2, <1>3, TalliesAgree
<1>5. g[S] = f[x] + g[R]
  BY <1>1, TallyTakes
<1> QED BY <1>1, <1>3, <1>4, <1>5

(* One summand changes.                                                      *)
LEMMA SumChangesOne ==
  ASSUME NEW f, NEW g, NEW S, IsFiniteSet(S), NEW y \in S,
         \A x \in S : f[x] \in Int /\ g[x] \in Int,
         \A x \in S \ {y} : g[x] = f[x]
  PROVE  SumFunctionOnSet(g, S) = SumFunctionOnSet(f, S) - f[y] + g[y]
<1> DEFINE R == S \ {y}
<1>1. IsFiniteSet(R)
  BY FS_RemoveElement
<1>2. SumFunctionOnSet(f, S) = f[y] + SumFunctionOnSet(f, R)
  BY SumTakes
<1>3. SumFunctionOnSet(g, S) = g[y] + SumFunctionOnSet(g, R)
  BY SumTakes
<1>4. SumFunctionOnSet(f, R) = SumFunctionOnSet(g, R)
  <2> HIDE DEF R
  <2>1. \A x \in R : f[x] = g[x]
    BY DEF R
  <2> QED BY <1>1, <2>1, SumSame
<1>5. SumFunctionOnSet(f, R) \in Int
  <2>1. \A x \in R : f[x] \in Int
    OBVIOUS
  <2> HIDE DEF R
  <2> QED BY <1>1, <2>1, SumIsInt
<1>6. f[y] \in Int /\ g[y] \in Int
  OBVIOUS
<1> HIDE DEF R
<1> QED BY <1>2, <1>3, <1>4, <1>5, <1>6

(* A summand joins.                                                          *)
LEMMA SumGains ==
  ASSUME NEW f, NEW g, NEW S, IsFiniteSet(S), NEW y, y \notin S,
         \A x \in S : f[x] \in Int /\ g[x] = f[x], g[y] \in Int
  PROVE  SumFunctionOnSet(g, S \cup {y}) = SumFunctionOnSet(f, S) + g[y]
<1> DEFINE R == S \cup {y}
<1>1. IsFiniteSet(R) /\ y \in R /\ R \ {y} = S
  BY FS_AddElement
<1>2. \A x \in R : g[x] \in Int
  OBVIOUS
<1>3. SumFunctionOnSet(g, R) = g[y] + SumFunctionOnSet(g, S)
  <2> HIDE DEF R
  <2> QED BY <1>1, <1>2, SumTakes
<1>4. SumFunctionOnSet(g, S) = SumFunctionOnSet(f, S)
  BY SumSame
<1>5. SumFunctionOnSet(f, S) \in Int
  BY SumIsInt
<1> QED BY <1>3, <1>4, <1>5

(* Summands that are not negative give a sum that is not.                     *)
LEMMA SumIsNat ==
  ASSUME NEW f, NEW S, IsFiniteSet(S), \A x \in S : f[x] \in Nat
  PROVE  SumFunctionOnSet(f, S) \in Nat
<1> DEFINE F == {U \in SUBSET S : SumFunctionOnSet(f, U) \notin Nat}
<1>1. SUFFICES ASSUME F # {} PROVE FALSE
  <2>1. S \in SUBSET S
    OBVIOUS
  <2> QED BY <2>1
<1>2. PICK U \in F : \A V \in SUBSET U : V # U => V \notin F
  <2>1. F \subseteq SUBSET S
    OBVIOUS
  <2> HIDE DEF F
  <2> QED BY <1>1, <2>1, SmallestSubset
<1>3. U # {}
  <2>1. SumFunctionOnSet(f, {}) = 0
    BY SumOfNothing
  <2> QED BY <2>1
<1>4. PICK x \in U : TRUE
  BY <1>3
<1>5. U \ {x} \in SUBSET S /\ SumFunctionOnSet(f, U \ {x}) \in Nat
  BY <1>2
<1>6. IsFiniteSet(U) /\ \A z \in U : f[z] \in Int
  BY FS_Subset
<1>7. SumFunctionOnSet(f, U) = f[x] + SumFunctionOnSet(f, U \ {x})
  BY <1>6, SumTakes
<1>8. f[x] \in Nat
  OBVIOUS
<1> QED BY <1>5, <1>7, <1>8

LEMMA SumOfZeros ==
  ASSUME NEW f, NEW S, IsFiniteSet(S), \A x \in S : f[x] = 0
  PROVE  SumFunctionOnSet(f, S) = 0
<1> DEFINE F == {U \in SUBSET S : SumFunctionOnSet(f, U) # 0}
<1>1. SUFFICES ASSUME F # {} PROVE FALSE
  <2>1. S \in SUBSET S
    OBVIOUS
  <2> QED BY <2>1
<1>2. PICK U \in F : \A V \in SUBSET U : V # U => V \notin F
  <2>1. F \subseteq SUBSET S
    OBVIOUS
  <2> HIDE DEF F
  <2> QED BY <1>1, <2>1, SmallestSubset
<1>3. U # {}
  BY SumOfNothing
<1>4. PICK x \in U : TRUE
  BY <1>3
<1>5. U \ {x} \in SUBSET S /\ SumFunctionOnSet(f, U \ {x}) = 0
  BY <1>2
<1>6. IsFiniteSet(U) /\ \A z \in U : f[z] \in Int
  BY FS_Subset
<1>7. SumFunctionOnSet(f, U) = f[x] + SumFunctionOnSet(f, U \ {x})
  BY <1>6, SumTakes
<1> QED BY <1>5, <1>7

-----------------------------------------------------------------------------


(* What a blob charges is a natural number, and so is what a delete leaves.   *)
LEMMA ChargeIsNat ==
  ASSUME NEW b \in Bodies
  PROVE  Charge(b) \in Nat
BY BlobAssumption DEF Charge, Maximum

(* What the fields of an open request range over.                            *)
LEMMA RequestFacts ==
  ASSUME TypeOK, NEW r \in Requests
  PROVE  /\ id(r) \in BlobIds \cup {NoBody}
         /\ body(r) \in Bodies \cup {NoBody}
         /\ total(r) \in Int
         /\ req[r].kind \in {"put", "delete", "records"}
         /\ req[r].kind = "put" => id(r) \in BlobIds /\ body(r) \in Bodies
         /\ req[r].kind = "delete" => id(r) \in BlobIds
         /\ Blank \in Request
BY DEF TypeOK, Request, Requesting, Blank, id, body, total

(* A delete leaves an integer count, not above the one it read.               *)
LEMMA CreditedFacts ==
  ASSUME TypeOK, NEW r \in Requests, req[r].kind = "delete",
         total(r) = totalBytes
  PROVE  /\ Credited(r) \in Int
         /\ WithinQuota => Credited(r) <= QuotaBytes
<1>1. total(r) \in Int /\ id(r) \in BlobIds
  BY RequestFacts
<1>2. CASE rows[id(r)] = NoBody
  BY <1>2 DEF Credited, TypeOK, WithinQuota
<1>3. CASE rows[id(r)] # NoBody
  <2>1. Charge(rows[id(r)]) \in Nat
    BY <1>1, <1>3, ChargeIsNat DEF TypeOK
  <2> QED
    BY <1>1, <1>3, <2>1, BlobAssumption DEF Credited, Maximum, WithinQuota
<1> QED BY <1>2, <1>3

(* What one request may do, a start with the request it brings.              *)
StepOf(r) ==
  \/ \E ask \in Request : Start(r, ask) /\ (ask.kind = "records" => ask = Blank)
  \/ AlreadyStored(r) \/ IdTaken(r) \/ NotYetStored(r) \/ PreCheck(r)
  \/ Uploaded(r) \/ UploadFailed(r) \/ Fail(r) \/ Lock(r)
  \/ CommitNew(r) \/ CommitCounted(r) \/ CommitLost(r) \/ CommitOverQuota(r)
  \/ CommitDelete(r) \/ Unlink(r) \/ CommitRecords(r) \/ Crash(r)

(* A start brings a request of one of the three kinds.                        *)
LEMMA StartStep ==
  ASSUME NEW r \in Requests, StartPut(r) \/ StartDelete(r) \/ StartRecords(r)
  PROVE  StepOf(r)
<1>1. CASE StartPut(r)
  <2>1. PICK i \in BlobIds, b \in Bodies :
          Start(r, [kind |-> "put", id |-> i, body |-> b, total |-> 0])
    BY <1>1 DEF StartPut
  <2>2. [kind |-> "put", id |-> i, body |-> b, total |-> 0] \in Request
    BY DEF Request, Requesting
  <2> QED BY <2>1, <2>2 DEF StepOf
<1>2. CASE StartDelete(r)
  <2>1. PICK i \in BlobIds :
          Start(r, [kind |-> "delete", id |-> i, body |-> NoBody, total |-> 0])
    BY <1>2 DEF StartDelete
  <2>2. [kind |-> "delete", id |-> i, body |-> NoBody, total |-> 0] \in Request
    BY DEF Request, Requesting
  <2> QED BY <2>1, <2>2 DEF StepOf
<1>3. CASE StartRecords(r)
  <2>1. Blank \in Request
    BY DEF Request, Requesting, Blank
  <2> QED BY <1>3, <2>1 DEF StartRecords, StepOf
<1> QED BY <1>1, <1>2, <1>3

(* Every step is one of some request.                                        *)
LEMMA AnyStep ==
  ASSUME [Next]_vars
  PROVE  UNCHANGED vars \/ \E r \in Requests : StepOf(r)
<1>1. ASSUME NEW r \in Requests,
             Put(r) \/ Lock(r) \/ Delete(r) \/ CommitRecords(r) \/ Crash(r)
      PROVE  StepOf(r)
  BY <1>1 DEF Put, Delete, StepOf
<1> QED BY <1>1, StartStep DEF Next

(* Every step keeps the types.                                               *)
LEMMA TypeStep ==
  ASSUME TypeOK, KindInv, LockInv, [Next]_vars
  PROVE  TypeOK'
<1> USE ChargeIsNat, BlobAssumption DEF TypeOK, KindInv, LockInv, Uploading,
           Request, Requesting, Blank, id, body, total, dbVars
<1>1. ASSUME NEW r \in Requests, NEW ask \in Request, Start(r, ask),
            ask.kind = "records" => ask = Blank
      PROVE  TypeOK'
  BY <1>1 DEF Start, Untouched
<1>2. ASSUME NEW r \in Requests, AlreadyStored(r) PROVE TypeOK'
  BY <1>2, RequestFacts DEF AlreadyStored, Check, Done
<1>3. ASSUME NEW r \in Requests, IdTaken(r) PROVE TypeOK'
  BY <1>3, RequestFacts DEF IdTaken, Check, Done
<1>4. ASSUME NEW r \in Requests, NotYetStored(r) PROVE TypeOK'
  BY <1>4, RequestFacts DEF NotYetStored, Check, Goto
<1>5. ASSUME NEW r \in Requests, PreCheck(r) PROVE TypeOK'
  BY <1>5, RequestFacts DEF PreCheck, Done, Goto
<1>6. ASSUME NEW r \in Requests, Uploaded(r) PROVE TypeOK'
  BY <1>6, RequestFacts DEF Uploaded, Stream, Goto
<1>7. ASSUME NEW r \in Requests, UploadFailed(r) PROVE TypeOK'
  BY <1>7, RequestFacts DEF UploadFailed, Stream, Goto
<1>8. ASSUME NEW r \in Requests, Fail(r) PROVE TypeOK'
  BY <1>8, RequestFacts DEF Fail, Done
<1>9. ASSUME NEW r \in Requests, Lock(r) PROVE TypeOK'
  BY <1>9, RequestFacts DEF Lock, ReadUnder
<1>10. ASSUME NEW r \in Requests, CommitNew(r) PROVE TypeOK'
  BY <1>10, RequestFacts DEF CommitNew, Committing, Done, RowBody, Fits
<1>11. ASSUME NEW r \in Requests, CommitCounted(r) PROVE TypeOK'
  BY <1>11, RequestFacts DEF CommitCounted, Committing, SameRow, Done
<1>12. ASSUME NEW r \in Requests, CommitLost(r) PROVE TypeOK'
  BY <1>12, RequestFacts DEF CommitLost, Committing, LoserAnswers, Done
<1>13. ASSUME NEW r \in Requests, CommitOverQuota(r) PROVE TypeOK'
  BY <1>13, RequestFacts DEF CommitOverQuota, Committing, Goto
<1>14. ASSUME NEW r \in Requests, CommitDelete(r) PROVE TypeOK'
  BY <1>14, RequestFacts, CreditedFacts DEF CommitDelete, Committing, Goto
<1>15. ASSUME NEW r \in Requests, Unlink(r) PROVE TypeOK'
  BY <1>15, RequestFacts DEF Unlink, Done
<1>16. ASSUME NEW r \in Requests, CommitRecords(r) PROVE TypeOK'
  BY <1>16, RequestFacts DEF CommitRecords, Committing, Done
<1>17. ASSUME NEW r \in Requests, Crash(r) PROVE TypeOK'
  BY <1>17, RequestFacts DEF Crash, Done
<1>18. CASE UNCHANGED vars
  BY <1>18 DEF vars
<1> HIDE DEF TypeOK, KindInv, LockInv, Uploading,
           Request, Requesting, Blank, id, body, total, dbVars
<1>19. ASSUME NEW r \in Requests, StepOf(r) PROVE TypeOK'
  BY <1>19, <1>1, <1>2, <1>3, <1>4, <1>5, <1>6, <1>7, <1>8, <1>9,
     <1>10, <1>11, <1>12, <1>13, <1>14, <1>15, <1>16, <1>17 DEF StepOf
<1> QED BY <1>18, <1>19, AnyStep

(* Every step keeps what each place of the program says of its request.      *)
LEMMA KindStep ==
  ASSUME TypeOK, KindInv, [Next]_vars
  PROVE  KindInv'
<1> USE BlobAssumption DEF TypeOK, KindInv, Uploading,
           Request, Requesting, Blank, id, body, total, dbVars
<1>1. ASSUME NEW r \in Requests, NEW ask \in Request, Start(r, ask),
            ask.kind = "records" => ask = Blank
      PROVE  KindInv'
  BY <1>1 DEF Start
<1>2. ASSUME NEW r \in Requests, AlreadyStored(r) PROVE KindInv'
  BY <1>2, RequestFacts DEF AlreadyStored, Check, Done
<1>3. ASSUME NEW r \in Requests, IdTaken(r) PROVE KindInv'
  BY <1>3, RequestFacts DEF IdTaken, Check, Done
<1>4. ASSUME NEW r \in Requests, NotYetStored(r) PROVE KindInv'
  BY <1>4, RequestFacts DEF NotYetStored, Check, Goto
<1>5. ASSUME NEW r \in Requests, PreCheck(r) PROVE KindInv'
  BY <1>5, RequestFacts DEF PreCheck, Done, Goto
<1>6. ASSUME NEW r \in Requests, Uploaded(r) PROVE KindInv'
  BY <1>6, RequestFacts DEF Uploaded, Stream, Goto
<1>7. ASSUME NEW r \in Requests, UploadFailed(r) PROVE KindInv'
  BY <1>7, RequestFacts DEF UploadFailed, Stream, Goto
<1>8. ASSUME NEW r \in Requests, Fail(r) PROVE KindInv'
  BY <1>8, RequestFacts DEF Fail, Done
<1>9. ASSUME NEW r \in Requests, Lock(r) PROVE KindInv'
  BY <1>9, RequestFacts DEF Lock, ReadUnder
<1>10. ASSUME NEW r \in Requests, CommitNew(r) PROVE KindInv'
  BY <1>10, RequestFacts DEF CommitNew, Committing, Done, RowBody, Fits
<1>11. ASSUME NEW r \in Requests, CommitCounted(r) PROVE KindInv'
  BY <1>11, RequestFacts DEF CommitCounted, Committing, SameRow, Done
<1>12. ASSUME NEW r \in Requests, CommitLost(r) PROVE KindInv'
  BY <1>12, RequestFacts DEF CommitLost, Committing, LoserAnswers, Done
<1>13. ASSUME NEW r \in Requests, CommitOverQuota(r) PROVE KindInv'
  BY <1>13, RequestFacts DEF CommitOverQuota, Committing, Goto
<1>14. ASSUME NEW r \in Requests, CommitDelete(r) PROVE KindInv'
  BY <1>14, RequestFacts DEF CommitDelete, Committing, Goto
<1>15. ASSUME NEW r \in Requests, Unlink(r) PROVE KindInv'
  BY <1>15, RequestFacts DEF Unlink, Done
<1>16. ASSUME NEW r \in Requests, CommitRecords(r) PROVE KindInv'
  BY <1>16, RequestFacts DEF CommitRecords, Committing, Done
<1>17. ASSUME NEW r \in Requests, Crash(r) PROVE KindInv'
  BY <1>17, RequestFacts DEF Crash, Done
<1>18. CASE UNCHANGED vars
  BY <1>18 DEF vars
<1> HIDE DEF TypeOK, KindInv, Uploading,
           Request, Requesting, Blank, id, body, total, dbVars
<1>19. ASSUME NEW r \in Requests, StepOf(r) PROVE KindInv'
  BY <1>19, <1>1, <1>2, <1>3, <1>4, <1>5, <1>6, <1>7, <1>8, <1>9,
     <1>10, <1>11, <1>12, <1>13, <1>14, <1>15, <1>16, <1>17 DEF StepOf
<1> QED BY <1>18, <1>19, AnyStep

(* Only the holder of the lock commits, from a count nobody has changed.      *)
LEMMA LockStep ==
  ASSUME TypeOK, KindInv, LockInv, [Next]_vars
  PROVE  LockInv'
<1> USE BlobAssumption DEF TypeOK, LockInv, Blank, total, dbVars
<1>1. ASSUME NEW r \in Requests, NEW ask \in Request, Start(r, ask),
            ask.kind = "records" => ask = Blank
      PROVE  LockInv'
  BY <1>1 DEF Start
<1>2. ASSUME NEW r \in Requests, AlreadyStored(r) PROVE LockInv'
  BY <1>2, RequestFacts DEF AlreadyStored, Check, Done
<1>3. ASSUME NEW r \in Requests, IdTaken(r) PROVE LockInv'
  BY <1>3, RequestFacts DEF IdTaken, Check, Done
<1>4. ASSUME NEW r \in Requests, NotYetStored(r) PROVE LockInv'
  BY <1>4, RequestFacts DEF NotYetStored, Check, Goto
<1>5. ASSUME NEW r \in Requests, PreCheck(r) PROVE LockInv'
  BY <1>5, RequestFacts DEF PreCheck, Done, Goto
<1>6. ASSUME NEW r \in Requests, Uploaded(r) PROVE LockInv'
  BY <1>6, RequestFacts DEF Uploaded, Stream, Goto
<1>7. ASSUME NEW r \in Requests, UploadFailed(r) PROVE LockInv'
  BY <1>7, RequestFacts DEF UploadFailed, Stream, Goto
<1>8. ASSUME NEW r \in Requests, Fail(r) PROVE LockInv'
  BY <1>8, RequestFacts DEF Fail, Done
<1>9. ASSUME NEW r \in Requests, Lock(r) PROVE LockInv'
  BY <1>9, RequestFacts DEF Lock, ReadUnder
<1>10. ASSUME NEW r \in Requests, CommitNew(r) PROVE LockInv'
  BY <1>10, RequestFacts DEF CommitNew, Committing, Done, RowBody, Fits
<1>11. ASSUME NEW r \in Requests, CommitCounted(r) PROVE LockInv'
  BY <1>11, RequestFacts DEF CommitCounted, Committing, SameRow, Done
<1>12. ASSUME NEW r \in Requests, CommitLost(r) PROVE LockInv'
  BY <1>12, RequestFacts DEF CommitLost, Committing, LoserAnswers, Done
<1>13. ASSUME NEW r \in Requests, CommitOverQuota(r) PROVE LockInv'
  BY <1>13, RequestFacts DEF CommitOverQuota, Committing, Goto
<1>14. ASSUME NEW r \in Requests, CommitDelete(r) PROVE LockInv'
  BY <1>14, RequestFacts DEF CommitDelete, Committing, Goto
<1>15. ASSUME NEW r \in Requests, Unlink(r) PROVE LockInv'
  BY <1>15, RequestFacts DEF Unlink, Done
<1>16. ASSUME NEW r \in Requests, CommitRecords(r) PROVE LockInv'
  BY <1>16, RequestFacts DEF CommitRecords, Committing, Done
<1>17. ASSUME NEW r \in Requests, Crash(r) PROVE LockInv'
  BY <1>17, RequestFacts DEF Crash, Done
<1>18. CASE UNCHANGED vars
  BY <1>18 DEF vars
<1> HIDE DEF TypeOK, LockInv, Blank, total, dbVars
<1>19. ASSUME NEW r \in Requests, StepOf(r) PROVE LockInv'
  BY <1>19, <1>1, <1>2, <1>3, <1>4, <1>5, <1>6, <1>7, <1>8, <1>9,
     <1>10, <1>11, <1>12, <1>13, <1>14, <1>15, <1>16, <1>17 DEF StepOf
<1> QED BY <1>18, <1>19, AnyStep

(* No commit takes the account over its quota.                               *)
LEMMA QuotaStep ==
  ASSUME TypeOK, LockInv, WithinQuota, [Next]_vars
  PROVE  WithinQuota'
<1> USE BlobAssumption DEF WithinQuota, LockInv, TypeOK, dbVars
<1>1. ASSUME NEW r \in Requests, NEW ask \in Request, Start(r, ask),
            ask.kind = "records" => ask = Blank
      PROVE  WithinQuota'
  BY <1>1 DEF Start
<1>2. ASSUME NEW r \in Requests, AlreadyStored(r) PROVE WithinQuota'
  BY <1>2, RequestFacts DEF AlreadyStored, Check, Done
<1>3. ASSUME NEW r \in Requests, IdTaken(r) PROVE WithinQuota'
  BY <1>3, RequestFacts DEF IdTaken, Check, Done
<1>4. ASSUME NEW r \in Requests, NotYetStored(r) PROVE WithinQuota'
  BY <1>4, RequestFacts DEF NotYetStored, Check, Goto
<1>5. ASSUME NEW r \in Requests, PreCheck(r) PROVE WithinQuota'
  BY <1>5, RequestFacts DEF PreCheck, Done, Goto
<1>6. ASSUME NEW r \in Requests, Uploaded(r) PROVE WithinQuota'
  BY <1>6, RequestFacts DEF Uploaded, Stream, Goto
<1>7. ASSUME NEW r \in Requests, UploadFailed(r) PROVE WithinQuota'
  BY <1>7, RequestFacts DEF UploadFailed, Stream, Goto
<1>8. ASSUME NEW r \in Requests, Fail(r) PROVE WithinQuota'
  BY <1>8, RequestFacts DEF Fail, Done
<1>9. ASSUME NEW r \in Requests, Lock(r) PROVE WithinQuota'
  BY <1>9, RequestFacts DEF Lock, ReadUnder
<1>10. ASSUME NEW r \in Requests, CommitNew(r) PROVE WithinQuota'
  BY <1>10, RequestFacts DEF CommitNew, Committing, Done, RowBody, Fits
<1>11. ASSUME NEW r \in Requests, CommitCounted(r) PROVE WithinQuota'
  BY <1>11, RequestFacts DEF CommitCounted, Committing, SameRow, Done
<1>12. ASSUME NEW r \in Requests, CommitLost(r) PROVE WithinQuota'
  BY <1>12, RequestFacts DEF CommitLost, Committing, LoserAnswers, Done
<1>13. ASSUME NEW r \in Requests, CommitOverQuota(r) PROVE WithinQuota'
  BY <1>13, RequestFacts DEF CommitOverQuota, Committing, Goto
<1>14. ASSUME NEW r \in Requests, CommitDelete(r) PROVE WithinQuota'
  BY <1>14, RequestFacts, CreditedFacts DEF CommitDelete, Committing, Goto
<1>15. ASSUME NEW r \in Requests, Unlink(r) PROVE WithinQuota'
  BY <1>15, RequestFacts DEF Unlink, Done
<1>16. ASSUME NEW r \in Requests, CommitRecords(r) PROVE WithinQuota'
  BY <1>16, RequestFacts DEF CommitRecords, Committing, Done
<1>17. ASSUME NEW r \in Requests, Crash(r) PROVE WithinQuota'
  BY <1>17, RequestFacts DEF Crash, Done
<1>18. CASE UNCHANGED vars
  BY <1>18 DEF vars
<1> HIDE DEF WithinQuota, LockInv, TypeOK, dbVars
<1>19. ASSUME NEW r \in Requests, StepOf(r) PROVE WithinQuota'
  BY <1>19, <1>1, <1>2, <1>3, <1>4, <1>5, <1>6, <1>7, <1>8, <1>9,
     <1>10, <1>11, <1>12, <1>13, <1>14, <1>15, <1>16, <1>17 DEF StepOf
<1> QED BY <1>18, <1>19, AnyStep

(* No step takes back the row of a promised blob but a delete.                *)
LEMMA PromiseStep ==
  ASSUME TypeOK, PromiseKept, [Next]_vars
  PROVE  PromiseKept'
<1> USE BlobAssumption DEF PromiseKept, TypeOK, dbVars
<1>1. ASSUME NEW r \in Requests, NEW ask \in Request, Start(r, ask),
            ask.kind = "records" => ask = Blank
      PROVE  PromiseKept'
  BY <1>1 DEF Start
<1>2. ASSUME NEW r \in Requests, AlreadyStored(r) PROVE PromiseKept'
  BY <1>2, RequestFacts DEF AlreadyStored, Check, Done
<1>3. ASSUME NEW r \in Requests, IdTaken(r) PROVE PromiseKept'
  BY <1>3, RequestFacts DEF IdTaken, Check, Done
<1>4. ASSUME NEW r \in Requests, NotYetStored(r) PROVE PromiseKept'
  BY <1>4, RequestFacts DEF NotYetStored, Check, Goto
<1>5. ASSUME NEW r \in Requests, PreCheck(r) PROVE PromiseKept'
  BY <1>5, RequestFacts DEF PreCheck, Done, Goto
<1>6. ASSUME NEW r \in Requests, Uploaded(r) PROVE PromiseKept'
  BY <1>6, RequestFacts DEF Uploaded, Stream, Goto
<1>7. ASSUME NEW r \in Requests, UploadFailed(r) PROVE PromiseKept'
  BY <1>7, RequestFacts DEF UploadFailed, Stream, Goto
<1>8. ASSUME NEW r \in Requests, Fail(r) PROVE PromiseKept'
  BY <1>8, RequestFacts DEF Fail, Done
<1>9. ASSUME NEW r \in Requests, Lock(r) PROVE PromiseKept'
  BY <1>9, RequestFacts DEF Lock, ReadUnder
<1>10. ASSUME NEW r \in Requests, CommitNew(r) PROVE PromiseKept'
  BY <1>10, RequestFacts DEF CommitNew, Committing, Done, RowBody, Fits
<1>11. ASSUME NEW r \in Requests, CommitCounted(r) PROVE PromiseKept'
  BY <1>11, RequestFacts DEF CommitCounted, Committing, SameRow, Done
<1>12. ASSUME NEW r \in Requests, CommitLost(r) PROVE PromiseKept'
  BY <1>12, RequestFacts DEF CommitLost, Committing, LoserAnswers, Done
<1>13. ASSUME NEW r \in Requests, CommitOverQuota(r) PROVE PromiseKept'
  BY <1>13, RequestFacts DEF CommitOverQuota, Committing, Goto
<1>14. ASSUME NEW r \in Requests, CommitDelete(r) PROVE PromiseKept'
  BY <1>14, RequestFacts DEF CommitDelete, Committing, Goto
<1>15. ASSUME NEW r \in Requests, Unlink(r) PROVE PromiseKept'
  BY <1>15, RequestFacts DEF Unlink, Done
<1>16. ASSUME NEW r \in Requests, CommitRecords(r) PROVE PromiseKept'
  BY <1>16, RequestFacts DEF CommitRecords, Committing, Done
<1>17. ASSUME NEW r \in Requests, Crash(r) PROVE PromiseKept'
  BY <1>17, RequestFacts DEF Crash, Done
<1>18. CASE UNCHANGED vars
  BY <1>18 DEF vars
<1> HIDE DEF PromiseKept, TypeOK, dbVars
<1>19. ASSUME NEW r \in Requests, StepOf(r) PROVE PromiseKept'
  BY <1>19, <1>1, <1>2, <1>3, <1>4, <1>5, <1>6, <1>7, <1>8, <1>9,
     <1>10, <1>11, <1>12, <1>13, <1>14, <1>15, <1>16, <1>17 DEF StepOf
<1> QED BY <1>18, <1>19, AnyStep

(* No step takes the object from an id nothing went wrong on.                *)
LEMMA ObjectStep ==
  ASSUME TypeOK, KindInv, ObjectInv, [Next]_vars
  PROVE  ObjectInv'
<1> USE BlobAssumption DEF ObjectInv, WinnerKeepsObject, Ready, KindInv, Uploading, TypeOK,
           Request, Requesting, Blank,
           id, body, total, dbVars
<1>1. ASSUME NEW r \in Requests, NEW ask \in Request, Start(r, ask),
            ask.kind = "records" => ask = Blank
      PROVE  ObjectInv'
  BY <1>1 DEF Start
<1>2. ASSUME NEW r \in Requests, AlreadyStored(r) PROVE ObjectInv'
  BY <1>2, RequestFacts DEF AlreadyStored, Check, Done
<1>3. ASSUME NEW r \in Requests, IdTaken(r) PROVE ObjectInv'
  BY <1>3, RequestFacts DEF IdTaken, Check, Done
<1>4. ASSUME NEW r \in Requests, NotYetStored(r) PROVE ObjectInv'
  BY <1>4, RequestFacts DEF NotYetStored, Check, Goto
<1>5. ASSUME NEW r \in Requests, PreCheck(r) PROVE ObjectInv'
  BY <1>5, RequestFacts DEF PreCheck, Done, Goto
<1>6. ASSUME NEW r \in Requests, Uploaded(r) PROVE ObjectInv'
  BY <1>6, RequestFacts DEF Uploaded, Stream, Goto
<1>7. ASSUME NEW r \in Requests, UploadFailed(r) PROVE ObjectInv'
  BY <1>7, RequestFacts DEF UploadFailed, Stream, Goto
<1>8. ASSUME NEW r \in Requests, Fail(r) PROVE ObjectInv'
  BY <1>8, RequestFacts DEF Fail, Done
<1>9. ASSUME NEW r \in Requests, Lock(r) PROVE ObjectInv'
  BY <1>9, RequestFacts DEF Lock, ReadUnder
<1>10. ASSUME NEW r \in Requests, CommitNew(r) PROVE ObjectInv'
  BY <1>10, RequestFacts DEF CommitNew, Committing, Done, RowBody, Fits
<1>11. ASSUME NEW r \in Requests, CommitCounted(r) PROVE ObjectInv'
  BY <1>11, RequestFacts DEF CommitCounted, Committing, SameRow, Done
<1>12. ASSUME NEW r \in Requests, CommitLost(r) PROVE ObjectInv'
  BY <1>12, RequestFacts DEF CommitLost, Committing, LoserAnswers, Done
<1>13. ASSUME NEW r \in Requests, CommitOverQuota(r) PROVE ObjectInv'
  BY <1>13, RequestFacts DEF CommitOverQuota, Committing, Goto
<1>14. ASSUME NEW r \in Requests, CommitDelete(r) PROVE ObjectInv'
  BY <1>14, RequestFacts DEF CommitDelete, Committing, Goto
<1>15. ASSUME NEW r \in Requests, Unlink(r) PROVE ObjectInv'
  BY <1>15, RequestFacts DEF Unlink, Done
<1>16. ASSUME NEW r \in Requests, CommitRecords(r) PROVE ObjectInv'
  BY <1>16, RequestFacts DEF CommitRecords, Committing, Done
<1>17. ASSUME NEW r \in Requests, Crash(r) PROVE ObjectInv'
  BY <1>17, RequestFacts DEF Crash, Done
<1>18. CASE UNCHANGED vars
  BY <1>18 DEF vars
<1> HIDE DEF ObjectInv, WinnerKeepsObject, Ready, KindInv, Uploading, TypeOK,
           Request, Requesting, Blank,
           id, body, total, dbVars
<1>19. ASSUME NEW r \in Requests, StepOf(r) PROVE ObjectInv'
  BY <1>19, <1>1, <1>2, <1>3, <1>4, <1>5, <1>6, <1>7, <1>8, <1>9,
     <1>10, <1>11, <1>12, <1>13, <1>14, <1>15, <1>16, <1>17 DEF StepOf
<1> QED BY <1>18, <1>19, AnyStep

(* Alone on its id, a request finds its object as it left it.                 *)
LEMMA SoloStep ==
  ASSUME TypeOK, KindInv, LockInv, SoloInv, [Next]_vars
  PROVE  SoloInv'
<1> USE BlobAssumption DEF SoloInv, RowHasItsObject, Alone, Ready, KindInv, Uploading, Untouched, TypeOK,
           Request, Requesting, Blank,
           id, body, total, dbVars
<1>1. ASSUME NEW r \in Requests, NEW ask \in Request, Start(r, ask),
            ask.kind = "records" => ask = Blank
      PROVE  SoloInv'
  BY <1>1 DEF Start
<1>2. ASSUME NEW r \in Requests, AlreadyStored(r) PROVE SoloInv'
  BY <1>2, RequestFacts DEF AlreadyStored, Check, Done
<1>3. ASSUME NEW r \in Requests, IdTaken(r) PROVE SoloInv'
  BY <1>3, RequestFacts DEF IdTaken, Check, Done
<1>4. ASSUME NEW r \in Requests, NotYetStored(r) PROVE SoloInv'
  BY <1>4, RequestFacts DEF NotYetStored, Check, Goto
<1>5. ASSUME NEW r \in Requests, PreCheck(r) PROVE SoloInv'
  BY SMTT(30), <1>5, RequestFacts DEF PreCheck, Done, Goto
<1>6. ASSUME NEW r \in Requests, Uploaded(r) PROVE SoloInv'
  BY <1>6, RequestFacts DEF Uploaded, Stream, Goto
<1>7. ASSUME NEW r \in Requests, UploadFailed(r) PROVE SoloInv'
  BY <1>7, RequestFacts DEF UploadFailed, Stream, Goto
<1>8. ASSUME NEW r \in Requests, Fail(r) PROVE SoloInv'
  BY <1>8, RequestFacts DEF Fail, Done
<1>9. ASSUME NEW r \in Requests, Lock(r) PROVE SoloInv'
  BY <1>9, RequestFacts DEF Lock, ReadUnder
<1>10. ASSUME NEW r \in Requests, CommitNew(r) PROVE SoloInv'
  BY <1>10, RequestFacts DEF CommitNew, Committing, Done, RowBody, Fits
<1>11. ASSUME NEW r \in Requests, CommitCounted(r) PROVE SoloInv'
  BY <1>11, RequestFacts DEF CommitCounted, Committing, SameRow, Done
<1>12. ASSUME NEW r \in Requests, CommitLost(r) PROVE SoloInv'
  BY <1>12, RequestFacts DEF CommitLost, Committing, LoserAnswers, Done
<1>13. ASSUME NEW r \in Requests, CommitOverQuota(r) PROVE SoloInv'
  BY <1>13, RequestFacts DEF CommitOverQuota, Committing, Goto
<1>14. ASSUME NEW r \in Requests, CommitDelete(r) PROVE SoloInv'
  BY <1>14, RequestFacts DEF CommitDelete, Committing, Goto
<1>15. ASSUME NEW r \in Requests, Unlink(r) PROVE SoloInv'
  BY <1>15, RequestFacts DEF Unlink, Done
<1>16. ASSUME NEW r \in Requests, CommitRecords(r) PROVE SoloInv'
  BY <1>16, RequestFacts DEF CommitRecords, Committing, Done
<1>17. ASSUME NEW r \in Requests, Crash(r) PROVE SoloInv'
  BY <1>17, RequestFacts DEF Crash, Done
<1>18. CASE UNCHANGED vars
  BY <1>18 DEF vars
<1> HIDE DEF SoloInv, RowHasItsObject, Alone, Ready, KindInv, Uploading, Untouched, TypeOK,
           Request, Requesting, Blank,
           id, body, total, dbVars
<1>19. ASSUME NEW r \in Requests, StepOf(r) PROVE SoloInv'
  BY <1>19, <1>1, <1>2, <1>3, <1>4, <1>5, <1>6, <1>7, <1>8, <1>9,
     <1>10, <1>11, <1>12, <1>13, <1>14, <1>15, <1>16, <1>17 DEF StepOf
<1> QED BY <1>18, <1>19, AnyStep

(* The stored ids of a table of rows, and what their blobs charge.             *)
StoredIn(R) == {i \in BlobIds : R[i] # NoBody}
Charges(R) == [i \in StoredIn(R) |-> Charge(R[i])]

LEMMA ChargesTyped ==
  ASSUME NEW R \in [BlobIds -> Bodies \cup {NoBody}]
  PROVE  /\ IsFiniteSet(StoredIn(R))
         /\ \A i \in StoredIn(R) : Charges(R)[i] = Charge(R[i]) /\ Charges(R)[i] \in Nat
         /\ SumFunctionOnSet(Charges(R), StoredIn(R)) \in Nat
<1>1. IsFiniteSet(StoredIn(R))
  <2>1. StoredIn(R) \in SUBSET BlobIds /\ IsFiniteSet(BlobIds)
    BY BlobAssumption DEF StoredIn
  <2> QED BY <2>1, FS_Subset
<1>2. ASSUME NEW i \in StoredIn(R)
      PROVE  Charges(R)[i] = Charge(R[i]) /\ Charges(R)[i] \in Nat
  <2>1. R[i] \in Bodies
    BY DEF StoredIn
  <2>2. Charge(R[i]) \in Nat
    BY <2>1, ChargeIsNat
  <2> QED BY <2>2 DEF Charges
<1>3. SumFunctionOnSet(Charges(R), StoredIn(R)) \in Nat
  <2> DEFINE f == Charges(R)
             S == StoredIn(R)
  <2>1. IsFiniteSet(S) /\ \A i \in S : f[i] \in Nat
    BY <1>1, <1>2
  <2> HIDE DEF f, S
  <2>2. SumFunctionOnSet(f, S) \in Nat
    BY <2>1, SumIsNat
  <2> QED BY <2>2 DEF f, S
<1> QED BY <1>1, <1>2, <1>3

LEMMA ChargedIsSum == Charged = SumFunctionOnSet(Charges(rows), StoredIn(rows))
BY DEF Charged, SumFunction, Charges, StoredIn, Stored

(* A row that is added charges its blob.                                     *)
LEMMA RowAdded ==
  ASSUME NEW R \in [BlobIds -> Bodies \cup {NoBody}], NEW Q \in [BlobIds -> Bodies \cup {NoBody}],
         NEW i \in BlobIds, R[i] = NoBody, Q[i] # NoBody, \A j \in BlobIds \ {i} : Q[j] = R[j]
  PROVE  SumFunctionOnSet(Charges(Q), StoredIn(Q))
           = SumFunctionOnSet(Charges(R), StoredIn(R)) + Charge(Q[i])
<1> DEFINE f == Charges(R)
           g == Charges(Q)
           S == StoredIn(R)
<1>1. i \notin S /\ StoredIn(Q) = S \cup {i}
  BY DEF StoredIn
<1>2. IsFiniteSet(S) /\ \A j \in S : f[j] \in Int /\ f[j] = Charge(R[j])
  BY ChargesTyped
<1>3. \A j \in S \cup {i} : g[j] \in Int /\ g[j] = Charge(Q[j])
  BY <1>1, ChargesTyped
<1>4. \A j \in S : Q[j] = R[j]
  BY <1>1 DEF StoredIn
<1>5. SumFunctionOnSet(g, S \cup {i}) = SumFunctionOnSet(f, S) + g[i]
  <2> HIDE DEF f, g, S
  <2>1. \A j \in S : f[j] \in Int /\ g[j] = f[j]
    BY <1>2, <1>3, <1>4
  <2>2. g[i] \in Int
    BY <1>3
  <2> QED BY <1>1, <1>2, <2>1, <2>2, SumGains
<1> QED BY <1>1, <1>3, <1>5

(* Every request under the lock commits a count that fits the rows it leaves: *)
(* it read the count under the lock, and the count was exact then.           *)
LEMMA ExactStep ==
  ASSUME TypeOK, KindInv, LockInv, QuotaExact, TypeOK', [Next]_vars
  PROVE  QuotaExact'
<1> DEFINE sum(R) == SumFunctionOnSet(Charges(R), StoredIn(R))
<1>0. /\ totalBytes = recordBytes + sum(rows) /\ Charged' = sum(rows')
      /\ sum(rows) \in Nat /\ recordBytes \in Nat
  <2>1. Charged = sum(rows)
    BY ChargedIsSum
  <2>2. Charged' = sum(rows')
    BY DEF Charged, SumFunction, Charges, StoredIn, Stored
  <2> QED BY <2>1, <2>2, ChargesTyped DEF QuotaExact, TypeOK
<1>1. ASSUME rows' = rows, totalBytes' - recordBytes' = totalBytes - recordBytes PROVE QuotaExact'
  <2>1. totalBytes \in Int /\ totalBytes' \in Int /\ recordBytes \in Int /\ recordBytes' \in Int
    BY DEF TypeOK
  <2>2. sum(rows') = sum(rows)
    BY <1>1
  <2> HIDE DEF sum
  <2> QED BY <1>0, <1>1, <2>1, <2>2 DEF QuotaExact
<1>2. ASSUME NEW r \in Requests, CommitNew(r) PROVE QuotaExact'
  <2>1. /\ id(r) \in BlobIds /\ body(r) \in Bodies /\ rows[id(r)] = NoBody
        /\ rows' = [rows EXCEPT ![id(r)] = body(r)] /\ recordBytes' = recordBytes
        /\ totalBytes' = totalBytes + Charge(body(r))
    BY <1>2, RequestFacts DEF CommitNew, Committing, RowBody, LockInv
  <2> DEFINE i == id(r)
  <2>2. /\ rows'[i] = body(r) /\ rows'[i] # NoBody
        /\ \A j \in BlobIds \ {i} : rows'[j] = rows[j]
    BY <2>1, BlobAssumption DEF TypeOK
  <2>3. rows \in [BlobIds -> Bodies \cup {NoBody}] /\ rows' \in [BlobIds -> Bodies \cup {NoBody}]
    BY DEF TypeOK
  <2>4. sum(rows') = sum(rows) + Charge(rows'[i])
    <3> HIDE DEF i
    <3> QED BY <2>1, <2>2, <2>3, RowAdded DEF i
  <2>5. Charge(body(r)) \in Nat
    BY <2>1, ChargeIsNat
  <2> HIDE DEF sum
  <2> QED BY <1>0, <2>1, <2>2, <2>4, <2>5 DEF QuotaExact
<1>3. ASSUME NEW r \in Requests, CommitDelete(r) PROVE QuotaExact'
  <2>1. /\ id(r) \in BlobIds /\ rows' = [rows EXCEPT ![id(r)] = NoBody]
        /\ recordBytes' = recordBytes /\ totalBytes' = Credited(r) /\ total(r) = totalBytes
    BY <1>3, RequestFacts DEF CommitDelete, Committing, LockInv
  <2> DEFINE i == id(r)
  <2>2. rows'[i] = NoBody /\ \A j \in BlobIds \ {i} : rows'[j] = rows[j]
    BY <2>1 DEF TypeOK
  <2>3. rows \in [BlobIds -> Bodies \cup {NoBody}] /\ rows' \in [BlobIds -> Bodies \cup {NoBody}]
    BY DEF TypeOK
  <2>4. CASE rows[i] = NoBody
    <3>1. rows' = rows /\ totalBytes' = totalBytes
      BY <2>1, <2>4 DEF Credited, TypeOK
    <3> QED BY <1>1, <2>1, <3>1
  <2>5. CASE rows[i] # NoBody
    <3>1. sum(rows) = sum(rows') + Charge(rows[i])
      <4> HIDE DEF i
      <4> QED BY ZenonT(60), <2>1, <2>2, <2>3, <2>5, RowAdded DEF i
    <3>2. rows[i] \in Bodies /\ Charge(rows[i]) \in Nat
      BY <2>1, <2>3, <2>5, ChargeIsNat
    <3>3. sum(rows') \in Nat
      BY <2>3, ChargesTyped
    <3>4. totalBytes' = Maximum(0, totalBytes - Charge(rows[i]))
      BY <2>1, <2>5 DEF Credited
    <3> HIDE DEF sum, i
    <3> QED BY <1>0, <2>1, <3>1, <3>2, <3>3, <3>4 DEF QuotaExact, Maximum
  <2> QED BY <2>4, <2>5
<1>4. ASSUME NEW r \in Requests, CommitRecords(r) PROVE QuotaExact'
  <2>1. rows' = rows /\ total(r) = totalBytes
    BY <1>4 DEF CommitRecords, Committing, LockInv
  <2>2. totalBytes \in Int /\ recordBytes \in Int /\ RecordCharge \in Int
    BY BlobAssumption DEF TypeOK
  <2>3. \/ totalBytes' = totalBytes + RecordCharge /\ recordBytes' = recordBytes + RecordCharge
        \/ totalBytes' = totalBytes - RecordCharge /\ recordBytes' = recordBytes - RecordCharge
        \/ UNCHANGED <<totalBytes, recordBytes>>
    BY <1>4, <2>1 DEF CommitRecords
  <2>4. totalBytes' - recordBytes' = totalBytes - recordBytes
    BY <2>2, <2>3
  <2> QED BY <1>1, <2>1, <2>4
<1>5. ASSUME NEW r \in Requests, StepOf(r) PROVE QuotaExact'
  <2>1. UNCHANGED dbVars \/ CommitNew(r) \/ CommitDelete(r) \/ CommitRecords(r)
    BY <1>5 DEF StepOf, Start, AlreadyStored, IdTaken, NotYetStored, PreCheck, Check, Stream,
         Uploaded, UploadFailed, Fail, Lock, ReadUnder, CommitCounted, CommitLost,
         CommitOverQuota, Unlink, Crash
  <2> QED BY <1>1, <1>2, <1>3, <1>4, <2>1 DEF dbVars
<1> QED BY <1>1, <1>5, AnyStep DEF vars, dbVars

(* The inductive invariant holds in every reachable state.                    *)
THEOREM Invariance == Spec => []IndInv
<1>1. Init => IndInv
  <2> SUFFICES ASSUME Init PROVE IndInv
    OBVIOUS
  <2>1. TypeOK
    BY DEF Init, TypeOK, Request, Requesting, Blank
  <2>2. LockInv /\ KindInv
    BY BlobAssumption DEF Init, LockInv, KindInv, Uploading
  <2>3. WithinQuota /\ QuotaExact /\ PromiseKept
    <3>1. StoredIn(rows) = {}
      BY DEF Init, StoredIn
    <3>2. Charged = 0
      BY <3>1, ChargedIsSum, SumOfNothing
    <3> QED BY <3>2, BlobAssumption DEF Init, WithinQuota, QuotaExact, PromiseKept
  <2>4. ObjectInv
    BY DEF Init, ObjectInv, WinnerKeepsObject, Ready
  <2>5. SoloInv
    BY DEF Init, SoloInv, RowHasItsObject, Alone, Ready, Blank, id
  <2> QED BY <2>1, <2>2, <2>3, <2>4, <2>5 DEF IndInv
<1>2. IndInv /\ [Next]_vars => IndInv'
  <2> SUFFICES ASSUME IndInv, [Next]_vars PROVE IndInv'
    OBVIOUS
  <2> QED
    BY TypeStep, KindStep, LockStep, QuotaStep, ExactStep, PromiseStep, ObjectStep, SoloStep
    DEF IndInv
<1> QED BY <1>1, <1>2, PTL DEF Spec

(* The account stays within its quota, however many uploads passed their      *)
(* check of it before the first of them committed.                           *)
THEOREM CountStaysWithin == Spec => []WithinQuota
<1>1. IndInv => WithinQuota
  BY DEF IndInv
<1> QED BY <1>1, Invariance, PTL

(* The count is exactly what records and blobs hold, whichever request wrote   *)
(* it last.                                                                  *)
THEOREM CountIsExact == Spec => []QuotaExact
<1>1. IndInv => QuotaExact
  BY DEF IndInv
<1> QED BY <1>1, Invariance, PTL

(* A blob the service has answered for keeps its row until it is deleted,     *)
(* wherever the service crashes.                                             *)
THEOREM PromisesAreKept == Spec => []PromiseKept
<1>1. IndInv => PromiseKept
  BY DEF IndInv
<1> QED BY <1>1, Invariance, PTL

(* The loser of a race for an id clears up its own file and leaves the        *)
(* winner's row an object.                                                   *)
THEOREM WinnersKeepTheirs == Spec => []WinnerKeepsObject
<1>1. IndInv => WinnerKeepsObject
  BY DEF IndInv, ObjectInv
<1> QED BY <1>1, Invariance, PTL

(* A row no two requests have raced for has its object, and a 200 for it      *)
(* means what the client takes it to mean.                                  *)
THEOREM ObjectsStored == Spec => []RowHasItsObject /\ OkMeansPresentAlone
<1> DEFINE Present ==
      \A r \in Requests :
        AlreadyStored(r) /\ id(r) \notin overlapped => objects[id(r)] = body(r)
<1>1. IndInv => RowHasItsObject
  BY DEF IndInv, SoloInv
<1>2. IndInv => [Present]_vars
  <2> SUFFICES ASSUME IndInv, NEW r \in Requests,
                      AlreadyStored(r), id(r) \notin overlapped
               PROVE  objects[id(r)] = body(r)
    OBVIOUS
  <2>1. req[r].kind = "put"
    BY DEF IndInv, KindInv, Uploading, AlreadyStored, Check
  <2>2. id(r) \in BlobIds /\ body(r) \in Bodies
    BY <2>1, RequestFacts DEF IndInv
  <2> QED
    BY <1>1, <2>2, BlobAssumption DEF AlreadyStored, RowHasItsObject
<1> HIDE DEF Present
<1>3. Spec => []RowHasItsObject /\ [][Present]_vars
  BY <1>1, <1>2, Invariance, PTL
<1> QED BY <1>3 DEF OkMeansPresentAlone, Present

=============================================================================
