------------------------- MODULE StreamManagerProofs -------------------------
(***************************************************************************)
(* Theorems about StreamManager, for every number of attempts, tool rounds    *)
(* and faults.                                                              *)
(***************************************************************************)
EXTENDS StreamManager, FiniteSetTheorems, WellFoundedInduction, TLAPS

(* A family of subsets of a finite set has one that contains no other.        *)
LEMMA SmallestSubset ==
  ASSUME NEW S, IsFiniteSet(S), NEW F, F \subseteq SUBSET S, F # {}
  PROVE  \E T \in F : \A U \in SUBSET T : U # T => U \notin F
<1>1. F \subseteq FiniteSubsetsOf(S)
  BY FS_FiniteSubsetsOfFinite
<1>2. PICK T \in F : \A U \in F : <<U, T>> \notin StrictSubsetOrdering(S)
  BY <1>1, FS_StrictSubsetOrderingWellFounded, WFMin
<1>3. ASSUME NEW U \in SUBSET T, U # T, U \in F PROVE FALSE
  <2>1. <<U, T>> \in (SUBSET S) \X (SUBSET S)
    OBVIOUS
  <2>2. <<U, T>> \in StrictSubsetOrdering(S)
    BY <1>3, <2>1 DEF StrictSubsetOrdering
  <2> QED
    BY <1>2, <1>3, <2>2
<1> QED
  BY <1>2, <1>3

-----------------------------------------------------------------------------
(* Extremes: of the sets of what lies on one side of an element, one contains   *)
(* no other.                                                                 *)

LEMMA MinIsThere ==
  ASSUME NEW S, S \subseteq Int, IsFiniteSet(S), S # {}
  PROVE  Min(S) \in S /\ \A y \in S : Min(S) <= y
<1> DEFINE Below(x) == {y \in S : y <= x}
           Cuts == {Below(x) : x \in S}
<1>1. PICK U \in Cuts : \A V \in SUBSET U : V # U => V \notin Cuts
  <2>1. Cuts \subseteq SUBSET S /\ Cuts # {}
    OBVIOUS
  <2> HIDE DEF Cuts
  <2> QED
    BY <2>1, SmallestSubset
<1>2. PICK x \in S : U = Below(x)
  BY <1>1
<1>3. ASSUME NEW z \in S PROVE x <= z
  <2>1. x \in Int /\ z \in Int
    OBVIOUS
  <2>2. SUFFICES ASSUME z < x PROVE FALSE
    BY <2>1
  <2>3. x \in U /\ x \notin Below(z) /\ Below(z) \in Cuts
    BY <1>2, <2>1, <2>2
  <2>4. Below(z) \subseteq U
    <3>1. \A y \in S : y <= z => y <= x
      BY <2>1, <2>2
    <3> QED
      BY <1>2, <3>1
  <2> HIDE DEF Below, Cuts
  <2> QED
    BY <1>1, <2>3, <2>4
<1> QED
  BY <1>3 DEF Min

LEMMA MaxIsThere ==
  ASSUME NEW S, S \subseteq Int, IsFiniteSet(S), S # {}
  PROVE  Max(S) \in S /\ \A y \in S : Max(S) >= y
<1> DEFINE Above(x) == {y \in S : y >= x}
           Cuts == {Above(x) : x \in S}
<1>1. PICK U \in Cuts : \A V \in SUBSET U : V # U => V \notin Cuts
  <2>1. Cuts \subseteq SUBSET S /\ Cuts # {}
    OBVIOUS
  <2> HIDE DEF Cuts
  <2> QED
    BY <2>1, SmallestSubset
<1>2. PICK x \in S : U = Above(x)
  BY <1>1
<1>3. ASSUME NEW z \in S PROVE x >= z
  <2>1. x \in Int /\ z \in Int
    OBVIOUS
  <2>2. SUFFICES ASSUME z > x PROVE FALSE
    BY <2>1
  <2>3. x \in U /\ x \notin Above(z) /\ Above(z) \in Cuts
    BY <1>2, <2>1, <2>2
  <2>4. Above(z) \subseteq U
    <3>1. \A y \in S : y >= z => y >= x
      BY <2>1, <2>2
    <3> QED
      BY <1>2, <3>1
  <2> HIDE DEF Above, Cuts
  <2> QED
    BY <1>1, <2>3, <2>4
<1> QED
  BY <1>3 DEF Max


-----------------------------------------------------------------------------
(* What a step may do to the rows of the chat, whichever action it is.         *)
Cuts(r) == rows' = Removed(r)
Writes(r) == \E by \in SUBSET Attempts : rows' = Content("incomplete", by, FALSE, r)
Completes(r) == \E i \in Attempts : rows' = Content("complete", {i}, TRUE, r)
Drafts(i, greeting) == /\ rows' = Drafted(NextRow, greeting)
                       /\ i \notin Owing'
                       /\ greeting => Present = {}
RowStep == \/ rows' = rows
           \/ \E r \in Begun : Cuts(r)
           \/ \E r \in Present : Writes(r) \/ Completes(r)
           \/ \E i \in Owing : Drafts(i, TRUE) \/ Drafts(i, FALSE)

LEMMA PresentBegun == Present \subseteq Begun /\ Begun \subseteq Attempts
BY DEF Present, Begun

LEMMA MaxOfRows ==
  ASSUME NEW S \in SUBSET Attempts, S # {}
  PROVE  Max(S) \in S /\ Min(S) \in S
<1>1. S \subseteq Int
  BY DEF Attempts
<1>2. IsFiniteSet(Attempts)
  BY StreamAssumption, FS_Interval DEF Attempts
<1>3. IsFiniteSet(S)
  BY <1>2, FS_Subset
<1> QED
  BY <1>1, <1>3, MaxIsThere, MinIsThere

(* The re-rolls: the button, the end of an edit, the retry of a greeting.      *)
Rolls(i) == i \in Owing /\ \E row \in {0} \cup Present : Rerolls(i, row)

LEMMA RollSteps ==
  ASSUME NEW i \in Attempts, Regenerate(i) \/ Edited(i) \/ RetryGreeting(i)
  PROVE  Rolls(i)
<1>1. CASE Regenerate(i)
  BY <1>1 DEF Regenerate, NextAttempt, Owing, Rolls
<1>2. CASE RetryGreeting(i)
  BY <1>2 DEF RetryGreeting, Owing, Rolls
<1>3. CASE Edited(i)
  <2> DEFINE replies == {r \in Present : run[i].msg \in Said /\ r >= run[i].msg}
  <2>1. replies \subseteq Present /\ replies \in SUBSET Attempts
    BY DEF Present
  <2>2. run[i].stage = "editing" /\ Rerolls(i, IF replies = {} THEN 0 ELSE Min(replies))
    BY <1>3 DEF Edited
  <2>3. i \in Owing
    BY <2>2 DEF Owing
  <2> HIDE DEF replies
  <2> QED
    BY <2>1, <2>2, <2>3, MaxOfRows DEF Rolls
<1> QED
  BY <1>1, <1>2, <1>3

(* What the edit and the footer's retry remember. *)
LEMMA EditedMessage ==
  ASSUME NEW i \in Attempts, EditReplace(i)
  PROVE  \E msg \in Attempts : Asks(i, "reroll", 0, 0, msg, "editing")
<1>1. Said \in SUBSET Attempts
  BY DEF Said
<1> QED
  BY <1>1, MaxOfRows DEF EditReplace

LEMMA RetriedText ==
  ASSUME TypeOK, NEW i \in Attempts, FooterRetry(i)
  PROVE  \/ Asks(i, "reroll", 0, 0, 0, "retrying")
         \/ \E r \in Present, text, msg \in {0} \cup Attempts :
              Asks(i, "send", r, text, msg, "retrying")
<1>1. PICK r \in Interrupted :
        \/ Asks(i, "reroll", 0, 0, 0, "retrying")
        \/ /\ {u \in Said : u <= r} # {}
           /\ Asks(i, "send", r, users[Max({u \in Said : u <= r})],
                   Max({u \in Said : u <= r}), "retrying")
  BY DEF FooterRetry
<1> DEFINE asked == {u \in Said : u <= r}
<1>2. asked \in SUBSET Attempts
  BY DEF Said
<1>3. asked # {} => Max(asked) \in Attempts /\ users[Max(asked)] \in {0} \cup Attempts
  <2> HIDE DEF asked
  <2> QED
    BY <1>2, MaxOfRows DEF TypeOK
<1>4. r \in Present
  BY DEF Interrupted
<1>5. \/ Asks(i, "reroll", 0, 0, 0, "retrying")
      \/ asked # {} /\ Asks(i, "send", r, users[Max(asked)], Max(asked), "retrying")
  BY <1>1
<1> HIDE DEF asked
<1> QED
  BY <1>3, <1>4, <1>5

(* Update writes a row that is there, or nothing. *)
LEMMA UpdateIsRowStep ==
  /\ \A r, by : by \in SUBSET Attempts /\ rows' = Partly(r, by) => RowStep
  /\ \A r : rows' = Cleared(r) => RowStep
  /\ \A i \in Attempts : rows' = FromEngine(i) => RowStep
<1>1. ASSUME NEW r, NEW by \in SUBSET Attempts, rows' = Update("incomplete", by, FALSE, r)
      PROVE  RowStep
  <2>1. CASE r \in Present
    BY <1>1, <2>1 DEF Update, RowStep, Writes
  <2>2. CASE r \notin Present
    BY <1>1, <2>2 DEF Update, RowStep
  <2> QED
    BY <2>1, <2>2
<1>2. ASSUME NEW i \in Attempts, rows' = FromEngine(i) PROVE RowStep
  <2>1. CASE run[i].row \in Present
    BY <1>2, <2>1 DEF FromEngine, Update, RowStep, Completes
  <2>2. CASE run[i].row \notin Present
    BY <1>2, <2>2 DEF FromEngine, Update, RowStep
  <2> QED
    BY <2>1, <2>2
<1>3. {} \in SUBSET Attempts
  OBVIOUS
<1> QED
  BY <1>1, <1>2, <1>3 DEF Partly, Cleared

LEMMA RemovedIsRowStep ==
  ASSUME TypeOK, NEW r \in {0} \cup Begun, rows' = Removed(r)
  PROVE  RowStep
<1>1. CASE r = 0
  <2>1. rows' = rows
    BY <1>1 DEF Removed, Content, TypeOK, Attempts
  <2> QED
    BY <2>1 DEF RowStep
<1>2. CASE r \in Begun
  BY <1>2 DEF RowStep, Cuts
<1> QED
  BY <1>1, <1>2

LEMMA RowSteps ==
  ASSUME TypeOK, NamedRowsBegun, [Next]_vars
  PROVE  RowStep
<1>1. ASSUME rows' = rows PROVE RowStep
  BY <1>1 DEF RowStep
<1>2. \A i \in Attempts : run[i].row \in {0} \cup Begun
  BY DEF NamedRowsBegun
<1>3. Live => handle.row \in Begun /\ handle.buf \in SUBSET Attempts
  BY DEF NamedRowsBegun, TypeOK, Handle
<1>r. ASSUME NEW i \in Attempts, Rolls(i) PROVE RowStep
  <2>1. PICK row : Rerolls(i, row)
    BY <1>r DEF Rolls
  <2>2. CASE Discards(i, row)
    BY <1>3, <2>2, UpdateIsRowStep, RemovedIsRowStep DEF Discards
  <2> QED
    BY <1>1, <2>1, <2>2 DEF Rerolls
<1>4. ASSUME NEW i \in Attempts, Asking(i) PROVE RowStep
  <2>1. CASE Send(i) \/ EditReplace(i) \/ StartOpener(i) \/ FooterRetry(i)
    BY <2>1, <1>1 DEF Send, EditReplace, StartOpener, FooterRetry
  <2> QED
    BY <1>4, <1>r, <2>1, RollSteps DEF Asking
<1>6. ASSUME NEW i \in Attempts, Rejected(i) PROVE RowStep
  BY <1>1, <1>2, <1>3, <1>6, UpdateIsRowStep, RemovedIsRowStep DEF Rejected
<1>5. ASSUME NEW i \in Attempts, Continues(i) PROVE RowStep
  <2>1. CASE \/ Check(i) \/ CompactOk(i) \/ Discarded(i) \/ Locate(i) \/ Prepared(i)
             \/ ToolAnswers(i) \/ Finalised(i) \/ Timer(i) \/ Failed(i) \/ Retract(i)
             \/ Resend(i)
    BY <2>1, <1>1 DEF Check, CompactOk, Discarded, Locate, Prepared, ToolAnswers, Finalised,
                      Timer, Failed, Retract, Resend
  <2>2. CASE Post(i)
    <3>1. i \in Owing /\ i \notin Owing'
      BY <2>2 DEF Post, Owing, OnItsWay, TypeOK, Run
    <3> QED
      BY <2>2, <3>1 DEF Post, RowStep, Drafts
  <2>3. CASE Reroll(i)
    BY <1>1, <2>3, UpdateIsRowStep DEF Reroll
  <2>4. CASE Greet(i)
    <3>1. CASE StillWanted
      <4>1. i \in Owing /\ i \notin Owing'
        BY <2>4, <3>1 DEF Greet, Owing, OnItsWay, TypeOK, Run
      <4> QED
        BY <2>4, <3>1, <4>1 DEF Greet, StillWanted, RowStep, Drafts
    <3> QED
      BY <1>1, <2>4, <3>1 DEF Greet
  <2>5. CASE Finish(i)
    BY <1>1, <2>5, UpdateIsRowStep DEF Finish
  <2>6. CASE DropReply(i)
    BY <1>2, <2>6, RemovedIsRowStep DEF DropReply
  <2>7. CASE Unwritten(i)
    BY <1>6, <2>7 DEF Unwritten
  <2> QED
    BY <1>5, <1>r, <2>1, <2>2, <2>3, <2>4, <2>5, <2>6, <2>7, RollSteps DEF Continues
<1>7. ASSUME NEW i \in Attempts, Turns(i) PROVE RowStep
  BY <1>1, <1>6, <1>7 DEF Turns, Compact, CompactFails, TakeToast, ToastGone, Describe,
                          PrepFails, Chunk, UseTool, UpstreamFails, EditFails, RetractFails,
                          FinishAborts, FinaliseFails
<1>8. ASSUME Stop \/ FooterDiscard \/ Reload PROVE RowStep
  <2>1. CASE Stop
    BY <1>3, <2>1, UpdateIsRowStep DEF Stop
  <2>2. CASE FooterDiscard
    BY <2>2, RemovedIsRowStep, PresentBegun DEF FooterDiscard, Interrupted
  <2>3. CASE Reload
    BY <1>1, <2>3 DEF Reload
  <2> QED
    BY <1>8, <2>1, <2>2, <2>3
<1>9. ASSUME NEW i \in Attempts, AbortLands(i) PROVE RowStep
  BY <1>6, <1>9 DEF AbortLands
<1>10. ASSUME UNCHANGED vars PROVE RowStep
  BY <1>1, <1>10 DEF vars
<1> QED
  BY <1>4, <1>5, <1>7, <1>8, <1>9, <1>10 DEF Next

-----------------------------------------------------------------------------
(* An attempt that has its row, or no longer wants one, never wants one again. *)
LEMMA OwingShrinks ==
  ASSUME TypeOK, [Next]_vars
  PROVE  Owing' \subseteq Owing
<1> DEFINE Shrinks == Owing' \subseteq Owing
<1> USE DEF TypeOK, Run, Owing, OnItsWay, Becomes
<1>r. ASSUME NEW i \in Attempts, Rolls(i) PROVE Shrinks
  <2>1. i \in Owing /\ \E row : Rerolls(i, row)
    BY <1>r DEF Rolls
  <2>2. \A j \in Attempts \ {i} : run'[j].stage = run[j].stage
    BY <2>1 DEF Rerolls, Discards
  <2> QED
    BY <2>1, <2>2
<1>1. ASSUME NEW i \in Attempts, Asking(i) PROVE Shrinks
  <2>1. ASSUME i \in NextAttempt, NEW x, run' = [run EXCEPT ![i] = x] PROVE Shrinks
    BY <2>1 DEF NextAttempt
  <2> HIDE DEF Shrinks, TypeOK, Run, Owing, OnItsWay, Becomes
  <2> QED
    BY <1>1, <1>r, <2>1, RollSteps DEF Asking, Send, EditReplace, StartOpener, FooterRetry, Asks
<1>3. ASSUME NEW i \in Attempts, Rejected(i) PROVE Shrinks
  BY <1>3 DEF Rejected
<1>2. ASSUME NEW i \in Attempts, Continues(i) PROVE Shrinks
  <2>1. CASE Check(i) \/ CompactOk(i) \/ Discarded(i) \/ Prepared(i) \/ ToolAnswers(i)
    BY <2>1 DEF Check, CompactOk, Discarded, Prepared, ToolAnswers
  <2>2. CASE Post(i)
    BY <2>2 DEF Post
  <2>3. CASE Finish(i) \/ Finalised(i) \/ Timer(i) \/ Failed(i)
    BY <2>3 DEF Finish, Finalised, Timer, Failed
  <2>4. CASE Locate(i)
    <3>1. i \in Owing
      BY <2>4 DEF Locate
    <3>2. \A j \in Attempts \ {i} : run'[j].stage = run[j].stage
      BY <2>4 DEF Locate
    <3> QED
      BY <3>1, <3>2
  <2>5. CASE Reroll(i)
    <3>1. \E stage \in {"over", "streaming", "preparing"} : Becomes(i, stage)
      BY <2>5, Zenon DEF Reroll
    <3> QED
      BY <3>1
  <2>6. CASE Greet(i)
    BY <2>6 DEF Greet
  <2>7. CASE DropReply(i) \/ Retract(i) \/ Resend(i)
    BY <2>7 DEF DropReply, Retract, Resend
  <2>8. CASE Unwritten(i)
    BY <1>3, <2>8 DEF Unwritten
  <2> QED
    BY <1>2, <1>r, <2>1, <2>2, <2>3, <2>4, <2>5, <2>6, <2>7, <2>8, RollSteps DEF Continues
<1>4. ASSUME NEW i \in Attempts, Turns(i) PROVE Shrinks
  <2>1. CASE Compact(i) \/ CompactFails(i) \/ TakeToast(i) \/ ToastGone(i)
    BY <2>1 DEF Compact, CompactFails, TakeToast, ToastGone
  <2>2. CASE Describe(i) \/ PrepFails(i) \/ Chunk(i) \/ UseTool(i)
    BY <2>2 DEF Describe, PrepFails, Chunk, UseTool
  <2>3. CASE UpstreamFails(i) \/ FinaliseFails(i)
    BY <1>3, <2>3 DEF UpstreamFails, FinaliseFails
  <2>4. CASE EditFails(i) \/ RetractFails(i) \/ FinishAborts(i)
    BY <2>4 DEF EditFails, RetractFails, FinishAborts
  <2> QED
    BY <1>4, <2>1, <2>2, <2>3, <2>4 DEF Turns
<1>5. ASSUME Stop \/ FooterDiscard \/ Reload PROVE Shrinks
  BY <1>5 DEF Stop, FooterDiscard, Reload, Unborn
<1>6. ASSUME NEW i \in Attempts, AbortLands(i) PROVE Shrinks
  BY <1>3, <1>6 DEF AbortLands
<1>7. ASSUME UNCHANGED vars PROVE Shrinks
  BY <1>7 DEF vars
<1> HIDE DEF Shrinks, TypeOK, Run, Owing, OnItsWay, Becomes
<1> QED
  BY <1>1, <1>2, <1>4, <1>5, <1>6, <1>7 DEF Next, Shrinks

LEMMA RowCounts ==
  /\ IsFiniteSet(Begun) /\ Cardinality(Begun) \in Nat
  /\ IsFiniteSet(Owing) /\ Cardinality(Owing) \in Nat
<1>1. IsFiniteSet(Attempts)
  BY StreamAssumption, FS_Interval DEF Attempts
<1>2. Begun \in SUBSET Attempts /\ Owing \in SUBSET Attempts
  BY DEF Begun, Owing
<1> QED
  BY <1>1, <1>2, FS_Subset, FS_CardinalityType

(* The next row is one that no stream has had. *)
LEMMA NextRowFree ==
  ASSUME RowsInOrder, NEW i \in Owing
  PROVE  NextRow \in Attempts \ Begun
<1>1. Cardinality(Owing) >= 1
  BY RowCounts, FS_EmptySet
<1> QED
  BY <1>1, RowCounts, StreamAssumption DEF RowsInOrder, NextRow, Attempts

LEMMA RowsStayTyped ==
  ASSUME TypeOK, RowStep
  PROVE  rows' \in [Attempts -> Row]
<1> USE DEF TypeOK, Row
<1>1. CASE rows' = rows
  BY <1>1
<1>2. CASE \E r \in Begun : Cuts(r)
  BY <1>2 DEF Cuts, Removed, Content, Begun
<1>3. ASSUME NEW r \in Present, Writes(r) PROVE rows' \in [Attempts -> Row]
  BY <1>3 DEF Writes, Content, Present
<1>4. ASSUME NEW r \in Present, Completes(r) PROVE rows' \in [Attempts -> Row]
  BY <1>4 DEF Completes, Content, Present
<1>5. ASSUME NEW i \in Owing, NEW g \in BOOLEAN, Drafts(i, g)
      PROVE  rows' \in [Attempts -> Row]
  BY <1>5 DEF Drafts, Drafted, NoRow
<1> QED
  BY <1>1, <1>2, <1>3, <1>4, <1>5 DEF RowStep

(* Only a draft makes a new row, and then it is the next one in order. *)
LEMMA BegunSteps ==
  ASSUME TypeOK, RowsInOrder, RowStep
  PROVE  \/ Begun' = Begun
         \/ /\ Begun' = Begun \cup {NextRow}
            /\ \E i \in Owing : i \notin Owing'
<1> USE DEF TypeOK, Row, Begun
<1>1. CASE rows' = rows
  BY <1>1
<1>2. ASSUME NEW r \in Begun, Cuts(r) PROVE Begun' = Begun
  BY <1>2 DEF Cuts, Removed, Content
<1>3. ASSUME NEW r \in Present, Writes(r) PROVE Begun' = Begun
  BY <1>3 DEF Writes, Content, Present
<1>4. ASSUME NEW r \in Present, Completes(r) PROVE Begun' = Begun
  BY <1>4 DEF Completes, Content, Present
<1>5. ASSUME NEW i \in Owing, NEW g \in BOOLEAN, Drafts(i, g)
      PROVE  Begun' = Begun \cup {NextRow}
  <2>1. NextRow \in Attempts
    BY NextRowFree
  <2> QED
    BY <1>5, <2>1 DEF Drafts, Drafted, NoRow
<1> HIDE DEF TypeOK, Row, Begun
<1> QED
  BY <1>1, <1>2, <1>3, <1>4, <1>5 DEF RowStep, Drafts

LEMMA OrderKept ==
  ASSUME TypeOK, RowsInOrder, RowStep, Owing' \subseteq Owing
  PROVE  RowsInOrder'
<1>1. IsFiniteSet(Owing') /\ Cardinality(Owing') \in Nat
        /\ Cardinality(Owing') <= Cardinality(Owing)
  BY RowCounts, FS_Subset, FS_CardinalityType
<1>2. CASE Begun' = Begun
  BY <1>1, <1>2, RowCounts, StreamAssumption DEF RowsInOrder
<1>3. ASSUME Begun' = Begun \cup {NextRow}, NEW i \in Owing, i \notin Owing' PROVE RowsInOrder'
  <2>1. NextRow \notin Begun
    BY NextRowFree
  <2>2. Cardinality(Begun') = Cardinality(Begun) + 1
    BY <1>3, <2>1, RowCounts, FS_AddElement
  <2>3. Owing' \in SUBSET (Owing \ {i})
    BY <1>3
  <2>4. IsFiniteSet(Owing \ {i}) /\ Cardinality(Owing \ {i}) = Cardinality(Owing) - 1
    BY RowCounts, FS_RemoveElement
  <2>5. Cardinality(Owing') <= Cardinality(Owing) - 1
    BY <2>3, <2>4, FS_Subset
  <2>6. Begun' = 1 .. Cardinality(Begun) + 1
    BY <1>3, RowCounts DEF RowsInOrder, NextRow
  <2> QED
    BY <1>1, <2>2, <2>5, <2>6, RowCounts, StreamAssumption DEF RowsInOrder
<1> QED
  BY <1>2, <1>3, BegunSteps

LEMMA WholeKept ==
  ASSUME TypeOK, CompleteIsWhole, RowStep
  PROVE  CompleteIsWhole'
<1> USE DEF TypeOK, Row, CompleteIsWhole
<1>1. CASE rows' = rows
  BY <1>1
<1>2. ASSUME NEW r \in Begun, Cuts(r) PROVE CompleteIsWhole'
  BY <1>2 DEF Cuts, Removed, Content, Begun
<1>3. ASSUME NEW r \in Present, Writes(r) PROVE CompleteIsWhole'
  BY <1>3 DEF Writes, Content, Present
<1>4. ASSUME NEW r \in Present, Completes(r) PROVE CompleteIsWhole'
  <2>1. PICK i \in Attempts : rows' = Content("complete", {i}, TRUE, r)
    BY <1>4 DEF Completes
  <2>2. Cardinality({i}) = 1
    BY FS_Singleton
  <2> QED
    BY <2>1, <2>2 DEF Content, Present
<1>5. ASSUME NEW i \in Owing, NEW g \in BOOLEAN, Drafts(i, g) PROVE CompleteIsWhole'
  BY <1>5 DEF Drafts, Drafted, NoRow
<1> HIDE DEF TypeOK, Row, CompleteIsWhole
<1> QED
  BY <1>1, <1>2, <1>3, <1>4, <1>5 DEF RowStep

(* A greeting is drafted only into a chat that shows no reply. *)
LEMMA OneGreetingKept ==
  ASSUME TypeOK, RowsInOrder, OneGreeting, RowStep
  PROVE  OneGreeting'
<1> USE DEF TypeOK, Row, Present, Greetings
<1>1. CASE rows' = rows
  BY <1>1 DEF OneGreeting
<1>2. ASSUME NEW r \in Begun, Cuts(r) PROVE Greetings' \subseteq Greetings
  BY <1>2 DEF Cuts, Removed, Content, Begun
<1>3. ASSUME NEW r \in Present, Writes(r) PROVE Greetings' \subseteq Greetings
  BY <1>3 DEF Writes, Content
<1>4. ASSUME NEW r \in Present, Completes(r) PROVE Greetings' \subseteq Greetings
  BY <1>4 DEF Completes, Content
<1>5. ASSUME NEW i \in Owing, Drafts(i, FALSE) PROVE Greetings' \subseteq Greetings
  BY <1>5 DEF Drafts, Drafted, NoRow
<1>6. ASSUME NEW i \in Owing, Drafts(i, TRUE) PROVE Greetings' \subseteq {NextRow}
  BY <1>6 DEF Drafts, Drafted, NoRow
<1>7. Greetings' \subseteq Greetings \/ \E n : Greetings' \subseteq {n}
  <2> HIDE DEF TypeOK, Row, Present, Greetings
  <2> QED
    BY <1>1, <1>2, <1>3, <1>4, <1>5, <1>6 DEF RowStep, Greetings, Present
<1> HIDE DEF TypeOK, Row, Present, Greetings
<1> QED
  BY <1>7 DEF OneGreeting

-----------------------------------------------------------------------------
LEMMA TargetPresent ==
  ASSUME NEW i \in Attempts
  PROVE  Target(i) \subseteq Present /\ Target(i) \subseteq Attempts
BY DEF Target, Greetings, Present

LEMMA AsksTyped ==
  ASSUME TypeOK, NEW i \in Attempts, NEW kind \in Kinds, NEW row \in {0} \cup Attempts,
         NEW text \in {0} \cup Attempts, NEW msg \in {0} \cup Attempts, NEW stage \in Stages,
         Asks(i, kind, row, text, msg, stage)
  PROVE  run' \in [Attempts -> Run]
<1>1. 0 \in 0 .. MaxRounds
  BY StreamAssumption
<1>2. Asked(kind, row, text, msg, stage) \in Run
  BY <1>1 DEF Asked, Unborn, Run
<1>3. run' = [run EXCEPT ![i] = Asked(kind, row, text, msg, stage)]
  BY DEF Asks
<1> QED
  BY <1>2, <1>3 DEF TypeOK

LEMMA NamesRowTyped ==
  ASSUME TypeOK, NEW i \in Attempts, NEW kind \in Kinds, NEW row \in Attempts,
         NEW stage \in Stages,
         run' = [run EXCEPT ![i].stage = stage, ![i].row = row, ![i].kind = kind]
  PROVE  run' \in [Attempts -> Run]
<1>1. [run[i] EXCEPT !.stage = stage, !.row = row, !.kind = kind] \in Run
  <2>1. run[i] \in Run
    BY DEF TypeOK
  <2> QED
    BY <2>1 DEF Run
<1>2. run' = [run EXCEPT ![i] = [run[i] EXCEPT !.stage = stage, !.row = row, !.kind = kind]]
  BY DEF TypeOK
<1> QED
  BY <1>1, <1>2 DEF TypeOK

LEMMA DraftTyped ==
  ASSUME TypeOK, NEW i \in Attempts, NEW row \in Attempts, NEW stage \in Stages,
         run' = [run EXCEPT ![i].stage = stage, ![i].row = row]
  PROVE  run' \in [Attempts -> Run]
<1>1. [run[i] EXCEPT !.stage = stage, !.row = row] \in Run
  <2>1. run[i] \in Run
    BY DEF TypeOK
  <2> QED
    BY <2>1 DEF Run
<1>2. run' = [run EXCEPT ![i] = [run[i] EXCEPT !.stage = stage, !.row = row]]
  BY DEF TypeOK
<1> QED
  BY <1>1, <1>2 DEF TypeOK

(* The abort signal of one attempt fires. *)
LEMMA StopTyped ==
  ASSUME TypeOK, NEW j, NEW fired \in BOOLEAN
  PROVE  [run EXCEPT ![j].stopped = fired] \in [Attempts -> Run]
<1>1. ASSUME j \in Attempts PROVE [run[j] EXCEPT !.stopped = fired] \in Run
  <2>1. run[j] \in Run
    BY <1>1 DEF TypeOK
  <2> QED
    BY <2>1 DEF Run
<1>2. [run EXCEPT ![j].stopped = fired] = [run EXCEPT ![j] = [run[j] EXCEPT !.stopped = fired]]
  OBVIOUS
<1> QED
  BY <1>1, <1>2 DEF TypeOK

LEMMA HeedsIsBoolean == \A j : Heeds(j) \in BOOLEAN
BY DEF Heeds

LEMMA BecomesTyped ==
  ASSUME TypeOK, NEW i \in Attempts, NEW stage \in Stages, Becomes(i, stage)
  PROVE  run' \in [Attempts -> Run]
BY DEF Becomes, TypeOK, Run

LEMMA LocatedReply ==
  ASSUME NEW i \in Attempts, Locate(i)
  PROVE  \/ Becomes(i, "over")
         \/ \E row \in Present, kind \in {"regreet", "reroll"} :
              run' = [run EXCEPT ![i].stage = "located", ![i].row = row, ![i].kind = kind]
<1>1. Target(i) # {} => Max(Target(i)) \in Present
  BY TargetPresent, MaxOfRows
<1>2. CASE Target(i) = {}
  BY <1>2 DEF Locate
<1>3. CASE Target(i) # {}
  BY <1>1, <1>3 DEF Locate
<1> QED
  BY <1>2, <1>3

LEMMA RunsStayTyped ==
  ASSUME TypeOK, RowsInOrder, [Next]_vars
  PROVE  run' \in [Attempts -> Run]
<1> DEFINE Typed == run' \in [Attempts -> Run]
<1>r. ASSUME NEW i \in Attempts, Rolls(i) PROVE Typed
  <2>1. PICK row \in {0} \cup Attempts : Rerolls(i, row)
    BY <1>r, PresentBegun DEF Rolls
  <2>2. 0 \in 0 .. MaxRounds /\ "reroll" \in Kinds /\ {"discarding", "asked"} \subseteq Stages
    BY StreamAssumption DEF Kinds, Stages
  <2>3. \A stage \in {"discarding", "asked"} : Asked("reroll", row, 0, 0, stage) \in Run
    BY <2>2 DEF Asked, Unborn, Run
  <2>4. CASE Discards(i, row)
    <3>1. run' = [[run EXCEPT ![handle.owner].stopped = Heeds(handle.owner)]
                    EXCEPT ![i] = Asked("reroll", row, 0, 0, "discarding")]
      BY <2>4 DEF Discards
    <3> QED
      BY <2>3, <3>1, StopTyped, HeedsIsBoolean
  <2> QED
    BY <2>1, <2>3, <2>4 DEF Rerolls, TypeOK
<1>3. ASSUME NEW i \in Attempts, Rejected(i) PROVE Typed
  BY <1>3, BecomesTyped DEF Rejected, Stages
<1>1. ASSUME NEW i \in Attempts, Asking(i) PROVE Typed
  <2>1. CASE Send(i) \/ StartOpener(i)
    BY <2>1, AsksTyped DEF Send, StartOpener, Kinds, Stages
  <2>2. CASE EditReplace(i)
    BY <2>2, EditedMessage, AsksTyped DEF Kinds, Stages
  <2>3. CASE FooterRetry(i)
    BY <2>3, RetriedText, PresentBegun, AsksTyped DEF Kinds, Stages
  <2> QED
    BY <1>1, <1>r, <2>1, <2>2, <2>3, RollSteps DEF Asking
<1>2. ASSUME NEW i \in Attempts, Continues(i) PROVE Typed
  <2>1. CASE \/ Check(i) \/ CompactOk(i) \/ Discarded(i) \/ Prepared(i) \/ ToolAnswers(i)
             \/ Finish(i) \/ Finalised(i) \/ Timer(i) \/ Failed(i) \/ DropReply(i)
             \/ Retract(i) \/ Resend(i)
    BY <2>1, BecomesTyped DEF Check, CompactOk, Discarded, Prepared, ToolAnswers, Finish,
                              Finalised, Timer, Failed, DropReply, Retract, Resend, Stages
  <2>2. CASE Post(i)
    <3>1. NextRow \in Attempts
      BY <2>2, NextRowFree DEF Post, Owing, OnItsWay
    <3> QED
      BY <2>2, <3>1, DraftTyped DEF Post, Stages
  <2>3. CASE Locate(i)
    <3>1. CASE Becomes(i, "over")
      BY <3>1, BecomesTyped DEF Stages
    <3>2. ASSUME NEW row \in Present, NEW kind \in {"regreet", "reroll"},
                 run' = [run EXCEPT ![i].stage = "located", ![i].row = row, ![i].kind = kind]
          PROVE  Typed
      BY <3>2, PresentBegun, NamesRowTyped DEF Stages, Kinds
    <3> QED
      BY <2>3, <3>1, <3>2, LocatedReply
  <2>4. CASE Reroll(i)
    <3>1. \E stage \in {"over", "streaming", "preparing"} : Becomes(i, stage)
      BY <2>4, Zenon DEF Reroll
    <3> QED
      BY <3>1, BecomesTyped DEF Stages
  <2>5. CASE Greet(i)
    <3>1. NextRow \in Attempts
      BY <2>5, NextRowFree DEF Greet, Owing, OnItsWay
    <3>2. CASE Becomes(i, "over")
      BY <3>2, BecomesTyped DEF Stages
    <3>3. CASE run' = [run EXCEPT ![i].stage = "streaming", ![i].row = NextRow]
      BY <3>1, <3>3, DraftTyped DEF Stages
    <3> QED
      BY <2>5, <3>2, <3>3 DEF Greet
  <2>6. CASE Unwritten(i)
    BY <1>3, <2>6 DEF Unwritten
  <2> QED
    BY <1>2, <1>r, <2>1, <2>2, <2>3, <2>4, <2>5, <2>6, RollSteps DEF Continues
<1>4. ASSUME NEW i \in Attempts, Turns(i) PROVE Typed
  <2>1. CASE \/ Compact(i) \/ CompactFails(i) \/ TakeToast(i) \/ ToastGone(i) \/ PrepFails(i)
             \/ EditFails(i) \/ RetractFails(i) \/ FinishAborts(i)
    BY <2>1, BecomesTyped DEF Compact, CompactFails, TakeToast, ToastGone, PrepFails, EditFails,
                              RetractFails, FinishAborts, Stages
  <2>2. CASE Describe(i) \/ Chunk(i)
    BY <2>2 DEF Describe, Chunk, TypeOK
  <2>3. CASE UseTool(i)
    BY <2>3, StreamAssumption DEF UseTool, TypeOK, Run, Stages
  <2>4. CASE UpstreamFails(i) \/ FinaliseFails(i)
    BY <2>4, <1>3 DEF UpstreamFails, FinaliseFails
  <2> QED
    BY <1>4, <2>1, <2>2, <2>3, <2>4 DEF Turns
<1>5. CASE Stop
  BY <1>5, StopTyped, HeedsIsBoolean DEF Stop
<1>6. CASE FooterDiscard \/ UNCHANGED vars
  BY <1>6 DEF FooterDiscard, vars, TypeOK
<1>7. CASE Reload
  <2>1. 0 \in 0 .. MaxRounds /\ "send" \in Kinds /\ {"unborn", "over"} \subseteq Stages
    BY StreamAssumption DEF Kinds, Stages
  <2>2. Unborn \in Run
    BY <2>1 DEF Unborn, Run
  <2>3. ASSUME NEW i \in Attempts PROVE [run[i] EXCEPT !.stage = "over"] \in Run
    <3>1. run[i] \in Run
      BY DEF TypeOK
    <3> QED
      BY <2>1, <3>1 DEF Run
  <2> QED
    BY <1>7, <2>2, <2>3 DEF Reload
<1>8. ASSUME NEW i \in Attempts, AbortLands(i) PROVE Typed
  BY <1>3, <1>8 DEF AbortLands
<1> QED
  BY <1>1, <1>2, <1>4, <1>5, <1>6, <1>7, <1>8 DEF Next

-----------------------------------------------------------------------------
(* What a step may do to the handle of the chat. *)
Gathers == Live /\ \E buf \in SUBSET Attempts : handle' = [handle EXCEPT !.buf = buf]
Begins(i) == \E reused, opener \in BOOLEAN :
  /\ Installed(i, run'[i].row, reused, opener)
  /\ run'[i].row \in Begun'
  /\ run'[i].stage \in {"preparing", "streaming"}
HandleStep == \/ handle' = handle \/ handle' = NoHandle \/ Gathers
              \/ \E i \in Attempts : Begins(i)

LEMMA HandleSteps ==
  ASSUME TypeOK, RowsInOrder, NamedRowsBegun, [Next]_vars
  PROVE  HandleStep
<1>1. ASSUME handle' = handle \/ handle' = NoHandle PROVE HandleStep
  BY <1>1 DEF HandleStep
<1>r. ASSUME NEW i \in Attempts, Rolls(i) PROVE HandleStep
  BY <1>1, <1>r DEF Rolls, Rerolls, Discards
<1>2. ASSUME NEW i \in Attempts, Asking(i) PROVE HandleStep
  BY <1>1, <1>2, <1>r, RollSteps DEF Asking, Send, EditReplace, StartOpener, FooterRetry
<1>3. ASSUME NEW i \in Attempts, Continues(i) PROVE HandleStep
  <2>1. CASE \/ Check(i) \/ CompactOk(i) \/ Discarded(i) \/ Locate(i) \/ Prepared(i)
             \/ ToolAnswers(i) \/ Finish(i) \/ Finalised(i) \/ Timer(i) \/ Failed(i)
    BY <2>1, <1>1 DEF Check, CompactOk, Discarded, Locate, Prepared, ToolAnswers, Finish,
                      Finalised, Timer, Failed, Freed
  <2>5. CASE DropReply(i) \/ Retract(i) \/ Resend(i) \/ Unwritten(i)
    BY <2>5, <1>1 DEF DropReply, Retract, Resend, Unwritten, Rejected
  <2>2. CASE Post(i)
    <3>1. NextRow \in Attempts
      BY <2>2, NextRowFree DEF Post, Owing, OnItsWay
    <3>2. NextRow \in Begun'
      BY <2>2, <3>1 DEF Post, Drafted, NoRow, Begun, TypeOK
    <3>3. run'[i].row = NextRow /\ run'[i].stage = "preparing"
      BY <2>2 DEF Post, TypeOK, Run
    <3> QED
      BY <2>2, <3>2, <3>3 DEF Post, HandleStep, Begins
  <2>3. CASE Reroll(i)
    <3>1. CASE handle' = handle
      BY <1>1, <3>1
    <3>2. CASE handle' # handle
      <4>1. /\ rows' = Cleared(run[i].row)
            /\ Installed(i, run[i].row, TRUE, run[i].kind = "regreet")
            /\ \E stage \in {"streaming", "preparing"} : Becomes(i, stage)
        BY <2>3, <3>2, Zenon DEF Reroll
      <4>2. run'[i].row = run[i].row /\ run'[i].stage \in {"streaming", "preparing"}
        BY <4>1 DEF Becomes, TypeOK, Run
      <4>3. run[i].row \in Begun'
        BY <2>3, RowSteps, BegunSteps DEF Reroll, NamedRowsBegun
      <4>4. (run[i].kind = "regreet") \in BOOLEAN
        OBVIOUS
      <4> QED
        BY <4>1, <4>2, <4>3, <4>4 DEF HandleStep, Begins
    <3> QED
      BY <3>1, <3>2
  <2>4. CASE Greet(i)
    <3>1. CASE handle' = handle
      BY <1>1, <3>1
    <3>2. CASE handle' # handle
      <4>1. /\ rows' = Drafted(NextRow, TRUE)
            /\ Installed(i, NextRow, FALSE, TRUE)
            /\ run' = [run EXCEPT ![i].stage = "streaming", ![i].row = NextRow]
        BY <2>4, <3>2 DEF Greet
      <4>2. NextRow \in Attempts
        BY <2>4, NextRowFree DEF Greet, Owing, OnItsWay
      <4>3. NextRow \in Begun'
        BY <4>1, <4>2 DEF Drafted, NoRow, Begun, TypeOK
      <4>4. run'[i].row = NextRow /\ run'[i].stage = "streaming"
        BY <4>1 DEF TypeOK, Run
      <4> QED
        BY <4>1, <4>3, <4>4 DEF HandleStep, Begins
    <3> QED
      BY <3>1, <3>2
  <2> QED
    BY <1>3, <1>r, <2>1, <2>2, <2>3, <2>4, <2>5, RollSteps DEF Continues
<1>4. ASSUME NEW i \in Attempts, Turns(i) PROVE HandleStep
  <2>1. CASE Describe(i)
    BY <2>1 DEF Describe, HandleStep, Gathers
  <2>2. CASE Chunk(i)
    BY <2>2 DEF Chunk, HandleStep, Gathers, TypeOK, Handle
  <2> QED
    BY <1>1, <1>4, <2>1, <2>2 DEF Turns, Compact, CompactFails, TakeToast, ToastGone, PrepFails,
                                  UseTool, UpstreamFails, EditFails, RetractFails, FinishAborts,
                                  FinaliseFails, Rejected
<1>5. ASSUME Stop \/ FooterDiscard \/ Reload PROVE HandleStep
  BY <1>1, <1>5 DEF Stop, FooterDiscard, Reload, HandleAfterStop
<1>6. ASSUME NEW i \in Attempts, AbortLands(i) PROVE HandleStep
  BY <1>1, <1>6 DEF AbortLands, Rejected
<1>7. ASSUME UNCHANGED vars PROVE HandleStep
  BY <1>1, <1>7 DEF vars
<1> QED
  BY <1>2, <1>3, <1>4, <1>5, <1>6, <1>7 DEF Next

LEMMA HandleStaysTyped ==
  ASSUME TypeOK, HandleStep
  PROVE  handle' \in Handle
<1>1. NoHandle \in Handle
  BY DEF NoHandle, Handle
<1>2. ASSUME NEW i \in Attempts, Begins(i) PROVE handle' \in Handle
  <2>1. Begun' \subseteq Attempts
    BY DEF Begun
  <2> QED
    BY <1>2, <2>1 DEF Begins, Installed, Handle
<1>3. CASE Gathers
  <2>1. PICK buf \in SUBSET Attempts : handle' = [handle EXCEPT !.buf = buf]
    BY <1>3 DEF Gathers
  <2>2. handle \in Handle
    BY DEF TypeOK
  <2> QED
    BY <2>1, <2>2 DEF Handle
<1> QED
  BY <1>1, <1>2, <1>3 DEF HandleStep, TypeOK

-----------------------------------------------------------------------------
(* What a step may do to the row an attempt is for: it is fixed once it has one. *)
SameRow(j) == /\ run'[j].row = run[j].row /\ run'[j].kind = run[j].kind
              /\ run'[j].stage = "located" => run[j].stage = "located"
FindsRow(j) == /\ j \in Owing
               /\ \/ run'[j].row \in Begun'
                  \/ run'[j].row = 0 /\ run'[j].stage # "located"

LEMMA SameRowOf ==
  ASSUME TypeOK
  PROVE  /\ \A i, j \in Attempts : \A stage : Becomes(i, stage) /\ stage # "located" => SameRow(j)
         /\ \A j \in Attempts : UNCHANGED run => SameRow(j)
<1>1. ASSUME NEW i \in Attempts, NEW j \in Attempts, NEW stage, Becomes(i, stage),
             stage # "located"
      PROVE  SameRow(j)
  BY <1>1 DEF Becomes, SameRow, TypeOK, Run
<1> QED
  BY <1>1 DEF SameRow

LEMMA AsksFindsRow ==
  ASSUME TypeOK, NEW i \in Attempts, NEW kind, NEW row \in {0} \cup Begun', NEW text,
         NEW msg, NEW stage, stage # "located", Asks(i, kind, row, text, msg, stage),
         NEW j \in Attempts
  PROVE  SameRow(j) \/ FindsRow(j)
<1>1. CASE j = i
  BY <1>1 DEF Asks, Asked, Unborn, NextAttempt, FindsRow, Owing, OnItsWay, TypeOK, Run
<1>2. CASE j # i
  BY <1>2 DEF Asks, SameRow, TypeOK, Run
<1> QED
  BY <1>1, <1>2

LEMMA RowsOfRuns ==
  ASSUME TypeOK, RowsInOrder, NamedRowsBegun, [Next]_vars, NEW j \in Attempts
  PROVE  SameRow(j) \/ FindsRow(j)
<1> DEFINE Ok == SameRow(j) \/ FindsRow(j)
<1>1. Begun \subseteq Begun' /\ Present \subseteq Begun'
  BY RowSteps, BegunSteps, PresentBegun
<1>r. ASSUME NEW i \in Attempts, Rolls(i) PROVE Ok
  <2>1. PICK row \in {0} \cup Begun' : Rerolls(i, row)
    BY <1>1, <1>r DEF Rolls
  <2>2. i \in Owing
    BY <1>r DEF Rolls
  <2>3. CASE j = i
    <3>1. \E stage \in {"discarding", "asked"} : run'[j] = Asked("reroll", row, 0, 0, stage)
      BY <2>1, <2>3 DEF Rerolls, Discards, TypeOK
    <3>2. run'[j].row = row /\ run'[j].stage \in {"discarding", "asked"}
      BY <3>1 DEF Asked, Unborn
    <3> QED
      BY <2>2, <2>3, <3>2 DEF FindsRow
  <2>4. CASE j # i
    BY <2>1, <2>4 DEF Rerolls, Discards, SameRow, TypeOK, Run
  <2> QED
    BY <2>3, <2>4
<1>2. ASSUME NEW i \in Attempts, Asking(i) PROVE Ok
  <2>1. CASE Send(i) \/ StartOpener(i)
    BY <2>1, AsksFindsRow DEF Send, StartOpener
  <2>2. CASE EditReplace(i)
    BY <2>2, EditedMessage, AsksFindsRow
  <2>3. CASE FooterRetry(i)
    BY <1>1, <2>3, RetriedText, AsksFindsRow
  <2> QED
    BY <1>2, <1>r, <2>1, <2>2, <2>3, RollSteps DEF Asking
<1>4. ASSUME NEW i \in Attempts, Rejected(i) PROVE Ok
  BY <1>4, SameRowOf DEF Rejected
<1>3. ASSUME NEW i \in Attempts, Continues(i) PROVE Ok
  <2>1. CASE \/ Check(i) \/ CompactOk(i) \/ Discarded(i) \/ Prepared(i) \/ ToolAnswers(i)
             \/ Finish(i) \/ Finalised(i) \/ Timer(i) \/ Failed(i) \/ DropReply(i)
             \/ Retract(i) \/ Resend(i)
    BY <2>1, SameRowOf DEF Check, CompactOk, Discarded, Prepared, ToolAnswers, Finish,
                           Finalised, Timer, Failed, DropReply, Retract, Resend
  <2>2. ASSUME NEW stage \in {"preparing", "streaming"}, NextRow \in Begun', i \in Owing,
               run' = [run EXCEPT ![i].stage = stage, ![i].row = NextRow]
        PROVE  Ok
    <3>1. CASE j = i
      BY <2>2, <3>1 DEF FindsRow, TypeOK, Run
    <3>2. CASE j # i
      BY <2>2, <3>2 DEF SameRow, TypeOK, Run
    <3> QED
      BY <3>1, <3>2
  <2>3. ASSUME NEW greeting, rows' = Drafted(NextRow, greeting), i \in Owing
        PROVE  NextRow \in Begun'
    <3>1. NextRow \in Attempts
      BY <2>3, NextRowFree
    <3> QED
      BY <2>3, <3>1 DEF Drafted, NoRow, Begun, TypeOK
  <2>4. CASE Post(i)
    BY <2>2, <2>3, <2>4 DEF Post, Owing, OnItsWay
  <2>5. CASE Locate(i)
    <3>1. CASE Becomes(i, "over")
      BY <3>1, SameRowOf
    <3>2. ASSUME NEW row \in Present, NEW kind,
                 run' = [run EXCEPT ![i].stage = "located", ![i].row = row, ![i].kind = kind]
          PROVE  Ok
      <4>1. CASE j = i
        BY <1>1, <2>5, <3>2, <4>1 DEF Locate, FindsRow, Owing, OnItsWay, TypeOK, Run
      <4>2. CASE j # i
        BY <3>2, <4>2 DEF SameRow, TypeOK, Run
      <4> QED
        BY <4>1, <4>2
    <3> QED
      BY <2>5, <3>1, <3>2, LocatedReply
  <2>6. CASE Reroll(i)
    <3>1. \E stage \in {"over", "streaming", "preparing"} : Becomes(i, stage)
      BY <2>6, Zenon DEF Reroll
    <3> QED
      BY <3>1, SameRowOf
  <2>7. CASE Greet(i)
    BY <2>2, <2>3, <2>7, SameRowOf DEF Greet, Owing, OnItsWay
  <2>8. CASE Unwritten(i)
    BY <1>4, <2>8 DEF Unwritten
  <2> QED
    BY <1>3, <1>r, <2>1, <2>4, <2>5, <2>6, <2>7, <2>8, RollSteps DEF Continues
<1>5. ASSUME NEW i \in Attempts, Turns(i) PROVE Ok
  <2>1. CASE UseTool(i)
    BY <2>1 DEF UseTool, SameRow, TypeOK, Run
  <2> QED
    BY <1>4, <1>5, <2>1, SameRowOf DEF Turns, Compact, CompactFails, TakeToast, ToastGone,
                                       Describe, PrepFails, Chunk, UpstreamFails, EditFails,
                                       RetractFails, FinishAborts, FinaliseFails
<1>6. CASE Stop
  BY <1>6 DEF Stop, SameRow, TypeOK, Run
<1>7. CASE FooterDiscard \/ UNCHANGED vars
  BY <1>7, SameRowOf DEF FooterDiscard, vars
<1>8. CASE Reload
  <2>1. CASE run[j].stage = "unborn"
    BY <1>8, <2>1 DEF Reload, Unborn, FindsRow, Owing
  <2>2. CASE run[j].stage # "unborn"
    BY <1>8, <2>2 DEF Reload, SameRow, TypeOK, Run
  <2> QED
    BY <2>1, <2>2
<1>9. ASSUME NEW i \in Attempts, AbortLands(i) PROVE Ok
  BY <1>4, <1>9 DEF AbortLands
<1> QED
  BY <1>2, <1>3, <1>5, <1>6, <1>7, <1>8, <1>9 DEF Next

(* Only a stop keeps a row, the one of the handle it frees. *)
LEMMA KeptSteps ==
  ASSUME [Next]_vars
  PROVE  \/ kept' \subseteq kept
         \/ Stop /\ Live /\ handle' = NoHandle /\ kept' = kept \cup ({handle.row} \cap Present)
<1> DEFINE Fewer == kept' \subseteq kept
<1>r. ASSUME NEW i \in Attempts, Rolls(i) PROVE Fewer
  BY <1>r DEF Rolls, Rerolls, Discards
<1>1. ASSUME NEW i \in Attempts, Asking(i) PROVE Fewer
  BY <1>1, <1>r, RollSteps DEF Asking, Send, EditReplace, StartOpener, FooterRetry
<1>2. ASSUME NEW i \in Attempts, Continues(i) PROVE Fewer
  <2>1. CASE \/ DropReply(i) \/ Retract(i) \/ Resend(i) \/ Unwritten(i)
    BY <2>1 DEF DropReply, Retract, Resend, Unwritten, Rejected
  <2> QED
    BY <1>2, <1>r, <2>1, RollSteps
       DEF Continues, Check, CompactOk, Post, Discarded, Locate, Reroll, Greet, Prepared,
           ToolAnswers, Finish, Finalised, Timer, Failed
<1>3. ASSUME NEW i \in Attempts, Turns(i) \/ AbortLands(i) PROVE Fewer
  BY <1>3 DEF Turns, Compact, CompactFails, TakeToast, ToastGone, Describe, PrepFails, Chunk,
              UseTool, UpstreamFails, EditFails, RetractFails, FinishAborts, FinaliseFails,
              AbortLands, Rejected
<1>4. CASE FooterDiscard \/ Reload \/ UNCHANGED vars
  BY <1>4 DEF FooterDiscard, Reload, vars
<1> QED
  BY <1>1, <1>2, <1>3, <1>4 DEF Next, Stop, HandleAfterStop

LEMMA NamedRowsKept ==
  ASSUME TypeOK, RowsInOrder, NamedRowsBegun, [Next]_vars
  PROVE  NamedRowsBegun'
<1>1. Begun \subseteq Begun' /\ Present \subseteq Begun' /\ Owing' \subseteq Owing
  BY RowSteps, BegunSteps, PresentBegun, OwingShrinks
<1>2. ASSUME NEW j \in Attempts
      PROVE  \/ run'[j].row \in Begun'
             \/ run'[j].row = 0 /\ run'[j].stage # "located"
  BY <1>1, RowsOfRuns DEF NamedRowsBegun, SameRow, FindsRow
<1>3. ASSUME Live, handle'.owner = handle.owner, handle'.row = handle.row
      PROVE  /\ handle'.owner \in Attempts /\ handle'.row \in Begun'
             /\ handle'.owner \notin Owing' /\ run'[handle'.owner].stage # "located"
  BY <1>1, <1>3, RowsOfRuns DEF NamedRowsBegun, SameRow, FindsRow
<1>4. ASSUME NEW i \in Attempts, Begins(i)
      PROVE  /\ handle'.owner \in Attempts /\ handle'.row \in Begun'
             /\ handle'.owner \notin Owing' /\ run'[handle'.owner].stage # "located"
  BY <1>4 DEF Begins, Installed, Owing, OnItsWay
<1>5. Live' => /\ handle'.owner \in Attempts /\ handle'.row \in Begun'
               /\ handle'.owner \notin Owing' /\ run'[handle'.owner].stage # "located"
  <2>1. CASE handle' = handle
    BY <1>3, <2>1 DEF Live
  <2>2. CASE handle' = NoHandle
    BY <2>2 DEF Live
  <2>3. CASE Gathers
    BY <1>3, <2>3 DEF Gathers, TypeOK, Handle
  <2> QED
    BY <1>4, <2>1, <2>2, <2>3, HandleSteps DEF HandleStep
<1>6. kept' \subseteq Begun'
  BY <1>1, KeptSteps DEF NamedRowsBegun
<1> QED
  BY <1>2, <1>5, <1>6 DEF NamedRowsBegun

(* Every step of every action leaves the variables in their types. *)
LEMMA TypeKept ==
  ASSUME TypeOK, RowsInOrder, NamedRowsBegun, [Next]_vars
  PROVE  TypeOK'
<1>1. rows' \in [Attempts -> Row] /\ handle' \in Handle /\ run' \in [Attempts -> Run]
  BY RowSteps, RowsStayTyped, HandleSteps, HandleStaysTyped, RunsStayTyped
<1>2. kept' \subseteq Attempts
  <2>1. Begun' \subseteq Attempts
    BY DEF Begun
  <2> QED
    BY <2>1, NamedRowsKept DEF NamedRowsBegun
<1> DEFINE Others == /\ users' \in [Attempts -> {0} \cup Attempts]
                     /\ openerPending' \in BOOLEAN /\ faults' \in 0 .. MaxFaults
<1>3. ASSUME users' = users, openerPending' = openerPending, faults' = faults PROVE Others
  BY <1>3 DEF TypeOK
<1>4. ASSUME users' = users, openerPending' = openerPending, faults < MaxFaults,
             faults' = faults + 1
      PROVE  Others
  BY <1>4, StreamAssumption DEF TypeOK
<1>r. ASSUME NEW i \in Attempts, Rolls(i) PROVE Others
  BY <1>3, <1>r DEF Rolls, Rerolls, Discards
<1>5. ASSUME NEW i \in Attempts, Asking(i) PROVE Others
  BY <1>3, <1>5, <1>r, RollSteps DEF Asking, Send, EditReplace, StartOpener, FooterRetry
<1>6. ASSUME NEW i \in Attempts, Continues(i) PROVE Others
  <2>1. CASE Post(i)
    <3>1. run[i].text \in {0} \cup Attempts
      BY DEF TypeOK, Run
    <3> QED
      BY <2>1, <3>1 DEF Post, TypeOK
  <2>2. CASE Finish(i)
    BY <2>2 DEF Finish, TypeOK
  <2>3. CASE Retract(i)
    BY <2>3 DEF Retract, TypeOK
  <2>4. CASE DropReply(i) \/ Resend(i) \/ Unwritten(i)
    BY <1>3, <2>4 DEF DropReply, Resend, Unwritten, Rejected
  <2> QED
    BY <1>3, <1>6, <1>r, <2>1, <2>2, <2>3, <2>4, RollSteps
                              DEF Continues, Check, CompactOk, Discarded, Locate, Reroll, Greet,
                                  Prepared, ToolAnswers, Finalised, Timer, Failed
<1>7. ASSUME NEW i \in Attempts, Turns(i) PROVE Others
  <2>1. CASE UpstreamFails(i) \/ FinaliseFails(i)
    BY <1>4, <2>1 DEF UpstreamFails, FinaliseFails, Rejected
  <2>2. CASE CompactFails(i) \/ PrepFails(i) \/ FinishAborts(i)
    BY <1>4, <2>2 DEF CompactFails, PrepFails, FinishAborts
  <2> QED
    BY <1>3, <1>7, <2>1, <2>2 DEF Turns, Compact, TakeToast, ToastGone, Describe, Chunk, UseTool,
                                  EditFails, RetractFails
<1>8. ASSUME Stop PROVE Others
  BY <1>8 DEF Stop, TypeOK
<1>9. ASSUME FooterDiscard \/ Reload PROVE Others
  BY <1>3, <1>4, <1>9 DEF FooterDiscard, Reload
<1>10. ASSUME NEW i \in Attempts, AbortLands(i) PROVE Others
  BY <1>3, <1>10 DEF AbortLands, Rejected
<1>11. ASSUME UNCHANGED vars PROVE Others
  BY <1>3, <1>11 DEF vars
<1>12. Others
  BY <1>5, <1>6, <1>7, <1>8, <1>9, <1>10, <1>11 DEF Next
<1> HIDE DEF Others
<1> QED
  BY <1>1, <1>2, <1>12 DEF TypeOK, Others

(* A new handle is that of a post, a re-roll or a greeting. *)
LEMMA InstallSteps ==
  ASSUME TypeOK, [Next]_vars
  PROVE  \/ handle' \in {handle, NoHandle} \/ Gathers
         \/ \E i \in Attempts : handle'.owner = i /\ (Post(i) \/ Reroll(i) \/ Greet(i))
<1> DEFINE Known == handle' \in {handle, NoHandle}
<1>r. ASSUME NEW i \in Attempts, Rolls(i) PROVE Known
  BY <1>r DEF Rolls, Rerolls, Discards
<1>1. ASSUME NEW i \in Attempts, Asking(i) PROVE Known
  BY <1>1, <1>r, RollSteps DEF Asking, Send, EditReplace, StartOpener, FooterRetry
<1>2. ASSUME NEW i \in Attempts, Continues(i)
      PROVE  Known \/ (handle'.owner = i /\ (Post(i) \/ Reroll(i) \/ Greet(i)))
  <2>1. \A row, reused, opener : Installed(i, row, reused, opener) => handle'.owner = i
    BY DEF Installed
  <2>2. CASE Post(i)
    BY <2>1, <2>2 DEF Post
  <2>3. CASE Reroll(i)
    <3>1. Known \/ Installed(i, run[i].row, TRUE, run[i].kind = "regreet")
      BY <2>3, Zenon DEF Reroll
    <3> QED
      BY <2>1, <2>3, <3>1, Zenon
  <2>4. CASE Greet(i)
    <3>1. Known \/ Installed(i, NextRow, FALSE, TRUE)
      BY <2>4, Zenon DEF Greet
    <3> QED
      BY <2>1, <2>4, <3>1, Zenon
  <2>5. CASE \/ Check(i) \/ CompactOk(i) \/ Discarded(i) \/ Locate(i) \/ Prepared(i)
             \/ ToolAnswers(i) \/ Finish(i) \/ Finalised(i) \/ Timer(i) \/ Failed(i)
    <3>1. Known
      BY <2>5 DEF Check, CompactOk, Discarded, Locate, Prepared, ToolAnswers, Finish,
                  Finalised, Timer, Failed, Freed
    <3> QED
      BY <3>1
  <2>6. CASE DropReply(i) \/ Retract(i) \/ Resend(i) \/ Unwritten(i)
    <3>1. Known
      BY <2>6 DEF DropReply, Retract, Resend, Unwritten, Rejected
    <3> QED
      BY <3>1
  <2>7. CASE Edited(i) \/ RetryGreeting(i)
    <3>1. Known
      BY <1>r, <2>7, RollSteps
    <3> QED
      BY <3>1
  <2> QED
    BY <1>2, <2>2, <2>3, <2>4, <2>5, <2>6, <2>7, Zenon DEF Continues
<1>3. ASSUME NEW i \in Attempts, Turns(i) \/ AbortLands(i) PROVE Known \/ Gathers
  <2>1. CASE Describe(i)
    BY <2>1 DEF Describe, Gathers
  <2>2. CASE Chunk(i)
    BY <2>2 DEF Chunk, Gathers, TypeOK, Handle
  <2> QED
    BY <1>3, <2>1, <2>2 DEF Turns, Compact, CompactFails, TakeToast, ToastGone, PrepFails,
                            UseTool, UpstreamFails, EditFails, RetractFails, FinishAborts,
                            FinaliseFails, AbortLands, Rejected
<1>4. ASSUME Stop \/ FooterDiscard \/ Reload \/ UNCHANGED vars PROVE Known
  BY <1>4 DEF Stop, HandleAfterStop, FooterDiscard, Reload, vars
<1> QED
  BY <1>1, <1>2, <1>3, <1>4 DEF Next

(* Only the stream that has the handle is stopped. *)
LEMMA OnlyOwnersStopped ==
  ASSUME TypeOK, [Next]_vars, NEW j \in Attempts \ Owing, ~run[j].stopped,
         ~(Live /\ handle.owner = j)
  PROVE  ~run'[j].stopped
<1> DEFINE Ok == ~run'[j].stopped
<1>1. ASSUME UNCHANGED run PROVE Ok
  BY <1>1
<1>2. ASSUME NEW i \in Attempts, NEW stage, Becomes(i, stage) PROVE Ok
  BY <1>2 DEF Becomes, TypeOK, Run
<1>3. ASSUME NEW i \in Attempts, NEW kind, NEW row, NEW text, NEW msg, NEW stage,
             Asks(i, kind, row, text, msg, stage)
      PROVE  Ok
  BY <1>3 DEF Asks, NextAttempt, Owing, TypeOK, Run
<1>r. ASSUME NEW i \in Attempts, Rolls(i) PROVE Ok
  <2>1. i \in Owing /\ \E row : Rerolls(i, row)
    BY <1>r DEF Rolls
  <2> QED
    BY <2>1 DEF Rerolls, Discards, TypeOK, Run
<1>7. ASSUME NEW i \in Attempts, Rejected(i) PROVE Ok
  BY <1>2, <1>7 DEF Rejected
<1>4. ASSUME NEW i \in Attempts, Asking(i) PROVE Ok
  <2>2. CASE Send(i) \/ StartOpener(i)
    BY <1>3, <2>2 DEF Send, StartOpener
  <2>3. CASE EditReplace(i)
    BY <1>3, <2>3, EditedMessage
  <2>4. CASE FooterRetry(i)
    BY <1>3, <2>4, RetriedText
  <2> QED
    BY <1>4, <1>r, <2>2, <2>3, <2>4, RollSteps DEF Asking
<1>5. ASSUME NEW i \in Attempts, NEW stage, NEW row,
             run' = [run EXCEPT ![i].stage = stage, ![i].row = row]
      PROVE  Ok
  BY <1>5 DEF TypeOK, Run
<1>6. ASSUME NEW i \in Attempts, Continues(i) PROVE Ok
  <2>1. CASE \/ Check(i) \/ CompactOk(i) \/ Discarded(i) \/ Prepared(i) \/ ToolAnswers(i)
             \/ Finish(i) \/ Finalised(i) \/ Timer(i) \/ Failed(i) \/ DropReply(i)
             \/ Retract(i) \/ Resend(i)
    BY <1>2, <2>1 DEF Check, CompactOk, Discarded, Prepared, ToolAnswers, Finish, Finalised,
                      Timer, Failed, DropReply, Retract, Resend
  <2>2. CASE Post(i)
    BY <1>5, <2>2 DEF Post
  <2>3. CASE Locate(i)
    <3>1. ASSUME NEW row, NEW kind,
                 run' = [run EXCEPT ![i].stage = "located", ![i].row = row, ![i].kind = kind]
          PROVE  Ok
      BY <3>1 DEF TypeOK, Run
    <3> QED
      BY <1>2, <2>3, <3>1, LocatedReply
  <2>4. CASE Reroll(i)
    <3>1. \E stage : Becomes(i, stage)
      BY <2>4, Zenon DEF Reroll
    <3> QED
      BY <1>2, <3>1
  <2>5. CASE Greet(i)
    BY <1>2, <1>5, <2>5 DEF Greet
  <2>6. CASE Unwritten(i)
    BY <1>7, <2>6 DEF Unwritten
  <2> QED
    BY <1>6, <1>r, <2>1, <2>2, <2>3, <2>4, <2>5, <2>6, RollSteps DEF Continues
<1>8. ASSUME NEW i \in Attempts, Turns(i) PROVE Ok
  <2>1. CASE UseTool(i)
    BY <2>1 DEF UseTool, TypeOK, Run
  <2>2. CASE Compact(i) \/ CompactFails(i) \/ TakeToast(i) \/ ToastGone(i) \/ PrepFails(i)
    BY <1>2, <2>2 DEF Compact, CompactFails, TakeToast, ToastGone, PrepFails
  <2>3. CASE EditFails(i) \/ RetractFails(i) \/ FinishAborts(i)
    BY <1>2, <2>3 DEF EditFails, RetractFails, FinishAborts
  <2> QED
    BY <1>1, <1>7, <1>8, <2>1, <2>2, <2>3 DEF Turns, Describe, Chunk, UpstreamFails, FinaliseFails
<1>9. ASSUME Stop PROVE Ok
  BY <1>9 DEF Stop, TypeOK, Run
<1>10. ASSUME Reload PROVE Ok
  BY <1>10 DEF Reload, Unborn, TypeOK, Run
<1>11. ASSUME NEW i \in Attempts, AbortLands(i) PROVE Ok
  BY <1>7, <1>11 DEF AbortLands
<1>12. ASSUME FooterDiscard \/ UNCHANGED vars PROVE Ok
  BY <1>1, <1>12 DEF FooterDiscard, vars
<1> QED
  BY <1>4, <1>6, <1>8, <1>9, <1>10, <1>11, <1>12 DEF Next

-----------------------------------------------------------------------------
(* A greeting neither prepares nor uses tools: its stages are a straight line. *)
LEMMA BecomesStraight ==
  ASSUME TypeOK, OpenersGoStraight, NEW i \in Attempts, NEW stage, Becomes(i, stage),
         \/ run[i].kind # "opener"
         \/ stage \in {"streaming", "finalising", "done", "failing", "over"}
         \/ stage = "unwritten" /\ ~run[i].stopped
  PROVE  OpenersGoStraight'
BY DEF Becomes, OpenersGoStraight, TypeOK, Run

LEMMA AsksStraight ==
  ASSUME TypeOK, OpenersGoStraight, NEW i \in Attempts, NEW kind, NEW row, NEW text,
         NEW msg, NEW stage, Asks(i, kind, row, text, msg, stage),
         kind # "opener" \/ (row = 0 /\ stage = "asked")
  PROVE  OpenersGoStraight'
BY DEF Asks, Asked, Unborn, OpenersGoStraight, TypeOK, Run

LEMMA OpenersStayStraight ==
  ASSUME TypeOK, NamedRowsBegun, OpenersGoStraight, [Next]_vars
  PROVE  OpenersGoStraight'
<1> DEFINE Ok == OpenersGoStraight'
<1>1. ASSUME UNCHANGED run PROVE Ok
  BY <1>1 DEF OpenersGoStraight
<1>2. Live => handle.owner \in Attempts /\ run[handle.owner].stage # "asked"
  BY DEF NamedRowsBegun, Owing, OnItsWay
<1>r. ASSUME NEW i \in Attempts, Rolls(i) PROVE Ok
  <2>1. PICK row : Rerolls(i, row)
    BY <1>r DEF Rolls
  <2>2. CASE Discards(i, row)
    <3>1. ASSUME NEW j \in Attempts, run'[j].kind = "opener"
          PROVE  /\ run[j].kind = "opener"
                 /\ run'[j].stage = run[j].stage /\ run'[j].row = run[j].row
                 /\ run'[j].stopped \in {run[j].stopped, run[j].stage # "unwritten"}
                 /\ run'[j].stage = "asked" => run'[j].stopped = run[j].stopped
      <4>1. CASE j = i
        BY <2>2, <3>1, <4>1 DEF Discards, Asked, Unborn, TypeOK
      <4>2. CASE j # i /\ j = handle.owner
        <5>1. run'[j] = [run[j] EXCEPT !.stopped = Heeds(j)] /\ run[j].stage # "asked"
          BY <1>2, <2>2, <4>2 DEF Discards, TypeOK
        <5>2. run[j] \in Run
          BY DEF TypeOK
        <5> QED
          BY <3>1, <5>1, <5>2 DEF Heeds, Run
      <4>3. CASE j # i /\ j # handle.owner
        <5>1. run'[j] = run[j]
          BY <2>2, <4>3 DEF Discards, TypeOK
        <5> QED
          BY <3>1, <5>1
      <4> QED
        BY <4>1, <4>2, <4>3
    <3> QED
      BY <3>1 DEF OpenersGoStraight
  <2>3. CASE run' = [run EXCEPT ![i] = Asked("reroll", row, 0, 0, "asked")]
    BY <2>3 DEF Asked, Unborn, OpenersGoStraight, TypeOK, Run
  <2> QED
    BY <2>1, <2>2, <2>3 DEF Rerolls
<1>3. ASSUME NEW i \in Attempts, Asking(i) PROVE Ok
  <2>3. CASE Send(i) \/ StartOpener(i)
    BY <2>3, AsksStraight DEF Send, StartOpener
  <2>4. CASE EditReplace(i)
    BY <2>4, EditedMessage, AsksStraight
  <2>5. CASE FooterRetry(i)
    BY <2>5, RetriedText, AsksStraight
  <2> QED
    BY <1>3, <1>r, <2>3, <2>4, <2>5, RollSteps DEF Asking
<1>4. \A i \in Attempts : run[i].kind = "opener" =>
        run[i].stage \in {"asked", "streaming", "finalising", "unwritten", "done", "failing",
                          "over"}
  BY DEF OpenersGoStraight
<1>6. ASSUME NEW i \in Attempts, Rejected(i) PROVE Ok
  BY <1>6, BecomesStraight DEF Rejected
<1>5. ASSUME NEW i \in Attempts, Continues(i) PROVE Ok
  <2>1. CASE Check(i)
    BY <1>4, <2>1, BecomesStraight DEF Check
  <2>2. CASE CompactOk(i) \/ Discarded(i) \/ Prepared(i) \/ ToolAnswers(i)
    BY <1>4, <2>2, BecomesStraight DEF CompactOk, Discarded, Prepared, ToolAnswers
  <2>3. CASE Finish(i) \/ Finalised(i) \/ Timer(i) \/ Failed(i)
    BY <2>3, BecomesStraight DEF Finish, Finalised, Timer, Failed
  <2>4. CASE Post(i)
    BY <1>4, <2>4 DEF Post, OpenersGoStraight, TypeOK, Run
  <2>5. CASE Locate(i)
    <3>1. CASE Becomes(i, "over")
      BY <3>1, BecomesStraight
    <3>2. ASSUME NEW row, NEW kind \in {"regreet", "reroll"},
                 run' = [run EXCEPT ![i].stage = "located", ![i].row = row, ![i].kind = kind]
          PROVE  Ok
      BY <3>2 DEF OpenersGoStraight, TypeOK, Run
    <3> QED
      BY <2>5, <3>1, <3>2, LocatedReply
  <2>6. CASE Reroll(i)
    <3>1. \E stage : Becomes(i, stage)
      BY <2>6, Zenon DEF Reroll
    <3>2. run[i].kind # "opener"
      BY <1>4, <2>6 DEF Reroll
    <3> QED
      BY <3>1, <3>2, BecomesStraight
  <2>7. CASE Greet(i)
    <3>1. CASE Becomes(i, "over")
      BY <3>1, BecomesStraight
    <3>2. CASE run' = [run EXCEPT ![i].stage = "streaming", ![i].row = NextRow]
      BY <3>2 DEF OpenersGoStraight, TypeOK, Run
    <3> QED
      BY <2>7, <3>1, <3>2 DEF Greet
  <2>8. CASE DropReply(i) \/ Retract(i) \/ Resend(i)
    BY <1>4, <2>8, BecomesStraight DEF DropReply, Retract, Resend
  <2>9. CASE Unwritten(i)
    BY <1>6, <2>9 DEF Unwritten
  <2> QED
    BY <1>5, <1>r, <2>1, <2>2, <2>3, <2>4, <2>5, <2>6, <2>7, <2>8, <2>9, RollSteps
       DEF Continues
<1>7. ASSUME NEW i \in Attempts, Turns(i), Settled PROVE Ok
  <2>1. CASE Compact(i) \/ CompactFails(i) \/ TakeToast(i) \/ ToastGone(i) \/ PrepFails(i)
    BY <1>4, <2>1, BecomesStraight DEF Compact, CompactFails, TakeToast, ToastGone, PrepFails
  <2>2. CASE UseTool(i)
    BY <2>2 DEF UseTool, IsGreeting, OpenersGoStraight, TypeOK, Run
  <2>3. CASE EditFails(i)
    BY <1>4, <2>3, BecomesStraight DEF EditFails
  <2>4. CASE RetractFails(i)
    BY <1>4, <2>4, BecomesStraight DEF RetractFails
  <2>5. CASE FinishAborts(i)
    <3>1. ~run[i].stopped
      BY <1>7, <2>5 DEF FinishAborts, Settled, Rejects
    <3> QED
      BY <2>5, <3>1, BecomesStraight DEF FinishAborts
  <2> QED
    BY <1>1, <1>6, <1>7, <2>1, <2>2, <2>3, <2>4, <2>5
       DEF Turns, Describe, Chunk, UpstreamFails, FinaliseFails
<1>8. ASSUME Stop PROVE Ok
  <2>1. ASSUME NEW j \in Attempts, run'[j].kind = "opener"
        PROVE  /\ run[j].kind = "opener"
               /\ run'[j].stage = run[j].stage /\ run'[j].row = run[j].row
               /\ run'[j].stopped \in {run[j].stopped, run[j].stage # "unwritten"}
               /\ run'[j].stage = "asked" => run'[j].stopped = run[j].stopped
    BY <1>2, <1>8, <2>1 DEF Stop, Heeds, TypeOK, Run
  <2> QED
    BY <2>1 DEF OpenersGoStraight
<1>9. ASSUME Reload PROVE Ok
  BY <1>9 DEF Reload, Unborn, OpenersGoStraight, TypeOK, Run
<1>10. ASSUME NEW i \in Attempts, AbortLands(i) PROVE Ok
  BY <1>6, <1>10 DEF AbortLands
<1>11. ASSUME FooterDiscard \/ UNCHANGED vars PROVE Ok
  BY <1>1, <1>11 DEF FooterDiscard, vars
<1> QED
  BY <1>3, <1>5, <1>7, <1>8, <1>9, <1>10, <1>11 DEF Next

(* The row of a greeting that has the handle is not one the user stopped at.   *)
LEMMA OpenersStayUnkept ==
  ASSUME IndInv, [Next]_vars
  PROVE  OpenersNotKept'
<1> USE DEF IndInv
<1>1. SUFFICES ASSUME NEW j \in Attempts, run'[j].kind = "opener", Live', handle'.owner = j
               PROVE  /\ ~handle'.reused /\ handle'.row = run'[j].row
                      /\ run'[j].row \notin kept'
  BY DEF OpenersNotKept
<1>2. kept' \subseteq kept
  BY <1>1, KeptSteps DEF Live
<1>3. ASSUME Live, handle'.owner = handle.owner, handle'.row = handle.row,
             handle'.reused = handle.reused
      PROVE  /\ ~handle'.reused /\ handle'.row = run'[j].row /\ run'[j].row \notin kept'
  <2>1. run'[j].row = run[j].row /\ run[j].kind = "opener"
    BY <1>1, <1>3, RowsOfRuns DEF SameRow, FindsRow, NamedRowsBegun
  <2> QED
    BY <1>1, <1>2, <1>3, <2>1 DEF OpenersNotKept
<1>4. CASE handle' = handle
  BY <1>1, <1>3, <1>4 DEF Live
<1>5. CASE Gathers
  BY <1>1, <1>3, <1>5 DEF Gathers, TypeOK, Handle
<1>6. CASE handle' # handle /\ ~Gathers
  <2>1. OpenersGoStraight'
    BY OpenersStayStraight
  <2>2. CASE Greet(j)
    <3>1. /\ Installed(j, NextRow, FALSE, TRUE)
          /\ run' = [run EXCEPT ![j].stage = "streaming", ![j].row = NextRow]
      BY <1>6, <2>2 DEF Greet
    <3>2. run'[j].row = NextRow
      BY <3>1 DEF TypeOK, Run
    <3>3. NextRow \notin kept
      BY <2>2, NextRowFree DEF Greet, Owing, OnItsWay, NamedRowsBegun
    <3> QED
      BY <1>2, <3>1, <3>2, <3>3 DEF Installed
  <2>3. CASE Post(j)
    <3>1. run'[j].stage = "preparing"
      BY <2>3 DEF Post, TypeOK, Run
    <3> QED
      BY <1>1, <2>1, <3>1 DEF OpenersGoStraight
  <2>4. CASE Reroll(j)
    <3>1. run[j].stage = "located" /\ run[j].kind = "opener"
      BY <1>1, <2>4, RowsOfRuns DEF Reroll, SameRow, FindsRow, Owing, OnItsWay
    <3> QED
      BY <3>1 DEF OpenersGoStraight
  <2> QED
    BY <1>1, <1>6, <2>2, <2>3, <2>4, InstallSteps DEF Live
<1> QED
  BY <1>4, <1>5, <1>6

-----------------------------------------------------------------------------
(* Only taking a row away makes it absent. *)
LEMMA PresentSteps ==
  ASSUME TypeOK, RowsInOrder, RowStep
  PROVE  \/ Present \subseteq Present'
         \/ \E r \in Begun : Cuts(r)
<1> USE DEF TypeOK, Row, Present
<1>1. ASSUME NEW r \in Present, Writes(r) \/ Completes(r) PROVE Present \subseteq Present'
  BY <1>1 DEF Writes, Completes, Content
<1>2. ASSUME NEW i \in Owing, NEW g \in BOOLEAN, Drafts(i, g) PROVE Present \subseteq Present'
  <2>1. NextRow \notin Begun
    BY NextRowFree
  <2> QED
    BY <1>2, <2>1 DEF Drafts, Drafted, NoRow, Begun
<1>3. CASE rows' = rows
  BY <1>3
<1> HIDE DEF TypeOK, Row, Present
<1> QED
  BY <1>1, <1>2, <1>3 DEF RowStep

LEMMA UpdateSpares ==
  ASSUME TypeOK, NEW state \in {"incomplete", "complete"}, NEW by, NEW whole, NEW r,
         rows' = Update(state, by, whole, r)
  PROVE  Present' = Present
<1>1. CASE r \in Present
  BY <1>1 DEF Update, Content, Present, TypeOK, Row
<1>2. CASE r \notin Present
  BY <1>2 DEF Update, Present
<1> QED
  BY <1>1, <1>2

LEMMA RemovedAbsent ==
  ASSUME TypeOK, NEW r, rows' = Removed(r)
  PROVE  Present' = Present \ {r}
BY DEF Removed, Content, Present, TypeOK, Row

(* A greeting whose stream was stopped has no row to withdraw when the         *)
(* rejection lands: the rejection is the next thing that happens.             *)
LEMMA RejectedOpenersStayGone ==
  ASSUME IndInv, [Next]_vars
  PROVE  RejectedOpenersGone'
<1> USE DEF IndInv
<1>1. SUFFICES ASSUME NEW j \in Attempts, run'[j].kind = "opener", Rejects(j)', Live'
               PROVE  run'[j].row \notin Present'
  BY DEF RejectedOpenersGone
<1>2. run'[j].stage = "streaming" /\ run'[j].stopped
  BY <1>1 DEF Rejects
<1>3. CASE Rejects(j)
  <2>1. run'[j].row = run[j].row /\ run[j].kind = "opener"
    BY <1>1, <1>3, RowsOfRuns DEF SameRow, FindsRow, Rejects, Owing, OnItsWay
  <2>2. ASSUME NEW i \in Attempts, AbortLands(i)
        PROVE  Present' \subseteq Present /\ handle' = handle
    <3>1. handle' = handle
      BY <2>2 DEF AbortLands, Rejected
    <3>2. \/ rows' = rows \/ rows' = Removed(run[i].row)
          \/ rows' = Partly(run[i].row, handle.buf)
      BY <2>2 DEF AbortLands, Rejected
    <3> QED
      BY <3>1, <3>2, UpdateSpares, RemovedAbsent DEF Partly, Present
  <2>3. CASE UNCHANGED vars
    BY <1>1, <1>3, <2>1, <2>3 DEF vars, RejectedOpenersGone, Live, Present
  <2>4. ~Settled
    BY <1>3 DEF Settled
  <2> QED
    BY <1>1, <1>3, <2>1, <2>2, <2>3, <2>4 DEF Next, RejectedOpenersGone, Live
<1>4. CASE ~Rejects(j)
  <2>1. Live => handle.owner \in Attempts /\ handle.owner \notin Owing
    BY DEF NamedRowsBegun
  <2>2. ASSUME NEW i \in Attempts, NEW stage, Becomes(i, stage)
        PROVE  stage = "streaming" /\ i = j
    BY <1>2, <1>4, <2>2 DEF Becomes, Rejects, TypeOK, Run
  <2>3. ASSUME NEW i \in Attempts, NEW kind, NEW row, NEW text, NEW msg,
               NEW stage \in {"asked", "editing", "retrying"}, Asks(i, kind, row, text, msg, stage)
        PROVE  FALSE
    BY <1>2, <1>4, <2>3 DEF Asks, Asked, Unborn, Rejects, TypeOK, Run
  <2>4. ASSUME UNCHANGED run PROVE FALSE
    BY <1>2, <1>4, <2>4 DEF Rejects
  <2>r. ASSUME NEW i \in Attempts, Rolls(i) PROVE run'[j].row \notin Present'
    <3>1. PICK row : Rerolls(i, row)
      BY <2>r DEF Rolls
    <3>2. CASE Discards(i, row)
      <4>1. j = handle.owner /\ Live
        BY <1>2, <1>4, <3>2 DEF Discards, Asked, Unborn, Rejects, TypeOK, Run
      <4>2. run'[j].row = run[j].row /\ run[j].kind = "opener"
        BY <1>1, <2>1, <4>1, RowsOfRuns DEF SameRow, FindsRow
      <4>3. ~handle.reused /\ handle.row = run[j].row
        BY <4>1, <4>2 DEF OpenersNotKept
      <4>4. rows' = Removed(handle.row)
        BY <3>2, <4>3 DEF Discards
      <4> QED
        BY <4>2, <4>3, <4>4, RemovedAbsent
    <3>3. CASE run' = [run EXCEPT ![i] = Asked("reroll", row, 0, 0, "asked")]
      BY <1>2, <1>4, <3>3 DEF Asked, Unborn, Rejects, TypeOK, Run
    <3> QED
      BY <3>1, <3>2, <3>3 DEF Rerolls
  <2>5. ASSUME NEW i \in Attempts, Asking(i) PROVE run'[j].row \notin Present'
    <3>2. CASE Send(i) \/ StartOpener(i)
      BY <2>3, <3>2 DEF Send, StartOpener
    <3>3. CASE EditReplace(i)
      BY <2>3, <3>3, EditedMessage
    <3>4. CASE FooterRetry(i)
      BY <2>3, <3>4, RetriedText
    <3> QED
      BY <2>5, <2>r, <3>2, <3>3, <3>4, RollSteps DEF Asking
  <2>8. ASSUME NEW i \in Attempts, Rejected(i) PROVE FALSE
    BY <2>2, <2>8 DEF Rejected
  <2>6. run[j].stage \notin {"preparing", "tool", "located"}
    BY <1>1, RowsOfRuns DEF SameRow, FindsRow, Owing, OnItsWay, OpenersGoStraight
  <2>7. ASSUME NEW i \in Attempts, Continues(i) PROVE run'[j].row \notin Present'
    <3>1. CASE \/ Check(i) \/ CompactOk(i) \/ Discarded(i) \/ Finish(i) \/ Finalised(i)
               \/ Timer(i) \/ Failed(i) \/ DropReply(i) \/ Retract(i) \/ Resend(i)
      BY <2>2, <2>4, <3>1 DEF Check, CompactOk, Discarded, Finish, Finalised, Timer, Failed,
                              DropReply, Retract, Resend
    <3>2. CASE Prepared(i) \/ ToolAnswers(i)
      BY <2>2, <2>6, <3>2 DEF Prepared, ToolAnswers
    <3>3. CASE Post(i)
      BY <1>2, <1>4, <3>3 DEF Post, Rejects, TypeOK, Run
    <3>4. CASE Locate(i)
      <4>1. ASSUME NEW row, NEW kind,
                   run' = [run EXCEPT ![i].stage = "located", ![i].row = row, ![i].kind = kind]
            PROVE  FALSE
        BY <1>2, <1>4, <4>1 DEF Rejects, TypeOK, Run
      <4>2. ~Becomes(i, "over")
        BY <2>2
      <4> QED
        BY <3>4, <4>1, <4>2, LocatedReply
    <3>5. CASE Reroll(i)
      <4>1. \E stage : Becomes(i, stage)
        BY <3>5, Zenon DEF Reroll
      <4> QED
        BY <2>2, <2>6, <3>5, <4>1 DEF Reroll
    <3>6. CASE Greet(i)
      <4>1. run' = [run EXCEPT ![i].stage = "streaming", ![i].row = NextRow]
        <5>1. ~Becomes(i, "over")
          BY <2>2
        <5> QED
          BY <3>6, <5>1 DEF Greet
      <4>2. ~run[i].stopped
        BY <3>6 DEF Greet, OpenersGoStraight
      <4> QED
        BY <1>2, <1>4, <4>1, <4>2 DEF Rejects, TypeOK, Run
    <3>7. CASE Unwritten(i)
      BY <2>8, <3>7 DEF Unwritten
    <3> QED
      BY <2>7, <2>r, <3>1, <3>2, <3>3, <3>4, <3>5, <3>6, <3>7, RollSteps DEF Continues
  <2>9. ASSUME NEW i \in Attempts, Turns(i) PROVE FALSE
    <3>1. CASE \/ Compact(i) \/ CompactFails(i) \/ TakeToast(i) \/ ToastGone(i)
               \/ PrepFails(i)
      BY <2>2, <3>1 DEF Compact, CompactFails, TakeToast, ToastGone, PrepFails
    <3>2. CASE UseTool(i)
      BY <1>2, <1>4, <3>2 DEF UseTool, Rejects, TypeOK, Run
    <3>3. CASE EditFails(i) \/ RetractFails(i) \/ FinishAborts(i)
      BY <2>2, <3>3 DEF EditFails, RetractFails, FinishAborts
    <3> QED
      BY <2>4, <2>8, <2>9, <3>1, <3>2, <3>3
         DEF Turns, Describe, Chunk, UpstreamFails, FinaliseFails
  <2>10. ASSUME Stop PROVE FALSE
    BY <1>1, <2>10 DEF Stop, HandleAfterStop, Live
  <2>11. ASSUME Reload PROVE FALSE
    BY <1>1, <2>11 DEF Reload, Live
  <2>12. ASSUME FooterDiscard \/ UNCHANGED vars PROVE FALSE
    BY <2>4, <2>12 DEF FooterDiscard, vars
  <2>13. ASSUME NEW i \in Attempts, AbortLands(i) PROVE FALSE
    BY <2>8, <2>13 DEF AbortLands
  <2> QED
    BY <2>5, <2>7, <2>9, <2>10, <2>11, <2>12, <2>13 DEF Next
<1> QED
  BY <1>3, <1>4

(* What is kept goes only with the user's consent, or with the failure of an   *)
(* older greeting stream that was never stopped.                              *)
LEMMA KeptStaysPresent ==
  ASSUME IndInv, [Next]_vars
  PROVE  PreservedIsKept'
<1> USE DEF IndInv
<1> DEFINE Excused(r) == \E i \in Attempts :
                           run[i].kind = "opener" /\ run[i].row = r /\ ~run[i].stopped
<1>1. RowStep /\ kept \subseteq Begun
  BY RowSteps DEF NamedRowsBegun
<1>2. ASSUME NEW r \in kept' \ Present', r \notin kept PROVE FALSE
  <2>1. Stop /\ r = handle.row /\ r \in Present
    BY <1>2, KeptSteps
  <2>2. Present' = Present
    BY <2>1, UpdateSpares DEF Stop, Partly
  <2> QED
    BY <1>2, <2>1, <2>2
(* An excuse lasts: a stream that could be stopped has a row that is not kept. *)
<1>3. ASSUME NEW r \in kept, Excused(r) PROVE Excused(r)'
  <2>1. PICK i \in Attempts : run[i].kind = "opener" /\ run[i].row = r /\ ~run[i].stopped
    BY <1>3
  <2>2. r # 0 /\ i \notin Owing
    BY <1>1, <2>1, StreamAssumption DEF Begun, Attempts, OpenersGoStraight, Owing, OnItsWay
  <2>3. run'[i].kind = "opener" /\ run'[i].row = r
    BY <2>1, <2>2, RowsOfRuns DEF SameRow, FindsRow
  <2>4. ~(Live /\ handle.owner = i)
    BY <1>3, <2>1 DEF OpenersNotKept
  <2>5. ~run'[i].stopped
    BY <2>1, <2>2, <2>4, OnlyOwnersStopped
  <2> QED
    BY <2>3, <2>5
<1>4. ASSUME NEW r \in kept' \cap kept, r \in Present, r \notin Present' PROVE Excused(r)'
  <2>1. ASSUME NEW i \in Attempts, AbortLands(i) PROVE FALSE
    <3>1. CASE rows' = rows
      BY <1>4, <3>1 DEF Present
    <3>2. CASE rows' = Removed(run[i].row) /\ run[i].kind = "opener" /\ Live
      <4>1. run[i].row \notin Present
        BY <2>1, <3>2 DEF AbortLands, RejectedOpenersGone
      <4> QED
        BY <1>4, <3>2, <4>1, RemovedAbsent
    <3>3. CASE rows' = Partly(run[i].row, handle.buf)
      BY <1>4, <3>3, UpdateSpares DEF Partly
    <3> QED
      BY <2>1, <3>1, <3>2, <3>3 DEF AbortLands, Rejected
  <2>2. ASSUME NEW i \in Attempts, Rejected(i), run[i].kind = "opener" => ~run[i].stopped
        PROVE  Excused(r)'
    <3>1. CASE rows' = rows
      BY <1>4, <3>1 DEF Present
    <3>2. CASE rows' = Removed(run[i].row) /\ run[i].kind = "opener"
      <4>1. r = run[i].row
        BY <1>4, <3>2, RemovedAbsent
      <4>2. Excused(r)
        BY <2>2, <3>2, <4>1
      <4> QED
        BY <1>3, <1>4, <4>2
    <3>3. CASE rows' = Partly(run[i].row, handle.buf)
      BY <1>4, <3>3, UpdateSpares DEF Partly
    <3> QED
      BY <2>2, <3>1, <3>2, <3>3 DEF Rejected
  <2>r. ASSUME NEW i \in Attempts, Rolls(i) PROVE FALSE
    <3>1. PICK row : Rerolls(i, row)
      BY <2>r DEF Rolls
    <3>2. CASE rows' = rows
      BY <1>4, <3>2 DEF Present
    <3>3. CASE Discards(i, row)
      <4>1. CASE handle.reused
        BY <1>4, <3>3, <4>1, UpdateSpares DEF Discards, Partly
      <4>2. CASE ~handle.reused
        BY <1>4, <3>3, <4>2, RemovedAbsent DEF Discards
      <4> QED
        BY <4>1, <4>2
    <3> QED
      BY <3>1, <3>2, <3>3 DEF Rerolls
  <2>3. ASSUME NEW i \in Attempts, Asking(i) PROVE FALSE
    <3>1. CASE rows' = rows
      BY <1>4, <3>1 DEF Present
    <3> QED
      BY <2>3, <2>r, <3>1, RollSteps DEF Asking, Send, EditReplace, StartOpener, FooterRetry
  <2>4. ASSUME NEW i \in Attempts, Continues(i) PROVE Excused(r)'
    <3>1. CASE rows' = rows
      BY <1>4, <3>1 DEF Present
    <3>2. ASSUME NEW s, rows' = Cleared(s) PROVE FALSE
      BY <1>4, <3>2, UpdateSpares DEF Cleared
    <3>3. ASSUME rows' = FromEngine(i) PROVE FALSE
      BY <1>4, <3>3, UpdateSpares DEF FromEngine
    <3>4. ASSUME NEW greeting, rows' = Drafted(NextRow, greeting), i \in Owing PROVE FALSE
      <4>1. NextRow \notin Begun
        BY <3>4, NextRowFree
      <4> QED
        BY <1>4, <3>4, <4>1, PresentBegun DEF Drafted, Present, TypeOK, Row
    <3>5. CASE Post(i)
      BY <3>4, <3>5 DEF Post, Owing, OnItsWay
    <3>6. CASE Greet(i)
      BY <3>1, <3>4, <3>6 DEF Greet, Owing, OnItsWay
    <3>7. CASE Reroll(i) \/ Finish(i)
      BY <3>1, <3>2, <3>3, <3>7 DEF Reroll, Finish
    <3>8. CASE \/ Check(i) \/ CompactOk(i) \/ Discarded(i) \/ Locate(i) \/ Prepared(i)
               \/ ToolAnswers(i) \/ Finalised(i) \/ Timer(i) \/ Failed(i) \/ Retract(i)
               \/ Resend(i)
      BY <3>1, <3>8 DEF Check, CompactOk, Discarded, Locate, Prepared, ToolAnswers, Finalised,
                        Timer, Failed, Retract, Resend
    <3>9. CASE DropReply(i)
      BY <1>4, <3>9, RemovedAbsent DEF DropReply
    <3>10. CASE Unwritten(i)
      BY <2>2, <3>10 DEF Unwritten, OpenersGoStraight
    <3> QED
      BY <2>4, <2>r, <3>5, <3>6, <3>7, <3>8, <3>9, <3>10, RollSteps DEF Continues
  <2>5. ASSUME NEW i \in Attempts, Turns(i), Settled PROVE Excused(r)'
    <3>1. rows' # rows
      BY <1>4 DEF Present
    <3>2. CASE UpstreamFails(i)
      BY <2>2, <2>5, <3>2 DEF UpstreamFails, Settled, Rejects
    <3>3. CASE FinaliseFails(i)
      BY <2>2, <3>3 DEF FinaliseFails, IsGreeting
    <3> QED
      BY <2>5, <3>1, <3>2, <3>3
         DEF Turns, Compact, CompactFails, TakeToast, ToastGone, Describe, PrepFails, Chunk,
             UseTool, EditFails, RetractFails, FinishAborts
  <2>6. ASSUME Stop PROVE FALSE
    BY <1>4, <2>6, UpdateSpares DEF Stop, Partly
  <2>7. ASSUME FooterDiscard PROVE FALSE
    BY <1>4, <2>7, RemovedAbsent DEF FooterDiscard
  <2>8. ASSUME Reload \/ UNCHANGED vars PROVE FALSE
    BY <1>4, <2>8 DEF Reload, vars, Present
  <2> QED
    BY <2>1, <2>3, <2>4, <2>5, <2>6, <2>7, <2>8 DEF Next
<1>5. ASSUME NEW r \in kept' \ Present' PROVE Excused(r)'
  <2>1. CASE r \notin kept
    BY <1>2, <1>5, <2>1
  <2>2. CASE r \in kept /\ r \in Present
    BY <1>4, <1>5, <2>2
  <2>3. CASE r \in kept /\ r \notin Present
    <3>1. Excused(r)
      BY <2>3 DEF PreservedIsKept
    <3> QED
      BY <1>3, <2>3, <3>1
  <2> QED
    BY <2>1, <2>2, <2>3
<1> QED
  BY <1>5 DEF PreservedIsKept

-----------------------------------------------------------------------------
LEMMA InitHolds == Init => IndInv
<1> SUFFICES ASSUME Init PROVE IndInv
  OBVIOUS
<1>1. PICK p \in 0 .. Earlier :
        /\ rows = [r \in Attempts |-> IF r \in 1 .. p THEN Answered(r) ELSE NoRow]
        /\ users = [r \in Attempts |-> IF r \in 1 .. p THEN r ELSE 0]
        /\ openerPending \in BOOLEAN
  <2>1. 1 .. 0 = {} /\ Earlier \in 0 .. Earlier /\ 0 \in 0 .. Earlier
    BY StreamAssumption
  <2> QED
    BY <2>1 DEF Init
<1>2. rows \in [Attempts -> Row] /\ users \in [Attempts -> {0} \cup Attempts]
  BY <1>1 DEF Answered, Row, NoRow
<1>3. handle \in Handle /\ ~Live /\ kept = {} /\ faults = 0
  BY DEF Init, Live, Handle, NoHandle
<1>4. ASSUME NEW i \in Attempts
      PROVE  run[i] \in Run /\ run[i].row = 0 /\ run[i].kind = "send"
             /\ run[i].stage = IF i <= Earlier THEN "over" ELSE "unborn"
  <2>1. 0 \in 0 .. MaxRounds /\ "send" \in Kinds /\ {"unborn", "over"} \subseteq Stages
    BY StreamAssumption DEF Kinds, Stages
  <2> QED
    BY <2>1 DEF Init, Unborn, Run
<1>5. TypeOK
  <2>1. run \in [Attempts -> Run]
    BY <1>4 DEF Init
  <2> QED
    BY <1>1, <1>2, <1>3, <2>1, StreamAssumption DEF TypeOK
<1>6. Begun = 1 .. p /\ Owing = Earlier + 1 .. MaxAttempts
  <2>1. Begun = 1 .. p
    BY <1>1, StreamAssumption DEF Begun, Answered, NoRow, Attempts
  <2>2. \A i \in Attempts : i \in Owing <=> i > Earlier
    BY <1>4, StreamAssumption DEF Attempts, Owing, OnItsWay
  <2> QED
    BY <2>1, <2>2, StreamAssumption DEF Attempts, Owing
<1>7. RowsInOrder
  <2>1. \A n \in Nat : Cardinality(1 .. n) = n
    BY FS_Interval
  <2>2. Cardinality(Owing) = MaxAttempts - Earlier
    <3>1. CASE Earlier = MaxAttempts
      <4>1. Owing = {}
        BY <1>6, <3>1, StreamAssumption
      <4> QED
        BY <3>1, <4>1, FS_EmptySet, StreamAssumption
    <3>2. CASE Earlier < MaxAttempts
      <4>1. Earlier + 1 \in Int /\ MaxAttempts \in Int /\ Earlier + 1 <= MaxAttempts
        BY <3>2, StreamAssumption
      <4>2. Cardinality(Earlier + 1 .. MaxAttempts) = MaxAttempts - (Earlier + 1) + 1
        BY <4>1, FS_Interval
      <4> QED
        BY <1>6, <4>1, <4>2, StreamAssumption
    <3> QED
      BY <3>1, <3>2, StreamAssumption
  <2> QED
    BY <1>6, <2>1, <2>2, StreamAssumption DEF RowsInOrder
<1>8. NamedRowsBegun /\ OpenersGoStraight
  BY <1>3, <1>4 DEF NamedRowsBegun, OpenersGoStraight
<1>9. Greetings = {}
  BY <1>1 DEF Greetings, Present, Answered, NoRow
<1>10. OneGreeting /\ PreservedIsKept /\ OpenersNotKept /\ RejectedOpenersGone
  BY <1>3, <1>9 DEF OneGreeting, PreservedIsKept, OpenersNotKept, RejectedOpenersGone
<1>11. CompleteIsWhole
  BY <1>1, FS_Singleton DEF CompleteIsWhole, Answered, NoRow
<1> QED
  BY <1>5, <1>7, <1>8, <1>10, <1>11 DEF IndInv

LEMMA StepHolds == IndInv /\ [Next]_vars => IndInv'
<1> SUFFICES ASSUME IndInv, [Next]_vars PROVE IndInv'
  OBVIOUS
<1>1. TypeOK /\ RowsInOrder /\ NamedRowsBegun /\ OneGreeting /\ CompleteIsWhole
        /\ OpenersGoStraight
  BY DEF IndInv
<1>2. RowStep
  BY <1>1, RowSteps
<1>3. TypeOK' /\ RowsInOrder' /\ NamedRowsBegun'
  BY <1>1, <1>2, TypeKept, OwingShrinks, OrderKept, NamedRowsKept
<1>4. OneGreeting' /\ CompleteIsWhole'
  BY <1>1, <1>2, OneGreetingKept, WholeKept
<1>5. OpenersGoStraight' /\ OpenersNotKept' /\ RejectedOpenersGone'
  BY <1>1, OpenersStayStraight, OpenersStayUnkept, RejectedOpenersStayGone
<1>6. PreservedIsKept'
  BY KeptStaysPresent
<1> QED
  BY <1>3, <1>4, <1>5, <1>6 DEF IndInv

(* The inductive invariant: rows in order, one row for every attempt that may  *)
(* need one, handles and attempts that name rows which exist, and greetings   *)
(* whose stream cannot withdraw what the user stopped.                        *)
THEOREM Invariance == Spec => []IndInv
BY InitHolds, StepHolds, PTL DEF Spec

(* However many requests for a greeting pass the first look at the chat        *)
(* (ChatView's effect, the Retry button), at most one greeting is written.    *)
THEOREM GreetedOnce == Spec => []OpenerOnce
<1>1. IndInv => OpenerOnce
  <2> SUFFICES ASSUME IndInv PROVE OpenerOnce
    OBVIOUS
  <2>1. \A r, s \in Greetings : r = s
    BY DEF IndInv, OneGreeting
  <2>2. Greetings = {} \/ \E r : Greetings = {r}
    BY <2>1
  <2>3. Cardinality(Greetings) \in {0, 1}
    BY <2>2, FS_EmptySet, FS_Singleton
  <2> QED
    BY <2>3 DEF OpenerOnce
<1> QED
  BY <1>1, Invariance, PTL

(* Whatever streams overlap in the handle of the chat, a row marked complete   *)
(* is the whole text of one stream (finalise stores the engine's text).       *)
THEOREM CompleteRowsWhole == Spec => []CompleteIsWhole
<1>1. IndInv => CompleteIsWhole
  BY DEF IndInv
<1> QED
  BY <1>1, Invariance, PTL

(* What the user stopped is not withdrawn by the rejection of the stopped      *)
(* stream (abortPreserve removes the handle before the rejection can land).   *)
THEOREM StoppedIsKept == Spec => []PreservedIsKept
<1>1. IndInv => PreservedIsKept
  BY DEF IndInv
<1> QED
  BY <1>1, Invariance, PTL

(* A message that was deleted is never written again: streams update rows and  *)
(* drafts take numbers no row has had.                                        *)
THEOREM DeletedStaysAway == Spec => DiscardedStaysGone
<1>1. ASSUME TypeOK, RowsInOrder, RowStep, NEW s \in Attempts, rows[s].state = "gone"
      PROVE  rows'[s].state = "gone"
  <2>1. CASE rows' = rows
    BY <1>1, <2>1
  <2>2. ASSUME NEW r \in Begun, Cuts(r) PROVE rows'[s].state = "gone"
    BY <1>1, <2>2 DEF Cuts, Removed, Content, TypeOK, Row
  <2>3. ASSUME NEW r \in Present, Writes(r) \/ Completes(r) PROVE rows'[s].state = "gone"
    <3>1. r # s
      BY <1>1 DEF Present
    <3> QED
      BY <1>1, <2>3, <3>1 DEF Writes, Completes, Content, TypeOK
  <2>4. ASSUME NEW i \in Owing, NEW g \in BOOLEAN, Drafts(i, g) PROVE rows'[s].state = "gone"
    <3>1. NextRow # s
      BY <1>1, NextRowFree DEF Begun
    <3> QED
      BY <1>1, <2>4, <3>1 DEF Drafts, Drafted, TypeOK
  <2> QED
    BY <1>1, <2>1, <2>2, <2>3, <2>4 DEF RowStep
<1>2. IndInv /\ [Next]_vars =>
        [\A r \in Attempts : rows[r].state = "gone" => rows'[r].state = "gone"]_vars
  BY <1>1, RowSteps DEF IndInv
<1> QED
  BY <1>2, Invariance, PTL DEF Spec, DiscardedStaysGone

(* A stream that ends well leaves the handle of its successor alone: the timer *)
(* of finalise compares the handle with its own.                              *)
THEOREM SuccessIsPrivate == Spec => SuccessSparesOthers
<1> DEFINE Spared == \A i \in Attempts :
                       Finishing(i) /\ Live /\ handle.owner # i /\ faults' = faults
                         => handle' = handle
<1>1. ASSUME TypeOK, [Next]_vars, NEW i \in Attempts, Finishing(i), Live, handle.owner # i,
             faults' = faults
      PROVE  handle' = handle
  <2>1. run[i].stage \in {"finalising", "done"} /\ run'[i].stage # run[i].stage
    BY <1>1 DEF Finishing
  <2>2. ASSUME NEW k \in Attempts, NEW stage, Becomes(k, stage) PROVE k = i
    BY <1>1, <2>1, <2>2 DEF Becomes, TypeOK, Run
  <2>3. ASSUME NEW k \in Attempts, NEW kind, NEW row, NEW text, NEW msg, NEW stage,
               Asks(k, kind, row, text, msg, stage)
        PROVE  FALSE
    BY <1>1, <2>1, <2>3 DEF Asks, NextAttempt, TypeOK, Run
  <2>r. ASSUME NEW k \in Attempts, Rolls(k) PROVE FALSE
    <3>1. k \in Owing /\ \E row : Rerolls(k, row)
      BY <2>r DEF Rolls
    <3>2. k # i
      BY <2>1, <3>1 DEF Owing, OnItsWay
    <3> QED
      BY <1>1, <2>1, <3>1, <3>2 DEF Rerolls, Discards, TypeOK, Run
  <2>4. ASSUME NEW k \in Attempts, Asking(k) PROVE FALSE
    <3>2. CASE Send(k) \/ StartOpener(k)
      BY <2>3, <3>2 DEF Send, StartOpener
    <3>3. CASE EditReplace(k)
      BY <2>3, <3>3, EditedMessage
    <3>4. CASE FooterRetry(k)
      BY <1>1, <2>3, <3>4, RetriedText
    <3> QED
      BY <2>4, <2>r, <3>2, <3>3, <3>4, RollSteps DEF Asking
  <2>5. ASSUME NEW k \in Attempts, Continues(k) PROVE handle' = handle
    <3>1. CASE Finalised(k)
      BY <3>1 DEF Finalised
    <3>2. CASE Timer(k)
      BY <1>1, <2>2, <3>2 DEF Timer, OwnStream
    <3>3. CASE \/ Check(k) \/ CompactOk(k) \/ Locate(k) \/ Prepared(k) \/ ToolAnswers(k)
               \/ Finish(k) \/ DropReply(k) \/ Retract(k) \/ Resend(k) \/ Unwritten(k)
      BY <3>3 DEF Check, CompactOk, Locate, Prepared, ToolAnswers, Finish, DropReply, Retract,
                  Resend, Unwritten, Rejected
    <3>4. CASE Discarded(k) \/ Failed(k)
      BY <2>1, <2>2, <3>4 DEF Discarded, Failed
    <3>5. CASE Post(k)
      BY <1>1, <2>1, <3>5 DEF Post, TypeOK, Run
    <3>6. CASE Reroll(k)
      <4>1. \E stage : Becomes(k, stage)
        BY <3>6, Zenon DEF Reroll
      <4> QED
        BY <2>1, <2>2, <3>6, <4>1 DEF Reroll
    <3>7. CASE Greet(k)
      <4>1. CASE Becomes(k, "over")
        BY <2>1, <2>2, <3>7, <4>1 DEF Greet
      <4>2. CASE run' = [run EXCEPT ![k].stage = "streaming", ![k].row = NextRow]
        BY <1>1, <2>1, <3>7, <4>2 DEF Greet, TypeOK, Run
      <4> QED
        BY <3>7, <4>1, <4>2 DEF Greet
    <3> QED
      BY <2>5, <2>r, <3>1, <3>2, <3>3, <3>4, <3>5, <3>6, <3>7, RollSteps DEF Continues
  <2>6. ASSUME NEW k \in Attempts, Turns(k) \/ AbortLands(k) PROVE handle' = handle
    <3>1. CASE Describe(k) \/ Chunk(k)
      BY <2>1, <3>1 DEF Describe, Chunk
    <3> QED
      BY <2>6, <3>1 DEF Turns, Compact, CompactFails, TakeToast, ToastGone, PrepFails, UseTool,
                        UpstreamFails, EditFails, RetractFails, FinishAborts, FinaliseFails,
                        AbortLands, Rejected
  <2>7. ASSUME Stop PROVE FALSE
    BY <1>1, <2>1, <2>7 DEF Stop, TypeOK, Run
  <2>8. ASSUME Reload PROVE FALSE
    BY <1>1, <2>8 DEF Reload, TypeOK
  <2>9. ASSUME FooterDiscard \/ UNCHANGED vars PROVE handle' = handle
    BY <2>9 DEF FooterDiscard, vars
  <2> QED
    BY <1>1, <2>4, <2>5, <2>6, <2>7, <2>8, <2>9 DEF Next
<1>2. IndInv /\ [Next]_vars => [Spared]_vars
  BY <1>1 DEF IndInv
<1> QED
  BY <1>2, Invariance, PTL DEF Spec, SuccessSparesOthers
=============================================================================
