-------------------------- MODULE GrantLeaseProofs --------------------------
(***************************************************************************)
(* Theorems of GrantLease, for every set of devices and every number of      *)
(* pairs, sign-ins and upsets: who presents a refresh token, what is         *)
(* presented again, how the row moves, and which pair may be dropped.         *)
(***************************************************************************)
EXTENDS GrantLease, FiniteSetTheorems, TLAPS

-----------------------------------------------------------------------------
(* Types.                                                                    *)

(* A new sign-in has a number in range.                                        *)
LEMMA SignInTyped ==
  ASSUME GrantAssumption, TypeOK, SignInsNumbered
  PROVE  /\ 1 + Cardinality({family[q] : q \in Issued}) \in Nat
         /\ \A q \in Issued : family[q] \in 1 .. Cardinality({family[x] : x \in Issued})
<1>1. PICK n \in 0 .. 1 + MaxSignIns : {family[q] : q \in Issued} = 1 .. n
  BY DEF SignInsNumbered
<1>2. n \in Nat
  BY DEF GrantAssumption
<1>3. Cardinality(1 .. n) = n
  BY <1>2, FS_Interval
<1>4. \A q \in Issued : family[q] \in 1 .. n
  BY <1>1
<1>5. Cardinality({family[q] : q \in Issued}) = n
  BY <1>1, <1>3
<1>6. 1 + n \in Nat
  BY <1>2
<1> QED
  BY <1>4, <1>5, <1>6

(* Whoever holds a claim holds a token that was issued.                        *)
TokensHeld == \A d \in Devices : Holder(d) => Token(d) \in Pairs /\ family[Token(d)] # 0

(* Every step keeps the types, if holders hold issued tokens.                   *)
LEMMA Stepped ==
  ASSUME GrantAssumption, TypeOK, TokensHeld, SignInsNumbered, Next
  PROVE  TypeOK'
<1> USE GrantAssumption
<1>10. /\ \A d \in Devices : rows[d] \in Row /\ calls[d] \in Call
       /\ Empty \in Content /\ Nothing \in Pending /\ Idle \in Call /\ NoRow \in Row
       /\ server \in Record
  BY DEF TypeOK, Row, Call, Empty, Nothing, Idle, NoRow, Content, Pending, GrantAssumption
<1>11. ASSUME NEW base \in Nat, NEW is \in Content, Write(base, is)
       PROVE  server' \in Record
  <2>1. server.rev \in Nat /\ server.rev + 1 \in Nat
    BY <1>10 DEF Record
  <2> QED
    BY <1>11, <1>10, <2>1 DEF Write, Record
<1>12. ASSUME NEW r \in Row, NEW rev \in Nat, NEW is \in Content
       PROVE  Adopted(r, rev, is) \in Row
  BY <1>12 DEF Adopted, Row
<1>13. ASSUME NEW at \in Awaits, NEW base \in Nat, NEW is \in Content
       PROVE  Pushing(at, base, is) \in Call
  BY <1>13, <1>10 DEF Pushing, Call, Idle
<1>14. ASSUME NEW d \in Devices, NEW c \in Call, calls' = [calls EXCEPT ![d] = c]
       PROVE  calls' \in [Devices -> Call]
  BY <1>14 DEF TypeOK
<1>15. ASSUME NEW d \in Devices, NEW r \in Row, rows' = [rows EXCEPT ![d] = r]
       PROVE  rows' \in [Devices -> Row]
  BY <1>15 DEF TypeOK
<1>16. ASSUME NEW t \in Pairs, NEW p \in Pairs, Rotated(t, p)
       PROVE  next' \in [Pairs -> 0 .. MaxPairs] /\ family' \in [Pairs -> 0 .. 1 + MaxSignIns]
  BY <1>16 DEF Rotated, Pairs, TypeOK
<1>20. ASSUME NEW d \in Devices, Serve(d) PROVE TypeOK'
  <2>1. /\ calls[d].base \in Nat /\ calls[d].is \in Content
        /\ server.is \in Content /\ server.rev \in Nat
    BY <1>20, <1>10 DEF Call, Record, TypeOK
  <2>2. server' \in Record
    BY <1>20, <1>10, <1>11, <2>1 DEF Serve, TypeOK
  <2>3. Result(calls[d].base) \in {"ok", "conflict", "tombstoned"}
    BY <1>20, <1>10 DEF Result, TypeOK
  <2>4. [calls[d] EXCEPT !.answer = Result(calls[d].base),
          !.base = IF Result(calls[d].base) = "conflict" THEN server.rev ELSE @,
          !.is = IF Result(calls[d].base) = "conflict" THEN server.is ELSE @] \in Call
    BY <1>20, <1>10, <2>1, <2>3 DEF Call, TypeOK
  <2>5. calls' \in [Devices -> Call]
    BY <1>20, <1>10, <1>14, <2>4 DEF Serve, TypeOK
  <2>6. TakenOver(calls[d].at, calls[d].base) \subseteq 0 .. MaxPairs
    BY <1>20, <1>10, <2>1 DEF TakenOver, Content, TypeOK
  <2> QED
    BY <1>20, <2>1, <2>2, <2>3, <2>4, <2>5, <2>6 DEF Serve, deviceVars, authVars, TypeOK
<1>21. ASSUME NEW d \in Devices, LosePush(d) PROVE TypeOK'
  <2>1. calls' \in [Devices -> Call]
    BY <1>21, <1>10 DEF LosePush, Call, TypeOK
  <2>2. \A s \in strays' : s.at \in Awaits /\ s.base \in Nat /\ s.is \in Content
    BY <1>21, <1>10 DEF LosePush, Call, TypeOK
  <2> QED
    BY <1>21, <2>1, <2>2 DEF LosePush, Upset, deviceVars, authVars, TypeOK
<1>22. ASSUME NEW s \in strays, ArriveLate(s) PROVE TypeOK'
  <2>1. s.at \in Awaits /\ s.base \in Nat /\ s.is \in Content
    BY <1>22, <1>10 DEF Row, TypeOK
  <2>2. server' \in Record
    BY <1>22, <1>10, <1>11, <2>1 DEF ArriveLate, TypeOK
  <2>3. TakenOver(s.at, s.base) \subseteq 0 .. MaxPairs
    BY <1>22, <1>10 DEF TakenOver, Content, Record, TypeOK
  <2> QED
    BY <1>22, <2>1, <2>2, <2>3 DEF ArriveLate, deviceVars, authVars, TypeOK
<1>23. ASSUME NEW d \in Devices, Pull(d) PROVE TypeOK'
  <2>1. server.rev \in Nat /\ server.is \in Content
    BY <1>23, <1>10 DEF Record, TypeOK
  <2>2. rows' \in [Devices -> Row]
    BY <1>23, <1>10, <1>12, <1>15, <2>1 DEF Pull, TypeOK
  <2> QED
    BY <1>23, <2>1, <2>2 DEF Pull, deviceVars, authVars, TypeOK
<1>24. ASSUME NEW d \in Devices, Publish(d) PROVE TypeOK'
  <2>1. [tokens |-> rows[d].pending.pair, claim |-> None] \in Content /\ rows[d].pending \in Pending
        /\ rows[d].pending.base \in Nat /\ "publish" \in Awaits
    BY <1>24, <1>10 DEF Row, Pending, Content, Awaits, GrantAssumption, TypeOK
  <2>2. Pushing("publish", rows[d].pending.base, PublishedBody(rows[d])) \in Call
    BY <1>24, <1>10, <1>13, <2>1 DEF PublishedBody, TypeOK
  <2>3. [Pushing("publish", rows[d].pending.base, PublishedBody(rows[d]))
          EXCEPT !.held = rows[d].pending] \in Call
    BY <1>24, <1>10, <2>1, <2>2 DEF Call, TypeOK
  <2>4. calls' \in [Devices -> Call]
    BY <1>24, <1>10, <1>14, <2>3 DEF Publish, TypeOK
  <2> QED
    BY <1>24, <2>1, <2>2, <2>3, <2>4 DEF Publish, deviceVars, authVars, TypeOK
<1>25. ASSUME NEW d \in Devices, Watch(d) PROVE TypeOK'
  <2>1. rows' \in [Devices -> Row]
    BY <1>25, <1>10 DEF Watch, Row, TypeOK
  <2> QED
    BY <1>25, <2>1 DEF Watch, deviceVars, authVars, TypeOK
<1>26. ASSUME NEW d \in Devices, LeaseOver(d) PROVE TypeOK'
  <2>1. [rows[d] EXCEPT !.claim = "lapsed"] \in Row
    BY <1>26, <1>10 DEF Row, TypeOK
  <2>2. rows' = [rows EXCEPT ![d] = [rows[d] EXCEPT !.claim = "lapsed"]]
    BY <1>26, <1>10 DEF LeaseOver, TypeOK
  <2>3. rows' \in [Devices -> Row]
    BY <1>26, <1>10, <1>15, <2>1, <2>2 DEF Row, TypeOK
  <2>4. \A e \in Devices : [calls[e] EXCEPT !.late = @ \/ Overslept(e, rows[d].rev)] \in Call
    BY <1>26, <1>10 DEF Overslept, Call, TypeOK
  <2>5. calls' = [e \in Devices |-> [calls[e] EXCEPT !.late = @ \/ Overslept(e, rows[d].rev)]]
    BY <1>26, <1>10 DEF LeaseOver, TypeOK
  <2>6. calls' \in [Devices -> Call]
    BY <1>26, <1>10, <2>4, <2>5 DEF Call, TypeOK
  <2> QED
    BY <1>26, <2>1, <2>2, <2>3, <2>4, <2>5, <2>6 DEF LeaseOver, Upset, deviceVars,
       authVars, TypeOK
<1>27. ASSUME NEW d \in Devices, Claim(d) PROVE TypeOK'
  <2>1. rows[d].rev \in Nat /\ [rows[d].is EXCEPT !.claim = d] \in Content /\ "claim" \in Awaits
    BY <1>27, <1>10 DEF Row, Content, Awaits, TypeOK
  <2>2. calls' \in [Devices -> Call]
    BY <1>27, <1>10, <1>13, <1>14, <2>1 DEF Claim, TypeOK
  <2> QED
    BY <1>27, <2>1, <2>2 DEF Claim, deviceVars, authVars, TypeOK
<1>28. ASSUME NEW d \in Devices, ClaimWon(d) PROVE TypeOK'
  <2>1. calls[d].base \in Nat /\ calls[d].is \in Content
    BY <1>28, <1>10 DEF Call, TypeOK
  <2>2. calls[d].base + 1 \in Nat /\ Stored(rows[d], calls[d]) \in Row
    BY <1>28, <1>10, <1>12, <2>1 DEF Stored, TypeOK
  <2>3. rows' \in [Devices -> Row]
    BY <1>28, <1>10, <1>15, <2>2 DEF ClaimWon, TypeOK
  <2>4. [calls[d] EXCEPT !.at = "present", !.base = @ + 1, !.answer = "none"] \in Call
    BY <1>28, <1>10, <2>1, <2>2 DEF Call, TypeOK
  <2>5. calls' = [calls EXCEPT ![d] = [calls[d] EXCEPT
                     !.at = "present", !.base = @ + 1, !.answer = "none"]]
    BY <1>28, <1>10 DEF ClaimWon, TypeOK
  <2>6. calls' \in [Devices -> Call]
    BY <1>28, <1>10, <1>14, <2>4, <2>5 DEF Call, TypeOK
  <2> QED
    BY <1>28, <2>1, <2>2, <2>3, <2>4, <2>5, <2>6 DEF ClaimWon, deviceVars, authVars,
       TypeOK
<1>29. ASSUME NEW d \in Devices, Conflict(d) PROVE TypeOK'
  <2>1. calls[d].base \in Nat /\ calls[d].is \in Content
    BY <1>29, <1>10 DEF Call, TypeOK
  <2>2. rows' \in [Devices -> Row]
    BY <1>29, <1>10, <1>12, <1>15, <2>1 DEF Conflict, AdoptCurrent, TypeOK
  <2>3. calls' \in [Devices -> Call]
    BY <1>29, <1>10, <1>14 DEF Conflict, Done, TypeOK
  <2> QED
    BY <1>29, <2>1, <2>2, <2>3 DEF Conflict, deviceVars, authVars, TypeOK
<1>30. ASSUME NEW d \in Devices, Settled(d) PROVE TypeOK'
  <2>1. calls[d].base \in Nat /\ calls[d].is \in Content
    BY <1>30, <1>10 DEF Call, TypeOK
  <2>2. rows' \in [Devices -> Row]
    BY <1>30, <1>10, <1>12, <1>15, <2>1 DEF Settled, Stored, TypeOK
  <2>3. calls' \in [Devices -> Call]
    BY <1>30, <1>10, <1>14 DEF Settled, Done, TypeOK
  <2> QED
    BY <1>30, <2>1, <2>2, <2>3 DEF Settled, deviceVars, authVars, TypeOK
<1>31. ASSUME NEW d \in Devices, GiveUp(d) PROVE TypeOK'
  <2>1. calls' \in [Devices -> Call]
    BY <1>31, <1>10, <1>14 DEF GiveUp, Done, TypeOK
  <2> QED
    BY <1>31, <2>1 DEF GiveUp, deviceVars, authVars, TypeOK
<1>32. ASSUME NEW d \in Devices, Freeze(d) PROVE TypeOK'
  <2>1. calls' \in [Devices -> Call]
    BY ZenonT(60), <1>32, <1>10 DEF Freeze, Call, TypeOK
  <2> QED
    BY <1>32, <2>1 DEF Freeze, Upset, deviceVars, authVars, TypeOK
<1>33. ASSUME NEW d \in Devices, PostLost(d) PROVE TypeOK'
  <2>1. Token(d) \in Pairs /\ family[Token(d)] # 0
    BY <1>33, <1>10, TokensHeld DEF PostLost, MaySend, TokensHeld, Holder, TypeOK
  <2>2. calls' \in [Devices -> Call]
    BY ZenonT(60), <1>33, <1>10, TokensHeld DEF PostLost, Call, TypeOK
  <2>3. next' \in [Pairs -> 0 .. MaxPairs] /\ family' \in [Pairs -> 0 .. 1 + MaxSignIns]
    BY <1>33, <1>10, TokensHeld, <1>16, <2>1 DEF PostLost, authVars, TypeOK
  <2> QED
    BY <1>33, <2>1, <2>2, <2>3 DEF PostLost, Upset, deviceVars, authVars, TypeOK
<1>34. ASSUME NEW d \in Devices, PostFails(d) PROVE TypeOK'
  <2>1. calls[d].base \in Nat /\ calls[d].is \in Content
    BY <1>34, <1>10 DEF Call, TypeOK
  <2>2. "release" \in Awaits /\ [calls[d].is EXCEPT !.claim = None] \in Content
    BY <1>34, <1>10, <2>1 DEF Content, Call, Awaits, TypeOK
  <2>3. Freed(calls[d]) \in Call
    BY <1>34, <1>10, <1>13, <2>1, <2>2 DEF Freed, TypeOK
  <2>4. calls' \in [Devices -> Call]
    BY <1>34, <1>10, <1>14, <2>3 DEF PostFails, TypeOK
  <2>5. {Token(d)} \subseteq 0 .. MaxPairs
    BY <1>34, <1>10, <2>1 DEF Token, Content, TypeOK
  <2>6. Token(d) \in Pairs
    BY <1>34, TokensHeld DEF PostFails, MaySend, TokensHeld, Holder, TypeOK
  <2>7. /\ next' \in [Pairs -> 0 .. MaxPairs]
        /\ family' \in [Pairs -> 0 .. 1 + MaxSignIns]
        /\ revoked' = revoked
    BY <1>34, <1>16, <2>6 DEF PostFails, authVars, TypeOK
  <2> QED
    BY <1>34, <2>1, <2>2, <2>3, <2>4, <2>5, <2>7 DEF PostFails, Upset, deviceVars, TypeOK
<1>35. ASSUME NEW d \in Devices, PostOk(d) PROVE TypeOK'
  <2>1. Token(d) \in Pairs /\ family[Token(d)] # 0
    BY <1>35, <1>10, TokensHeld DEF PostOk, MaySend, TokensHeld, Holder, TypeOK
  <2>2. calls[d].base \in Nat /\ calls[d].is \in Content /\ next[Token(d)] \in 0 .. MaxPairs
    BY <1>35, <1>10, TokensHeld, <2>1 DEF Call, TypeOK
  <2>3. \A p \in 0 .. MaxPairs :
           [pair |-> p, base |-> calls[d].base, spent |-> Token(d), fresh |-> FALSE] \in Pending
    BY <1>35, <1>10, TokensHeld, <2>1, <2>2 DEF Pending, Pairs, TypeOK
  <2>4. \A h \in Pending : [calls[d] EXCEPT !.at = "have", !.held = h] \in Call
    BY <1>35, <1>10, TokensHeld DEF Call, TypeOK
  <2>5. next[Token(d)] \in 0 .. MaxPairs /\ Pairs \subseteq 0 .. MaxPairs
    BY <1>35, <1>10, TokensHeld, <2>2 DEF Pairs, TypeOK
  <2>6. \E p \in 0 .. MaxPairs :
           calls' = [calls EXCEPT ![d] = [calls[d] EXCEPT !.at = "have",
              !.held = [pair |-> p, base |-> calls[d].base, spent |-> Token(d), fresh |-> FALSE]]]
    BY <1>35, <1>10, TokensHeld, <2>5 DEF PostOk, TypeOK
  <2>7. calls' \in [Devices -> Call]
    BY <1>35, <1>10, TokensHeld, <1>14, <2>3, <2>4, <2>6 DEF Pending, TypeOK
  <2>8. next' \in [Pairs -> 0 .. MaxPairs] /\ family' \in [Pairs -> 0 .. 1 + MaxSignIns]
    BY <1>35, <1>10, TokensHeld, <1>16, <2>1 DEF PostOk, TypeOK
  <2> QED
    BY <1>35, <2>1, <2>2, <2>3, <2>4, <2>5, <2>6, <2>7, <2>8 DEF PostOk, deviceVars,
       authVars, TypeOK
<1>36. ASSUME NEW d \in Devices, PostInvalid(d) PROVE TypeOK'
  <2>1. Token(d) \in Pairs /\ family[Token(d)] # 0
    BY <1>36, <1>10, TokensHeld DEF PostInvalid, MaySend, TokensHeld, Holder, TypeOK
  <2>2. calls[d].base \in Nat /\ calls[d].is \in Content /\ "kill" \in Awaits
    BY <1>36, <1>10, TokensHeld DEF Call, Awaits, TypeOK
  <2>3. calls' \in [Devices -> Call]
    BY <1>36, <1>10, TokensHeld, <1>13, <1>14, <2>2 DEF PostInvalid, TypeOK
  <2>4. family[Token(d)] \in 0 .. 1 + MaxSignIns
    BY <1>36, <1>10, TokensHeld, <2>1 DEF Pairs, TypeOK
  <2>5. family[Token(d)] \in 1 .. 1 + MaxSignIns
    BY <1>36, <1>10, TokensHeld, <2>1, <2>4 DEF GrantAssumption, TypeOK
  <2> QED
    BY <1>36, <2>1, <2>2, <2>3, <2>4, <2>5 DEF PostInvalid, deviceVars, authVars, TypeOK
<1>37. ASSUME NEW d \in Devices, InDoubt(d) PROVE TypeOK'
  <2>1. calls[d].base \in Nat /\ calls[d].is \in Content
    BY <1>37, <1>10 DEF Call, TypeOK
  <2>2. "release" \in Awaits /\ [calls[d].is EXCEPT !.claim = None] \in Content
    BY <1>37, <1>10, <2>1 DEF Content, Call, Awaits, TypeOK
  <2>3. Freed(calls[d]) \in Call
    BY <1>37, <1>10, <1>13, <2>1, <2>2 DEF Freed, TypeOK
  <2>4. calls' \in [Devices -> Call]
    BY <1>37, <1>10, <1>14, <2>3 DEF InDoubt, TypeOK
  <2>5. {Token(d)} \subseteq 0 .. MaxPairs
    BY <1>37, <1>10, <2>1 DEF Token, Content, TypeOK
  <2> QED
    BY <1>37, <2>1, <2>2, <2>3, <2>4, <2>5 DEF InDoubt, deviceVars, authVars, TypeOK
<1>38. ASSUME NEW d \in Devices, Frozen(d) PROVE TypeOK'
  <2>1. calls[d].base \in Nat /\ calls[d].is \in Content
    BY <1>38, <1>10 DEF Call, TypeOK
  <2>2. "release" \in Awaits /\ [calls[d].is EXCEPT !.claim = None] \in Content
    BY <1>38, <1>10, <2>1 DEF Content, Call, Awaits, TypeOK
  <2>3. Freed(calls[d]) \in Call
    BY <1>38, <1>10, <1>13, <2>1, <2>2 DEF Freed, TypeOK
  <2>4. calls' \in [Devices -> Call]
    BY <1>38, <1>10, <1>14, <2>3 DEF Frozen, AfterFreeze, TypeOK
  <2> QED
    BY <1>38, <2>1, <2>2, <2>3, <2>4 DEF Frozen, deviceVars, authVars, TypeOK
<1>39. ASSUME NEW d \in Devices, WriteAhead(d) PROVE TypeOK'
  <2>1. calls[d].base \in Nat /\ calls[d].is \in Content
        /\ calls[d].held \in Pending
    BY <1>39, <1>10 DEF Call, TypeOK
  <2>2. [tokens |-> calls[d].held.pair, claim |-> None] \in Content /\ "publish" \in Awaits
    BY <1>39, <1>10, <2>1 DEF Pending, Content, Awaits, TypeOK
  <2>3. [Pushing("publish", calls[d].base, [tokens |-> calls[d].held.pair, claim |-> None])
          EXCEPT !.held = calls[d].held] \in Call
    BY <1>39, <1>10, <1>13, <2>1, <2>2 DEF Call, TypeOK
  <2>4. calls' \in [Devices -> Call]
    BY <1>39, <1>10, <1>14, <2>3 DEF WriteAhead, Done, TypeOK
  <2>5. rows' \in [Devices -> Row]
    BY <1>39, <1>10, <2>1 DEF WriteAhead, Row, TypeOK
  <2> QED
    BY <1>39, <2>1, <2>2, <2>3, <2>4, <2>5 DEF WriteAhead, deviceVars, authVars, TypeOK
<1>40. ASSUME NEW d \in Devices, WriteAheadFails(d) PROVE TypeOK'
  <2>1. calls' \in [Devices -> Call]
    BY <1>40, <1>10, <1>14 DEF WriteAheadFails, Done, TypeOK
  <2> QED
    BY <1>40, <2>1 DEF WriteAheadFails, Upset, deviceVars, authVars, TypeOK
<1>41. ASSUME NEW d \in Devices, Published(d) PROVE TypeOK'
  <2>1. calls[d].base \in Nat /\ calls[d].is \in Content
    BY <1>41, <1>10 DEF Call, TypeOK
  <2>2. \A r \in Row : Cleared(r) \in Row
    BY <1>41, <1>10 DEF Cleared, Row, TypeOK
  <2>3. Stored(rows[d], calls[d]) \in Row
    BY <1>41, <1>10, <1>12, <2>1 DEF Stored, TypeOK
  <2>4. rows' \in [Devices -> Row]
    BY <1>41, <1>10, <1>15, <2>2, <2>3 DEF Published, TypeOK
  <2>5. calls' \in [Devices -> Call]
    BY <1>41, <1>10, <1>14 DEF Published, Done, TypeOK
  <2> QED
    BY <1>41, <2>1, <2>2, <2>3, <2>4, <2>5 DEF Published, deviceVars, authVars, TypeOK
<1>42. ASSUME NEW d \in Devices, Discarded(d) PROVE TypeOK'
  <2>1. \A r \in Row : Cleared(r) \in Row
    BY <1>42, <1>10 DEF Cleared, Row, TypeOK
  <2>2. rows' \in [Devices -> Row]
    BY <1>42, <1>10, <1>15, <2>1 DEF Discarded, TypeOK
  <2>3. calls' \in [Devices -> Call]
    BY <1>42, <1>10, <1>14 DEF Discarded, Done, TypeOK
  <2> QED
    BY <1>42, <2>1, <2>2, <2>3 DEF Discarded, deviceVars, authVars, TypeOK
<1>43. ASSUME NEW d \in Devices, Rebase(d) PROVE TypeOK'
  <2>1. [tokens |-> calls[d].held.pair, claim |-> None] \in Content
    BY <1>43, <1>10 DEF Content, Call, Pending, TypeOK
  <2>2. calls' \in [Devices -> Call]
    BY ZenonT(60), <1>43, <1>10, <2>1 DEF Rebase, Call, TypeOK
  <2> QED
    BY <1>43, <2>1, <2>2 DEF Rebase, deviceVars, authVars, TypeOK
<1>44. ASSUME NEW d \in Devices, Kept(d) PROVE TypeOK'
  <2>1. calls' \in [Devices -> Call]
    BY <1>44, <1>10, <1>14 DEF Kept, Done, TypeOK
  <2> QED
    BY <1>44, <2>1 DEF Kept, Upset, deviceVars, authVars, TypeOK
<1>45. ASSUME NEW d \in Devices, Superseded(d) PROVE TypeOK'
  <2>1. calls[d].base \in Nat /\ calls[d].is \in Content
    BY <1>45, <1>10 DEF Call, TypeOK
  <2>2. \A r \in Row : Cleared(r) \in Row
    BY <1>45, <1>10 DEF Cleared, Row, TypeOK
  <2>3. Adopted(rows[d], calls[d].base, calls[d].is) \in Row
    BY <1>45, <1>10, <1>12, <2>1 DEF Row, TypeOK
  <2>4. rows' \in [Devices -> Row]
    BY <1>45, <1>10, <1>15, <2>2, <2>3 DEF Superseded, TypeOK
  <2>5. calls' \in [Devices -> Call]
    BY <1>45, <1>10, <1>14 DEF Superseded, Done, TypeOK
  <2> QED
    BY <1>45, <2>1, <2>2, <2>3, <2>4, <2>5 DEF Superseded, deviceVars, authVars, TypeOK
<1>46. ASSUME NEW d \in Devices, Remove(d) PROVE TypeOK'
  <2>1. [rows[d] EXCEPT !.here = FALSE, !.pending = Nothing, !.buried = TRUE] \in Row
    BY <1>46, <1>10 DEF Row, TypeOK
  <2>2. rows' \in [Devices -> Row]
    BY <1>46, <1>10, <1>15, <2>1 DEF Remove, TypeOK
  <2> QED
    BY <1>46, <2>1, <2>2 DEF Remove, Upset, deviceVars, authVars, TypeOK
<1>47. ASSUME NEW d \in Devices, Crash(d) PROVE TypeOK'
  <2>1. calls' \in [Devices -> Call]
    BY <1>47, <1>10, <1>14 DEF Crash, TypeOK
  <2>2. rows' \in [Devices -> Row]
    BY <1>47, <1>10 DEF Crash, Row, TypeOK
  <2>3. \A s \in strays' : s.at \in Awaits /\ s.base \in Nat /\ s.is \in Content
    BY <1>47, <1>10 DEF Crash, Call, TypeOK
  <2> QED
    BY <1>47, <2>1, <2>2, <2>3 DEF Crash, Upset, deviceVars, authVars, TypeOK
<1>48. ASSUME Bury PROVE TypeOK'
  BY <1>48, <1>10 DEF Bury, Record, deviceVars, authVars, TypeOK
<1>49. ASSUME NEW d \in Devices, SignIn(d) PROVE TypeOK'
  <2>1. PICK p \in Pairs :
         LET f == 1 + Cardinality({family[q] : q \in Issued})
             new == [pair |-> p, base |-> rows[d].rev, spent |-> 0, fresh |-> TRUE]
         IN  /\ f <= 1 + MaxSignIns
             /\ family' = [family EXCEPT ![p] = f]
             /\ rows' = [rows EXCEPT ![d].here = TRUE, ![d].is = Empty, ![d].pending = new]
             /\ calls' = [calls EXCEPT ![d] =
                  [Pushing("publish", new.base, [tokens |-> p, claim |-> None]) EXCEPT !.held = new]]
    BY <1>49 DEF SignIn
  <2> DEFINE new == [pair |-> p, base |-> rows[d].rev, spent |-> 0, fresh |-> TRUE]
  <2>2. new \in Pending /\ new.base \in Nat /\ "publish" \in Awaits
        /\ [tokens |-> p, claim |-> None] \in Content
    BY <1>10 DEF Pending, Row, Content, Awaits, Pairs
  <2>3. family' \in [Pairs -> 0 .. 1 + MaxSignIns]
    BY <2>1, SignInTyped DEF TypeOK
  <2>4. [Pushing("publish", new.base, [tokens |-> p, claim |-> None]) EXCEPT !.held = new] \in Call
    <3>1. Pushing("publish", new.base, [tokens |-> p, claim |-> None]) \in Call
      BY <1>13, <2>2
    <3> HIDE DEF new
    <3> QED
      BY <2>2, <3>1 DEF Call
  <2>5. calls' \in [Devices -> Call]
    BY <1>14, <2>1, <2>4
  <2>6. rows' \in [Devices -> Row]
    BY ZenonT(60), <1>10, <2>1, <2>2 DEF TypeOK, Row
  <2> QED
    BY <1>49, <2>3, <2>5, <2>6 DEF SignIn, deviceVars, authVars, TypeOK
<1> QED
  BY <1>20, <1>21, <1>22, <1>23, <1>24, <1>25, <1>26, <1>27, <1>28, <1>29, <1>30, <1>31,
     <1>32, <1>33, <1>34, <1>35, <1>36, <1>37, <1>38, <1>39, <1>40, <1>41, <1>42, <1>43,
     <1>44, <1>45, <1>46, <1>47, <1>48, <1>49 DEF Next, Present, Settle

-----------------------------------------------------------------------------
(* Steps by what they do to the record.                                      *)

(* A quiet step leaves the record; most steps are.                            *)
Quiet == server'.rev = server.rev /\ server'.is = server.is

(* The call of a device that begins to publish h.                             *)
LEMMA PushingIs ==
  ASSUME NEW at, NEW base, NEW is
  PROVE  LET c == Pushing(at, base, is)
         IN  /\ c.at = at /\ c.base = base /\ c.is = is /\ c.answer = "none"
             /\ c.held = Nothing /\ ~c.sent /\ ~c.late
BY DEF Pushing, Idle

(* c is the call of a device that begins to publish the pair of h.             *)
Publishing(c, base, h) ==
  /\ c.at = "publish" /\ c.base = base /\ c.answer = "none" /\ c.held = h
  /\ c.is = [tokens |-> h.pair, claim |-> None] /\ ~c.sent /\ ~c.late

(* Beginning to push, with a pair kept, is such a call.                        *)
LEMMA PushingWith ==
  ASSUME NEW base, NEW h, NEW c,
         c = [Pushing("publish", base, [tokens |-> h.pair, claim |-> None]) EXCEPT !.held = h]
  PROVE  Publishing(c, base, h)
<1> DEFINE p == Pushing("publish", base, [tokens |-> h.pair, claim |-> None])
<1>1. /\ p.at = "publish" /\ p.base = base /\ p.is = [tokens |-> h.pair, claim |-> None]
      /\ p.answer = "none" /\ ~p.sent /\ ~p.late
  BY PushingIs
<1>2. c = [p EXCEPT !.held = h]
  OBVIOUS
<1>3. p = [x \in DOMAIN p |-> p[x]]
      /\ DOMAIN p = {"at", "base", "is", "answer", "held", "sent", "late"}
  BY DEF Pushing, Idle
<1> HIDE DEF p
<1> QED
  BY <1>1, <1>2, <1>3 DEF Publishing

(* Only d begins to publish.                                                  *)
PublishesWith(d, base, h) ==
  /\ Publishing(calls'[d], base, h)
  /\ \A e \in Devices \ {d} : calls'[e] = calls[e]

(* The three actions that begin a publication are of that kind.                 *)
LEMMA Pushes ==
  ASSUME TypeOK, NEW d \in Devices, NEW base, NEW h,
         calls' = [calls EXCEPT ![d] =
           [Pushing("publish", base, [tokens |-> h.pair, claim |-> None]) EXCEPT !.held = h]]
  PROVE  PublishesWith(d, base, h)
BY PushingWith DEF TypeOK, PublishesWith

(* A publication of the pending pair.                                         *)
LEMMA PublishPushes ==
  ASSUME TypeOK, NEW d \in Devices, Publish(d)
  PROVE  PublishesWith(d, rows[d].pending.base, rows[d].pending)
BY Pushes DEF Publish, PublishedBody

(* The publication after a refresh.                                           *)
LEMMA WriteAheadPushes ==
  ASSUME TypeOK, NEW d \in Devices, WriteAhead(d), rows[d].here
  PROVE  PublishesWith(d, calls[d].base, calls[d].held)
BY Pushes DEF WriteAhead

(* The pending fields of a new sign-in.                                        *)
NewSignIn(d, p) == [pair |-> p, base |-> rows[d].rev, spent |-> 0, fresh |-> TRUE]

(* The publication of a new sign-in.                                          *)
LEMMA SignInPushes ==
  ASSUME TypeOK, NEW d \in Devices, SignIn(d)
  PROVE  \E p \in Pairs :
           /\ NewPair(p)
           /\ family' = [family EXCEPT ![p] = 1 + Cardinality({family[q] : q \in Issued})]
           /\ rows' = [rows EXCEPT ![d] = [rows[d] EXCEPT !.here = TRUE, !.is = Empty,
                                                          !.pending = NewSignIn(d, p)]]
           /\ PublishesWith(d, rows[d].rev, NewSignIn(d, p))
<1>1. PICK p \in Pairs :
        /\ NewPair(p)
        /\ family' = [family EXCEPT ![p] = 1 + Cardinality({family[q] : q \in Issued})]
        /\ rows' = [rows EXCEPT ![d].here = TRUE, ![d].is = Empty,
                                ![d].pending = NewSignIn(d, p)]
        /\ calls' = [calls EXCEPT ![d] =
             [Pushing("publish", rows[d].rev, [tokens |-> p, claim |-> None])
                EXCEPT !.held = NewSignIn(d, p)]]
  BY DEF SignIn, NewSignIn
<1>2. NewSignIn(d, p).pair = p
  BY DEF NewSignIn
<1>4. PublishesWith(d, rows[d].rev, NewSignIn(d, p))
  BY <1>1, <1>2, Pushes
<1>5. rows' = [rows EXCEPT ![d] = [rows[d] EXCEPT !.here = TRUE, !.is = Empty,
                                                          !.pending = NewSignIn(d, p)]]
  BY <1>1 DEF TypeOK
<1> QED
  BY <1>1, <1>4, <1>5

(* A device that holds a claim after a quiet step held it before.               *)
KeepsHolder(e) ==
  Holder(e)' => /\ Holder(e) /\ HeldAt(e)' = HeldAt(e) /\ Token(e)' = Token(e)
                /\ calls[e].late => calls'[e].late
                /\ calls[e].sent => calls'[e].sent

(* Claims are won by commits alone.                                           *)
LEMMA HoldersKept ==
  ASSUME GrantAssumption, TypeOK, Next, Quiet, NEW e \in Devices
  PROVE  KeepsHolder(e)
<1>0. calls \in [Devices -> Call] /\ server \in Record
  BY DEF TypeOK
<1>50. ASSUME NEW d \in Devices, NEW base, NEW h, PublishesWith(d, base, h)
      PROVE  KeepsHolder(e)
  BY <1>50 DEF PublishesWith, Publishing, KeepsHolder, Holder, HeldAt, Token
<1>1. ASSUME NEW d \in Devices, Serve(d) PROVE KeepsHolder(e)
  BY <1>1, <1>0, Quiet DEF Serve, Write, Result, deviceVars, authVars, KeepsHolder,
     Holder, HeldAt, Token, Quiet, Call, Awaits, MaySend, Record
<1>2. ASSUME NEW d \in Devices, LosePush(d) PROVE KeepsHolder(e)
  BY <1>2, <1>0, Quiet DEF LosePush, deviceVars, authVars, KeepsHolder, Holder, HeldAt,
     Token, Quiet, Call, Awaits, MaySend, Record
<1>3. ASSUME NEW d \in Devices, Pull(d) PROVE KeepsHolder(e)
  BY <1>3, <1>0, Quiet DEF Pull, deviceVars, authVars, KeepsHolder, Holder, HeldAt, Token,
     Quiet, Call, Awaits, MaySend, Record
<1>4. ASSUME NEW d \in Devices, Publish(d) PROVE KeepsHolder(e)
  BY <1>50, <1>4, PublishPushes
<1>5. ASSUME NEW d \in Devices, Watch(d) PROVE KeepsHolder(e)
  BY <1>5, <1>0, Quiet DEF Watch, deviceVars, authVars, KeepsHolder, Holder, HeldAt,
     Token, Quiet, Call, Awaits, MaySend, Record
<1>6. ASSUME NEW d \in Devices, LeaseOver(d) PROVE KeepsHolder(e)
  BY <1>6, <1>0, Quiet DEF LeaseOver, Overslept, deviceVars, authVars, KeepsHolder,
     Holder, HeldAt, Token, Quiet, Call, Awaits, MaySend, Record
<1>7. ASSUME NEW d \in Devices, Claim(d) PROVE KeepsHolder(e)
  BY <1>7, <1>0, Quiet DEF Claim, Pushing, Idle, deviceVars, authVars, KeepsHolder,
     Holder, HeldAt, Token, Quiet, Call, Awaits, MaySend, Record
<1>8. ASSUME NEW d \in Devices, ClaimWon(d) PROVE KeepsHolder(e)
  BY <1>8, <1>0, Quiet DEF ClaimWon, Answered, deviceVars, authVars, KeepsHolder, Holder,
     HeldAt, Token, Quiet, Call, Awaits, MaySend, Record
<1>9. ASSUME NEW d \in Devices, Conflict(d) PROVE KeepsHolder(e)
  BY <1>9, <1>0, Quiet DEF Conflict, Done, Idle, AdoptCurrent, deviceVars, authVars,
     KeepsHolder, Holder, HeldAt, Token, Quiet, Call, Awaits, MaySend, Record
<1>10. ASSUME NEW d \in Devices, Settled(d) PROVE KeepsHolder(e)
  BY <1>10, <1>0, Quiet DEF Settled, Done, Idle, deviceVars, authVars, KeepsHolder,
     Holder, HeldAt, Token, Quiet, Call, Awaits, MaySend, Record
<1>11. ASSUME NEW d \in Devices, GiveUp(d) PROVE KeepsHolder(e)
  BY <1>11, <1>0, Quiet DEF GiveUp, Done, Idle, deviceVars, authVars, KeepsHolder, Holder,
     HeldAt, Token, Quiet, Call, Awaits, MaySend, Record
<1>12. ASSUME NEW d \in Devices, Freeze(d) PROVE KeepsHolder(e)
  BY <1>12, <1>0, Quiet DEF Freeze, deviceVars, authVars, KeepsHolder, Holder, HeldAt,
     Token, Quiet, Call, Awaits, MaySend, Record
<1>13. ASSUME NEW d \in Devices, PostLost(d) PROVE KeepsHolder(e)
  BY <1>13, <1>0, Quiet DEF PostLost, deviceVars, authVars, KeepsHolder, Holder, HeldAt,
     Token, Quiet, Call, Awaits, MaySend, Record
<1>14. ASSUME NEW d \in Devices, PostFails(d) PROVE KeepsHolder(e)
  BY <1>14, <1>0, Quiet DEF PostFails, Freed, Pushing, Idle, deviceVars, authVars,
     KeepsHolder, Holder, HeldAt, Token, Quiet, Call, Awaits, MaySend, Record
<1>15. ASSUME NEW d \in Devices, PostOk(d) PROVE KeepsHolder(e)
  BY <1>15, <1>0, Quiet DEF PostOk, deviceVars, authVars, KeepsHolder, Holder, HeldAt,
     Token, Quiet, Call, Awaits, MaySend, Record
<1>16. ASSUME NEW d \in Devices, PostInvalid(d) PROVE KeepsHolder(e)
  BY <1>16, <1>0, Quiet DEF PostInvalid, Pushing, Idle, deviceVars, authVars, KeepsHolder,
     Holder, HeldAt, Token, Quiet, Call, Awaits, MaySend, Record
<1>17. ASSUME NEW d \in Devices, InDoubt(d) PROVE KeepsHolder(e)
  BY <1>17, <1>0, Quiet DEF InDoubt, Freed, Pushing, Idle, deviceVars, authVars,
     KeepsHolder, Holder, HeldAt, Token, Quiet, Call, Awaits, MaySend, Record
<1>18. ASSUME NEW d \in Devices, Frozen(d) PROVE KeepsHolder(e)
  BY <1>18, <1>0, Quiet DEF Frozen, AfterFreeze, Freed, Pushing, Idle, deviceVars,
     authVars, KeepsHolder, Holder, HeldAt, Token, Quiet, Call, Awaits, MaySend, Record
<1>19. ASSUME NEW d \in Devices, WriteAhead(d) PROVE KeepsHolder(e)
  <2>1. CASE rows[d].here
    BY <1>50, <1>19, <2>1, WriteAheadPushes
  <2>2. CASE ~rows[d].here
    BY <1>0, <1>19, <2>2 DEF WriteAhead, Done, Idle, KeepsHolder, Holder, HeldAt, Token
  <2> QED
    BY <2>1, <2>2
<1>20. ASSUME NEW d \in Devices, WriteAheadFails(d) PROVE KeepsHolder(e)
  BY <1>20, <1>0, Quiet DEF WriteAheadFails, Done, Idle, deviceVars, authVars,
     KeepsHolder, Holder, HeldAt, Token, Quiet, Call, Awaits, MaySend, Record
<1>21. ASSUME NEW d \in Devices, Published(d) PROVE KeepsHolder(e)
  BY <1>21, <1>0, Quiet DEF Published, Done, Idle, deviceVars, authVars, KeepsHolder,
     Holder, HeldAt, Token, Quiet, Call, Awaits, MaySend, Record
<1>22. ASSUME NEW d \in Devices, Discarded(d) PROVE KeepsHolder(e)
  BY <1>22, <1>0, Quiet DEF Discarded, Done, Idle, deviceVars, authVars, KeepsHolder,
     Holder, HeldAt, Token, Quiet, Call, Awaits, MaySend, Record
<1>23. ASSUME NEW d \in Devices, Rebase(d) PROVE KeepsHolder(e)
  BY <1>23, <1>0, Quiet DEF Rebase, Answered, deviceVars, authVars, KeepsHolder, Holder,
     HeldAt, Token, Quiet, Call, Awaits, MaySend, Record
<1>24. ASSUME NEW d \in Devices, Kept(d) PROVE KeepsHolder(e)
  BY <1>24, <1>0, Quiet DEF Kept, Done, Idle, deviceVars, authVars, KeepsHolder, Holder,
     HeldAt, Token, Quiet, Call, Awaits, MaySend, Record
<1>25. ASSUME NEW d \in Devices, Superseded(d) PROVE KeepsHolder(e)
  BY <1>25, <1>0, Quiet DEF Superseded, Done, Idle, deviceVars, authVars, KeepsHolder,
     Holder, HeldAt, Token, Quiet, Call, Awaits, MaySend, Record
<1>26. ASSUME NEW d \in Devices, Remove(d) PROVE KeepsHolder(e)
  BY <1>26, <1>0, Quiet DEF Remove, deviceVars, authVars, KeepsHolder, Holder, HeldAt,
     Token, Quiet, Call, Awaits, MaySend, Record
<1>27. ASSUME NEW d \in Devices, Crash(d) PROVE KeepsHolder(e)
  BY <1>27, <1>0, Quiet DEF Crash, Idle, deviceVars, authVars, KeepsHolder, Holder,
     HeldAt, Token, Quiet, Call, Awaits, MaySend, Record
<1>28. ASSUME NEW d \in Devices, SignIn(d) PROVE KeepsHolder(e)
  BY <1>50, <1>28, SignInPushes
<1>29. ASSUME NEW s \in strays, ArriveLate(s) PROVE KeepsHolder(e)
  BY <1>29, <1>0, Quiet DEF ArriveLate, deviceVars, authVars, KeepsHolder, Holder, HeldAt,
     Token, Quiet, Call, Awaits, MaySend, Record
<1>30. ASSUME Bury PROVE KeepsHolder(e)
  BY <1>30, <1>0, Quiet DEF Bury, deviceVars, authVars, KeepsHolder, Holder, HeldAt,
     Token, Quiet, Call, Awaits, MaySend, Record
<1> QED
  BY <1>1, <1>2, <1>3, <1>4, <1>5, <1>6, <1>7, <1>8, <1>9, <1>10, <1>11, <1>12, <1>13,
     <1>14, <1>15, <1>16, <1>17, <1>18, <1>19, <1>20, <1>21, <1>22, <1>23, <1>24, <1>25,
     <1>26, <1>27, <1>28, <1>29, <1>30 DEF Next, Present, Settle

(* The kinds of steps, by what they do to the record.                          *)
Lands(at, is) ==
  /\ server'.rev = server.rev + 1 /\ server'.is = is
  /\ doubted' = doubted \cup
       (IF at = "claim" /\ server.is.claim # None THEN {server.is.tokens} \ {0} ELSE {})
  /\ UNCHANGED <<rows, next, family>>

OwnCommit(d) ==
  /\ Asks(d) /\ calls[d].base = server.rev /\ Lands(calls[d].at, calls[d].is)
  /\ calls' = [calls EXCEPT ![d].answer = "ok"] /\ strays' = strays

StrayCommit(s) ==
  s.base = server.rev /\ Lands(s.at, s.is) /\ calls' = calls /\ strays' = strays \ {s}

Kinds == Quiet \/ (\E d \in Devices : OwnCommit(d)) \/ (\E s \in strays : StrayCommit(s))

(* Every step is quiet, commits a push its sender waits for, or a stray one.    *)
LEMMA StepKinds ==
  ASSUME GrantAssumption, TypeOK, Next
  PROVE  Kinds
<1>0. calls \in [Devices -> Call] /\ server \in Record
  BY DEF TypeOK
<1>1. ASSUME NEW d \in Devices, Serve(d) PROVE Kinds
  <2>1. CASE Result(calls[d].base) = "ok"
    <3>1. calls[d].base = server.rev
      BY <2>1 DEF Result
    <3>2. [calls EXCEPT ![d].answer = Result(calls[d].base),
            ![d].base = IF Result(calls[d].base) = "conflict" THEN server.rev ELSE @,
            ![d].is = IF Result(calls[d].base) = "conflict" THEN server.is ELSE @]
          = [calls EXCEPT ![d].answer = "ok"]
      BY <1>0, <2>1 DEF Call
    <3>3. server'.rev = server.rev + 1 /\ server'.is = calls[d].is
      BY <1>0, <1>1, <2>1 DEF Serve, Write, Record
    <3>4. Lands(calls[d].at, calls[d].is)
      BY <1>1, <2>1, <3>3 DEF Serve, Lands, TakenOver, authVars
    <3>5. OwnCommit(d)
      BY <1>1, <3>1, <3>2, <3>4 DEF Serve, OwnCommit, Asks
    <3> QED
      BY <3>5 DEF Kinds
  <2>2. CASE Result(calls[d].base) # "ok"
    BY <1>1, <2>2 DEF Serve, Write, Kinds, Quiet
  <2> QED
    BY <2>1, <2>2
<1>2. ASSUME NEW d \in Devices, LosePush(d) PROVE Kinds
  BY <1>2, <1>0 DEF LosePush, deviceVars, authVars, Kinds, Quiet, Record
<1>3. ASSUME NEW d \in Devices, Pull(d) PROVE Kinds
  BY <1>3, <1>0 DEF Pull, deviceVars, authVars, Kinds, Quiet, Record
<1>4. ASSUME NEW d \in Devices, Publish(d) PROVE Kinds
  BY <1>4, <1>0 DEF Publish, Pushing, Idle, deviceVars, authVars, Kinds, Quiet, Record
<1>5. ASSUME NEW d \in Devices, Watch(d) PROVE Kinds
  BY <1>5, <1>0 DEF Watch, deviceVars, authVars, Kinds, Quiet, Record
<1>6. ASSUME NEW d \in Devices, LeaseOver(d) PROVE Kinds
  BY <1>6, <1>0 DEF LeaseOver, Overslept, deviceVars, authVars, Kinds, Quiet, Record
<1>7. ASSUME NEW d \in Devices, Claim(d) PROVE Kinds
  BY <1>7, <1>0 DEF Claim, Pushing, Idle, deviceVars, authVars, Kinds, Quiet, Record
<1>8. ASSUME NEW d \in Devices, ClaimWon(d) PROVE Kinds
  BY <1>8, <1>0 DEF ClaimWon, Answered, deviceVars, authVars, Kinds, Quiet, Record
<1>9. ASSUME NEW d \in Devices, Conflict(d) PROVE Kinds
  BY <1>9, <1>0 DEF Conflict, Done, Idle, AdoptCurrent, deviceVars, authVars, Kinds,
     Quiet, Record
<1>10. ASSUME NEW d \in Devices, Settled(d) PROVE Kinds
  BY <1>10, <1>0 DEF Settled, Done, Idle, deviceVars, authVars, Kinds, Quiet, Record
<1>11. ASSUME NEW d \in Devices, GiveUp(d) PROVE Kinds
  BY <1>11, <1>0 DEF GiveUp, Done, Idle, deviceVars, authVars, Kinds, Quiet, Record
<1>12. ASSUME NEW d \in Devices, Freeze(d) PROVE Kinds
  BY <1>12, <1>0 DEF Freeze, deviceVars, authVars, Kinds, Quiet, Record
<1>13. ASSUME NEW d \in Devices, PostLost(d) PROVE Kinds
  BY <1>13, <1>0 DEF PostLost, deviceVars, authVars, Kinds, Quiet, Record
<1>14. ASSUME NEW d \in Devices, PostFails(d) PROVE Kinds
  BY <1>14, <1>0 DEF PostFails, Freed, Pushing, Idle, deviceVars, authVars, Kinds, Quiet,
     Record
<1>15. ASSUME NEW d \in Devices, PostOk(d) PROVE Kinds
  BY <1>15, <1>0 DEF PostOk, deviceVars, authVars, Kinds, Quiet, Record
<1>16. ASSUME NEW d \in Devices, PostInvalid(d) PROVE Kinds
  BY <1>16, <1>0 DEF PostInvalid, Pushing, Idle, deviceVars, authVars, Kinds, Quiet,
     Record
<1>17. ASSUME NEW d \in Devices, InDoubt(d) PROVE Kinds
  BY <1>17, <1>0 DEF InDoubt, Freed, Pushing, Idle, deviceVars, authVars, Kinds, Quiet,
     Record
<1>18. ASSUME NEW d \in Devices, Frozen(d) PROVE Kinds
  BY <1>18, <1>0 DEF Frozen, AfterFreeze, Freed, Pushing, Idle, deviceVars, authVars,
     Kinds, Quiet, Record
<1>19. ASSUME NEW d \in Devices, WriteAhead(d) PROVE Kinds
  BY <1>19, <1>0 DEF WriteAhead, Done, Pushing, Idle, deviceVars, authVars, Kinds, Quiet,
     Record
<1>20. ASSUME NEW d \in Devices, WriteAheadFails(d) PROVE Kinds
  BY <1>20, <1>0 DEF WriteAheadFails, Done, Idle, deviceVars, authVars, Kinds, Quiet,
     Record
<1>21. ASSUME NEW d \in Devices, Published(d) PROVE Kinds
  BY <1>21, <1>0 DEF Published, Done, Idle, deviceVars, authVars, Kinds, Quiet, Record
<1>22. ASSUME NEW d \in Devices, Discarded(d) PROVE Kinds
  BY <1>22, <1>0 DEF Discarded, Done, Idle, deviceVars, authVars, Kinds, Quiet, Record
<1>23. ASSUME NEW d \in Devices, Rebase(d) PROVE Kinds
  BY <1>23, <1>0 DEF Rebase, Answered, deviceVars, authVars, Kinds, Quiet, Record
<1>24. ASSUME NEW d \in Devices, Kept(d) PROVE Kinds
  BY <1>24, <1>0 DEF Kept, Done, Idle, deviceVars, authVars, Kinds, Quiet, Record
<1>25. ASSUME NEW d \in Devices, Superseded(d) PROVE Kinds
  BY <1>25, <1>0 DEF Superseded, Done, Idle, deviceVars, authVars, Kinds, Quiet, Record
<1>26. ASSUME NEW d \in Devices, Remove(d) PROVE Kinds
  BY <1>26, <1>0 DEF Remove, deviceVars, authVars, Kinds, Quiet, Record
<1>27. ASSUME NEW d \in Devices, Crash(d) PROVE Kinds
  BY <1>27, <1>0 DEF Crash, Idle, deviceVars, authVars, Kinds, Quiet, Record
<1>28. ASSUME NEW d \in Devices, SignIn(d) PROVE Kinds
  BY <1>28, <1>0 DEF SignIn, Pushing, Idle, deviceVars, authVars, Kinds, Quiet, Record
<1>29. ASSUME NEW s \in strays, ArriveLate(s) PROVE Kinds
  <2>1. CASE Result(s.base) = "ok"
    <3>1. s.base = server.rev
      BY <2>1 DEF Result
    <3>2. server'.rev = server.rev + 1 /\ server'.is = s.is
      BY <1>0, <1>29, <2>1 DEF ArriveLate, Write, Record
    <3>3. Lands(s.at, s.is)
      BY <1>29, <2>1, <3>2 DEF ArriveLate, Lands, TakenOver, authVars, deviceVars
    <3>4. StrayCommit(s)
      BY <1>29, <3>1, <3>3 DEF ArriveLate, StrayCommit, deviceVars
    <3> QED
      BY <3>4 DEF Kinds
  <2>2. CASE Result(s.base) # "ok"
    BY <1>29, <2>2 DEF ArriveLate, Write, Kinds, Quiet
  <2> QED
    BY <2>1, <2>2
<1>30. ASSUME Bury PROVE Kinds
  BY <1>30, <1>0 DEF Bury, deviceVars, authVars, Kinds, Quiet, Record
<1> QED
  BY <1>1, <1>2, <1>3, <1>4, <1>5, <1>6, <1>7, <1>8, <1>9, <1>10, <1>11, <1>12, <1>13,
     <1>14, <1>15, <1>16, <1>17, <1>18, <1>19, <1>20, <1>21, <1>22, <1>23, <1>24, <1>25,
     <1>26, <1>27, <1>28, <1>29, <1>30 DEF Next, Present, Settle

-----------------------------------------------------------------------------
(* What quiet steps may do.                                                  *)

(* What a quiet step may do to the authorization server's tables.              *)
Rotation(d, p) ==
  /\ MaySend(d) /\ next[Token(d)] = 0 /\ NewPair(p) /\ Rotated(Token(d), p)
  /\ Holder(d)' => calls'[d].sent
  /\ UNCHANGED <<server, rows, strays>>

SignsIn(p) ==
  /\ NewPair(p) /\ next' = next
  /\ family' = [family EXCEPT ![p] = 1 + Cardinality({family[q] : q \in Issued})]

AuthStep ==
  \/ next' = next /\ family' = family
  \/ \E d \in Devices, p \in Pairs : Rotation(d, p)
  \/ \E p \in Pairs : SignsIn(p)

(* A pair is issued to the call that presents, or to a new sign-in.             *)
LEMMA AuthSteps ==
  ASSUME GrantAssumption, TypeOK, Next
  PROVE  AuthStep
<1>0. calls \in [Devices -> Call]
  BY DEF TypeOK
<1>1. ASSUME NEW d \in Devices, Serve(d) PROVE AuthStep
  BY <1>1 DEF Serve, Write, Result, deviceVars, authVars, AuthStep
<1>2. ASSUME NEW d \in Devices, LosePush(d) PROVE AuthStep
  BY <1>2 DEF LosePush, deviceVars, authVars, AuthStep
<1>3. ASSUME NEW d \in Devices, Pull(d) PROVE AuthStep
  BY <1>3 DEF Pull, deviceVars, authVars, AuthStep
<1>4. ASSUME NEW d \in Devices, Publish(d) PROVE AuthStep
  BY <1>4 DEF Publish, Pushing, Idle, deviceVars, authVars, AuthStep
<1>5. ASSUME NEW d \in Devices, Watch(d) PROVE AuthStep
  BY <1>5 DEF Watch, deviceVars, authVars, AuthStep
<1>6. ASSUME NEW d \in Devices, LeaseOver(d) PROVE AuthStep
  BY <1>6 DEF LeaseOver, Overslept, deviceVars, authVars, AuthStep
<1>7. ASSUME NEW d \in Devices, Claim(d) PROVE AuthStep
  BY <1>7 DEF Claim, Pushing, Idle, deviceVars, authVars, AuthStep
<1>8. ASSUME NEW d \in Devices, ClaimWon(d) PROVE AuthStep
  BY <1>8 DEF ClaimWon, Answered, deviceVars, authVars, AuthStep
<1>9. ASSUME NEW d \in Devices, Conflict(d) PROVE AuthStep
  BY <1>9 DEF Conflict, Done, Idle, AdoptCurrent, deviceVars, authVars, AuthStep
<1>10. ASSUME NEW d \in Devices, Settled(d) PROVE AuthStep
  BY <1>10 DEF Settled, Done, Idle, deviceVars, authVars, AuthStep
<1>11. ASSUME NEW d \in Devices, GiveUp(d) PROVE AuthStep
  BY <1>11 DEF GiveUp, Done, Idle, deviceVars, authVars, AuthStep
<1>12. ASSUME NEW d \in Devices, Freeze(d) PROVE AuthStep
  BY <1>12 DEF Freeze, deviceVars, authVars, AuthStep
<1>13. ASSUME NEW d \in Devices, PostLost(d) PROVE AuthStep
  <2>1. CASE UNCHANGED authVars
    BY <2>1 DEF AuthStep, authVars
  <2>2. CASE ~UNCHANGED authVars
    <3>1. PICK p \in Pairs : NewPair(p) /\ Rotated(Token(d), p) /\ Fresh(Token(d))
      BY <1>13, <2>2 DEF PostLost
    <3>2. calls'[d].sent
      BY <1>0, <1>13 DEF PostLost, Call
    <3>3. Rotation(d, p)
      BY <1>13, <3>1, <3>2 DEF PostLost, Rotation, Fresh
    <3> QED
      BY <3>3 DEF AuthStep
  <2> QED
    BY <2>1, <2>2
<1>14. ASSUME NEW d \in Devices, PostFails(d) PROVE AuthStep
  <2>1. CASE UNCHANGED authVars
    BY <2>1 DEF AuthStep, authVars
  <2>2. CASE ~UNCHANGED authVars
    <3>1. PICK p \in Pairs : NewPair(p) /\ Rotated(Token(d), p) /\ Fresh(Token(d))
      BY <1>14, <2>2 DEF PostFails
    <3>2. ~Holder(d)'
      BY <1>0, <1>14, PushingIs DEF PostFails, Freed, Holder
    <3>3. Rotation(d, p)
      BY <1>14, <3>1, <3>2 DEF PostFails, Rotation, Fresh
    <3> QED
      BY <3>3 DEF AuthStep
  <2> QED
    BY <2>1, <2>2
<1>15. ASSUME NEW d \in Devices, PostOk(d) PROVE AuthStep
  <2>1. CASE UNCHANGED <<next, family>>
    BY <2>1 DEF AuthStep
  <2>2. CASE ~UNCHANGED <<next, family>>
    <3>1. PICK p \in Pairs :
            /\ Fresh(Token(d)) /\ NewPair(p) /\ Rotated(Token(d), p)
            /\ calls' = [calls EXCEPT ![d].at = "have",
                 ![d].held = [pair |-> p, base |-> calls[d].base,
                              spent |-> Token(d), fresh |-> FALSE]]
      BY <1>15, <2>2 DEF PostOk
    <3>2. ~Holder(d)'
      BY <1>0, <3>1 DEF Holder, Call
    <3>3. Rotation(d, p)
      BY <1>15, <3>1, <3>2 DEF PostOk, Rotation, Fresh
    <3> QED
      BY <3>3 DEF AuthStep
  <2> QED
    BY <2>1, <2>2
<1>16. ASSUME NEW d \in Devices, PostInvalid(d) PROVE AuthStep
  BY <1>16 DEF PostInvalid, Pushing, Idle, deviceVars, authVars, AuthStep
<1>17. ASSUME NEW d \in Devices, InDoubt(d) PROVE AuthStep
  BY <1>17 DEF InDoubt, Freed, Pushing, Idle, deviceVars, authVars, AuthStep
<1>18. ASSUME NEW d \in Devices, Frozen(d) PROVE AuthStep
  BY <1>18 DEF Frozen, AfterFreeze, Freed, Pushing, Idle, deviceVars, authVars, AuthStep
<1>19. ASSUME NEW d \in Devices, WriteAhead(d) PROVE AuthStep
  BY <1>19 DEF WriteAhead, AuthStep, authVars
<1>20. ASSUME NEW d \in Devices, WriteAheadFails(d) PROVE AuthStep
  BY <1>20 DEF WriteAheadFails, Done, Idle, deviceVars, authVars, AuthStep
<1>21. ASSUME NEW d \in Devices, Published(d) PROVE AuthStep
  BY <1>21 DEF Published, Done, Idle, deviceVars, authVars, AuthStep
<1>22. ASSUME NEW d \in Devices, Discarded(d) PROVE AuthStep
  BY <1>22 DEF Discarded, Done, Idle, deviceVars, authVars, AuthStep
<1>23. ASSUME NEW d \in Devices, Rebase(d) PROVE AuthStep
  BY <1>23 DEF Rebase, Answered, deviceVars, authVars, AuthStep
<1>24. ASSUME NEW d \in Devices, Kept(d) PROVE AuthStep
  BY <1>24 DEF Kept, Done, Idle, deviceVars, authVars, AuthStep
<1>25. ASSUME NEW d \in Devices, Superseded(d) PROVE AuthStep
  BY <1>25 DEF Superseded, Done, Idle, deviceVars, authVars, AuthStep
<1>26. ASSUME NEW d \in Devices, Remove(d) PROVE AuthStep
  BY <1>26 DEF Remove, deviceVars, authVars, AuthStep
<1>27. ASSUME NEW d \in Devices, Crash(d) PROVE AuthStep
  BY <1>27 DEF Crash, Idle, deviceVars, authVars, AuthStep
<1>28. ASSUME NEW d \in Devices, SignIn(d) PROVE AuthStep
  BY <1>28, SignInPushes DEF SignIn, SignsIn, AuthStep
<1>29. ASSUME NEW s \in strays, ArriveLate(s) PROVE AuthStep
  BY <1>29 DEF ArriveLate, deviceVars, authVars, AuthStep
<1>30. ASSUME Bury PROVE AuthStep
  BY <1>30 DEF Bury, deviceVars, authVars, AuthStep
<1> QED
  BY <1>1, <1>2, <1>3, <1>4, <1>5, <1>6, <1>7, <1>8, <1>9, <1>10, <1>11, <1>12, <1>13,
     <1>14, <1>15, <1>16, <1>17, <1>18, <1>19, <1>20, <1>21, <1>22, <1>23, <1>24, <1>25,
     <1>26, <1>27, <1>28, <1>29, <1>30 DEF Next, Present, Settle

(* What a step may do to a row.                                               *)
Takes(e, rev, is) ==
  rows'[e].rev = rev /\ rows'[e].is = is /\ rows'[e].claim # "lapsed"

Stays(e) ==
  /\ rows'[e].rev = rows[e].rev
  /\ rows'[e].is = rows[e].is \/ rows'[e].is = Empty
  /\ rows'[e].claim = "lapsed" => rows[e].claim = "lapsed" \/ LeaseOver(e)

RowStep(e) ==
  \/ Stays(e)
  \/ Takes(e, 0, Empty)
  \/ Takes(e, server.rev, server.is)
  \/ calls[e].answer = "ok" /\ Takes(e, calls[e].base + 1, calls[e].is)
  \/ calls[e].answer = "conflict" /\ Takes(e, calls[e].base, calls[e].is)

(* A row either stays or takes in the record it is shown.                       *)
LEMMA AdoptedIs ==
  ASSUME NEW r \in Row, NEW rev, NEW is, NEW s, s = Adopted(r, rev, is)
  PROVE  s = r \/ (s.rev = rev /\ s.is = is /\ s.claim = "new" /\ s.pending = r.pending)
BY DEF Adopted, Row

(* Either way it is a row.                                                    *)
LEMMA AdoptedTyped ==
  ASSUME NEW r \in Row, NEW rev \in Nat, NEW is \in Content
  PROVE  Adopted(r, rev, is) \in Row
BY DEF Adopted, Row

(* A row changes as its owner or a pull says.                                  *)
LEMMA RowSteps ==
  ASSUME GrantAssumption, TypeOK, Next, NEW e \in Devices
  PROVE  RowStep(e)
<1>0. /\ calls \in [Devices -> Call] /\ rows \in [Devices -> Row] /\ server \in Record
      /\ \A i \in Devices : rows[i] \in Row
      /\ server.rev \in Nat /\ server.is \in Content
      /\ \A i \in Devices : calls[i].base \in Nat /\ calls[i].is \in Content
      /\ \A i \in Devices : calls[i].base + 1 \in Nat
  <2>1. /\ calls \in [Devices -> Call] /\ rows \in [Devices -> Row] /\ server \in Record
    BY DEF TypeOK
  <2>2. \A i \in Devices : calls[i].base \in Nat /\ calls[i].is \in Content
    BY <2>1 DEF Call
  <2> QED
    BY <2>1, <2>2 DEF Record
<1>50. (rows' = rows \/ rows'[e] = rows[e]) => RowStep(e)
  BY DEF RowStep, Stays
<1>1. ASSUME NEW d \in Devices, Serve(d) PROVE RowStep(e)
  BY <1>1, <1>0, <1>50 DEF Serve, Write, Result, deviceVars, authVars, Row, RowStep,
     Takes, Stays, Cleared, Call, Record
<1>2. ASSUME NEW d \in Devices, LosePush(d) PROVE RowStep(e)
  BY <1>2, <1>0, <1>50 DEF LosePush, deviceVars, authVars, Row, RowStep, Takes, Stays,
     Cleared, Call, Record
<1>3. ASSUME NEW d \in Devices, Pull(d) PROVE RowStep(e)
  <2>1. CASE e = d /\ server.gone
    BY <1>0, <2>1, <1>3 DEF Pull, NoRow, RowStep, Takes
  <2>2. CASE e = d /\ ~server.gone
    <3>1. rows'[e] = Adopted(rows[e], server.rev, server.is)
      BY <1>0, <2>2, <1>3 DEF Pull
    <3>2. \/ rows'[e] = rows[e]
          \/ (/\ rows'[e].rev = server.rev /\ rows'[e].is = server.is
              /\ rows'[e].claim = "new")
      BY <1>0, <3>1, AdoptedIs
    <3> QED
      BY <3>2 DEF RowStep, Stays, Takes
  <2>3. CASE e # d
    BY <1>0, <1>50, <2>3, <1>3 DEF Pull
  <2> QED
    BY <2>1, <2>2, <2>3
<1>4. ASSUME NEW d \in Devices, Publish(d) PROVE RowStep(e)
  BY <1>4, <1>0, <1>50 DEF Publish, Pushing, Idle, deviceVars, authVars, Row, RowStep,
     Takes, Stays, Cleared, Call, Record
<1>5. ASSUME NEW d \in Devices, Watch(d) PROVE RowStep(e)
  BY <1>5, <1>0, <1>50 DEF Watch, deviceVars, authVars, Row, RowStep, Takes, Stays,
     Cleared, Call, Record
<1>6. ASSUME NEW d \in Devices, LeaseOver(d) PROVE RowStep(e)
  BY <1>6, <1>0, <1>50 DEF LeaseOver, Overslept, deviceVars, authVars, Row, RowStep,
     Takes, Stays, Cleared, Call, Record
<1>7. ASSUME NEW d \in Devices, Claim(d) PROVE RowStep(e)
  BY <1>7, <1>0, <1>50 DEF Claim, Pushing, Idle, deviceVars, authVars, Row, RowStep,
     Takes, Stays, Cleared, Call, Record
<1>8. ASSUME NEW d \in Devices, ClaimWon(d) PROVE RowStep(e)
  <2>1. CASE e = d
    <3>1. rows'[e] = Adopted(rows[e], calls[e].base + 1, calls[e].is)
      BY <1>0, <2>1, <1>8 DEF ClaimWon, Stored
    <3>2. \/ rows'[e] = rows[e]
          \/ (rows'[e].rev = calls[e].base + 1 /\ rows'[e].is = calls[e].is
              /\ rows'[e].claim = "new")
      BY <1>0, <3>1, AdoptedIs
    <3> QED
      BY <2>1, <3>2, <1>8 DEF RowStep, Stays, Takes, ClaimWon, Answered
  <2>2. CASE e # d
    BY <1>0, <1>50, <2>2, <1>8 DEF ClaimWon
  <2> QED
    BY <2>1, <2>2
<1>9. ASSUME NEW d \in Devices, Conflict(d) PROVE RowStep(e)
  <2>1. CASE e = d
    <3>1. rows'[e] = Adopted(rows[e], calls[e].base, calls[e].is)
      BY <1>0, <2>1, <1>9 DEF Conflict, AdoptCurrent
    <3>2. \/ rows'[e] = rows[e]
          \/ (rows'[e].rev = calls[e].base /\ rows'[e].is = calls[e].is
              /\ rows'[e].claim = "new")
      BY <1>0, <3>1, AdoptedIs
    <3> QED
      BY <2>1, <3>2, <1>9 DEF RowStep, Stays, Takes, Conflict
  <2>2. CASE e # d
    BY <1>0, <1>50, <2>2, <1>9 DEF Conflict, AdoptCurrent
  <2> QED
    BY <2>1, <2>2
<1>10. ASSUME NEW d \in Devices, Settled(d) PROVE RowStep(e)
  <2>1. CASE e = d
    <3>1. rows'[e] = Adopted(rows[e], calls[e].base + 1, calls[e].is)
      BY <1>0, <2>1, <1>10 DEF Settled, Stored
    <3>2. \/ rows'[e] = rows[e]
          \/ (rows'[e].rev = calls[e].base + 1 /\ rows'[e].is = calls[e].is
              /\ rows'[e].claim = "new")
      BY <1>0, <3>1, AdoptedIs
    <3> QED
      BY <2>1, <3>2, <1>10 DEF RowStep, Stays, Takes, Settled, Answered
  <2>2. CASE e # d
    BY <1>0, <1>50, <2>2, <1>10 DEF Settled
  <2> QED
    BY <2>1, <2>2
<1>11. ASSUME NEW d \in Devices, GiveUp(d) PROVE RowStep(e)
  BY <1>11, <1>0, <1>50 DEF GiveUp, Done, Idle, deviceVars, authVars, Row, RowStep, Takes,
     Stays, Cleared, Call, Record
<1>12. ASSUME NEW d \in Devices, Freeze(d) PROVE RowStep(e)
  BY <1>12, <1>0, <1>50 DEF Freeze, deviceVars, authVars, Row, RowStep, Takes, Stays,
     Cleared, Call, Record
<1>13. ASSUME NEW d \in Devices, PostLost(d) PROVE RowStep(e)
  BY <1>13, <1>0, <1>50 DEF PostLost, deviceVars, authVars, Row, RowStep, Takes, Stays,
     Cleared, Call, Record
<1>14. ASSUME NEW d \in Devices, PostFails(d) PROVE RowStep(e)
  BY <1>14, <1>0, <1>50 DEF PostFails, Freed, Pushing, Idle, deviceVars, authVars, Row,
     RowStep, Takes, Stays, Cleared, Call, Record
<1>15. ASSUME NEW d \in Devices, PostOk(d) PROVE RowStep(e)
  BY <1>15, <1>0, <1>50 DEF PostOk, deviceVars, authVars, Row, RowStep, Takes, Stays,
     Cleared, Call, Record
<1>16. ASSUME NEW d \in Devices, PostInvalid(d) PROVE RowStep(e)
  BY <1>16, <1>0, <1>50 DEF PostInvalid, Pushing, Idle, deviceVars, authVars, Row,
     RowStep, Takes, Stays, Cleared, Call, Record
<1>17. ASSUME NEW d \in Devices, InDoubt(d) PROVE RowStep(e)
  BY <1>17, <1>0, <1>50 DEF InDoubt, Freed, Pushing, Idle, deviceVars, authVars, Row,
     RowStep, Takes, Stays, Cleared, Call, Record
<1>18. ASSUME NEW d \in Devices, Frozen(d) PROVE RowStep(e)
  BY <1>18, <1>0, <1>50 DEF Frozen, AfterFreeze, Freed, Pushing, Idle, deviceVars,
     authVars, Row, RowStep, Takes, Stays, Cleared, Call, Record
<1>19. ASSUME NEW d \in Devices, WriteAhead(d) PROVE RowStep(e)
  BY <1>19, <1>0, <1>50 DEF WriteAhead, Done, Pushing, Idle, deviceVars, authVars, Row,
     RowStep, Takes, Stays, Cleared, Call, Record
<1>20. ASSUME NEW d \in Devices, WriteAheadFails(d) PROVE RowStep(e)
  BY <1>20, <1>0, <1>50 DEF WriteAheadFails, Done, Idle, deviceVars, authVars, Row,
     RowStep, Takes, Stays, Cleared, Call, Record
<1>21. ASSUME NEW d \in Devices, Published(d) PROVE RowStep(e)
  <2>1. CASE e = d
    <3>1. rows'[e] = Cleared(Stored(rows[e], calls[e]))
      BY <1>0, <2>1, <1>21 DEF Published
    <3>2. \/ Stored(rows[e], calls[e]) = rows[e]
          \/ (/\ Stored(rows[e], calls[e]).rev = calls[e].base + 1
              /\ Stored(rows[e], calls[e]).is = calls[e].is /\ Stored(rows[e], calls[e]).claim = "new")
      BY <1>0, AdoptedIs DEF Stored
    <3>3. \A r \in Row : /\ Cleared(r).rev = r.rev /\ Cleared(r).is = r.is
                         /\ Cleared(r).claim = r.claim
      BY DEF Cleared, Row
    <3>4. Stored(rows[e], calls[e]) \in Row
      BY <1>0, AdoptedTyped DEF Stored
    <3>5. /\ rows'[e].rev = Stored(rows[e], calls[e]).rev
          /\ rows'[e].is = Stored(rows[e], calls[e]).is
          /\ rows'[e].claim = Stored(rows[e], calls[e]).claim
      BY <3>1, <3>3, <3>4
    <3>6. calls[e].answer = "ok"
      BY <2>1, <1>21 DEF Answered, Published
    <3> QED
      BY <3>2, <3>5, <3>6 DEF RowStep, Stays, Takes
  <2>2. CASE e # d
    BY <1>0, <1>50, <2>2, <1>21 DEF Published
  <2> QED
    BY <2>1, <2>2
<1>22. ASSUME NEW d \in Devices, Discarded(d) PROVE RowStep(e)
  BY <1>22, <1>0, <1>50 DEF Discarded, Done, Idle, deviceVars, authVars, Row, RowStep,
     Takes, Stays, Cleared, Call, Record
<1>23. ASSUME NEW d \in Devices, Rebase(d) PROVE RowStep(e)
  BY <1>23, <1>0, <1>50 DEF Rebase, Answered, deviceVars, authVars, Row, RowStep, Takes,
     Stays, Cleared, Call, Record
<1>24. ASSUME NEW d \in Devices, Kept(d) PROVE RowStep(e)
  BY <1>24, <1>0, <1>50 DEF Kept, Done, Idle, deviceVars, authVars, Row, RowStep, Takes,
     Stays, Cleared, Call, Record
<1>25. ASSUME NEW d \in Devices, Superseded(d) PROVE RowStep(e)
  <2>1. CASE e = d
    <3>1. rows'[e] = Cleared(Adopted(rows[e], calls[e].base, calls[e].is))
      BY <1>0, <2>1, <1>25 DEF Superseded
    <3>2. \/ Adopted(rows[e], calls[e].base, calls[e].is) = rows[e]
          \/ (/\ Adopted(rows[e], calls[e].base, calls[e].is).rev = calls[e].base
              /\ Adopted(rows[e], calls[e].base, calls[e].is).is = calls[e].is
              /\ Adopted(rows[e], calls[e].base, calls[e].is).claim = "new")
      BY <1>0, AdoptedIs DEF Stored
    <3>3. \A r \in Row : /\ Cleared(r).rev = r.rev /\ Cleared(r).is = r.is
                         /\ Cleared(r).claim = r.claim
      BY DEF Cleared, Row
    <3>4. Adopted(rows[e], calls[e].base, calls[e].is) \in Row
      BY <1>0, AdoptedTyped DEF Stored
    <3>5. /\ rows'[e].rev = Adopted(rows[e], calls[e].base, calls[e].is).rev
          /\ rows'[e].is = Adopted(rows[e], calls[e].base, calls[e].is).is
          /\ rows'[e].claim = Adopted(rows[e], calls[e].base, calls[e].is).claim
      BY <3>1, <3>3, <3>4
    <3>6. calls[e].answer = "conflict"
      BY <2>1, <1>25 DEF Answered, Superseded
    <3> QED
      BY <3>2, <3>5, <3>6 DEF RowStep, Stays, Takes
  <2>2. CASE e # d
    BY <1>0, <1>50, <2>2, <1>25 DEF Superseded
  <2> QED
    BY <2>1, <2>2
<1>26. ASSUME NEW d \in Devices, Remove(d) PROVE RowStep(e)
  BY <1>26, <1>0, <1>50 DEF Remove, deviceVars, authVars, Row, RowStep, Takes, Stays,
     Cleared, Call, Record
<1>27. ASSUME NEW d \in Devices, Crash(d) PROVE RowStep(e)
  BY <1>27, <1>0, <1>50 DEF Crash, Idle, deviceVars, authVars, Row, RowStep, Takes, Stays,
     Cleared, Call, Record
<1>28. ASSUME NEW d \in Devices, SignIn(d) PROVE RowStep(e)
  <2>1. PICK h : rows' = [rows EXCEPT ![d] = [rows[d] EXCEPT !.here = TRUE, !.is = Empty, !.pending = h]]
    BY <1>28, SignInPushes
  <2> QED
    BY <1>0, <1>50, <2>1 DEF RowStep, Stays, Row
<1>29. ASSUME NEW s \in strays, ArriveLate(s) PROVE RowStep(e)
  BY <1>29, <1>0, <1>50 DEF ArriveLate, deviceVars, authVars, Row, RowStep, Takes, Stays,
     Cleared, Call, Record
<1>30. ASSUME Bury PROVE RowStep(e)
  BY <1>30, <1>0, <1>50 DEF Bury, deviceVars, authVars, Row, RowStep, Takes, Stays,
     Cleared, Call, Record
<1> QED
  BY <1>1, <1>2, <1>3, <1>4, <1>5, <1>6, <1>7, <1>8, <1>9, <1>10, <1>11, <1>12, <1>13,
     <1>14, <1>15, <1>16, <1>17, <1>18, <1>19, <1>20, <1>21, <1>22, <1>23, <1>24, <1>25,
     <1>26, <1>27, <1>28, <1>29, <1>30 DEF Next, Present, Settle

(* What a call shows after a quiet step was to be seen before.                  *)
LEMMA ReadToo ==
  ASSUME GrantAssumption, TypeOK, Next, Quiet, NEW e \in Devices, NEW x \in Pairs,
         Reads(e)', Token(e)' = x
  PROVE  Shown(x)
<1>0. /\ calls \in [Devices -> Call] /\ rows \in [Devices -> Row] /\ server \in Record
      /\ x # 0 /\ Empty.tokens = 0 /\ Awaits = {"claim", "release", "kill", "publish"}
  BY DEF TypeOK, Pairs, Empty, Awaits
<1>50. (calls' = calls \/ calls'[e] = calls[e]) => Shown(x)
  BY Reads(e)', Token(e)' = x DEF Shown, Reads, Token
<1>51. ASSUME NEW d \in Devices, NEW base, NEW h, PublishesWith(d, base, h)
       PROVE  Shown(x)
  BY <1>50, <1>51, Reads(e)' DEF PublishesWith, Publishing, Reads
<1>1. ASSUME NEW d \in Devices, Serve(d) PROVE Shown(x)
  <2>1. CASE e # d
    <3>1. calls'[e] = calls[e]
      BY <1>0, <1>1, <2>1 DEF Serve
    <3> QED
      BY <1>50, <3>1
  <2>2. CASE e = d
    <3>1. /\ calls'[e].at = calls[e].at /\ calls'[e].answer = Result(calls[e].base)
          /\ calls'[e].is = IF Result(calls[e].base) = "conflict" THEN server.is ELSE calls[e].is
      BY <1>0, <1>1, <2>2 DEF Serve, Call
    <3>2. Result(calls[e].base) # "ok"
      BY <1>0, <1>1, <2>2, Quiet DEF Serve, Write, Quiet, Record
    <3>3. CASE Result(calls[e].base) = "conflict"
      BY <3>1, <3>3, Token(e)' = x DEF Token, Shown
    <3>4. CASE Result(calls[e].base) = "tombstoned"
      BY <3>1, <3>4, Reads(e)', Token(e)' = x DEF Token, Reads, Shown
    <3> QED
      BY <3>2, <3>3, <3>4 DEF Result
  <2> QED
    BY <2>1, <2>2
<1>2. ASSUME NEW d \in Devices, LosePush(d) PROVE Shown(x)
  BY <1>2, <1>0, <1>50, Quiet, Reads(e)', Token(e)' = x DEF LosePush, deviceVars,
     authVars, Row, Quiet, Shown, Reads, Token, Call, Record, MaySend
<1>3. ASSUME NEW d \in Devices, Pull(d) PROVE Shown(x)
  BY <1>3, <1>0, <1>50, Quiet, Reads(e)', Token(e)' = x DEF Pull, deviceVars, authVars,
     Row, Quiet, Shown, Reads, Token, Call, Record, MaySend
<1>4. ASSUME NEW d \in Devices, Publish(d) PROVE Shown(x)
  BY <1>51, <1>4, PublishPushes
<1>5. ASSUME NEW d \in Devices, Watch(d) PROVE Shown(x)
  BY <1>5, <1>0, <1>50, Quiet, Reads(e)', Token(e)' = x DEF Watch, deviceVars, authVars,
     Row, Quiet, Shown, Reads, Token, Call, Record, MaySend
<1>6. ASSUME NEW d \in Devices, LeaseOver(d) PROVE Shown(x)
  <2>1. calls'[e].at = calls[e].at /\ calls'[e].answer = calls[e].answer
        /\ calls'[e].is = calls[e].is
    BY <1>0, <1>6 DEF LeaseOver, Call
  <2> QED
    BY <2>1, Reads(e)', Token(e)' = x DEF Shown, Reads, Token
<1>7. ASSUME NEW d \in Devices, Claim(d) PROVE Shown(x)
  BY <1>7, <1>0, <1>50, Quiet, Reads(e)', Token(e)' = x DEF Claim, Pushing, Idle,
     deviceVars, authVars, Row, Quiet, Shown, Reads, Token, Call, Record, MaySend
<1>8. ASSUME NEW d \in Devices, ClaimWon(d) PROVE Shown(x)
  BY <1>8, <1>0, <1>50, Quiet, Reads(e)', Token(e)' = x DEF ClaimWon, Answered,
     deviceVars, authVars, Row, Quiet, Shown, Reads, Token, Call, Record, MaySend
<1>9. ASSUME NEW d \in Devices, Conflict(d) PROVE Shown(x)
  BY <1>9, <1>0, <1>50, Quiet, Reads(e)', Token(e)' = x DEF Conflict, Done, Idle,
     AdoptCurrent, deviceVars, authVars, Row, Quiet, Shown, Reads, Token, Call, Record,
     MaySend
<1>10. ASSUME NEW d \in Devices, Settled(d) PROVE Shown(x)
  BY <1>10, <1>0, <1>50, Quiet, Reads(e)', Token(e)' = x DEF Settled, Done, Idle,
     deviceVars, authVars, Row, Quiet, Shown, Reads, Token, Call, Record, MaySend
<1>11. ASSUME NEW d \in Devices, GiveUp(d) PROVE Shown(x)
  BY <1>11, <1>0, <1>50, Quiet, Reads(e)', Token(e)' = x DEF GiveUp, Done, Idle,
     deviceVars, authVars, Row, Quiet, Shown, Reads, Token, Call, Record, MaySend
<1>12. ASSUME NEW d \in Devices, Freeze(d) PROVE Shown(x)
  BY <1>12, <1>0, <1>50, Quiet, Reads(e)', Token(e)' = x DEF Freeze, deviceVars, authVars,
     Row, Quiet, Shown, Reads, Token, Call, Record, MaySend
<1>13. ASSUME NEW d \in Devices, PostLost(d) PROVE Shown(x)
  BY <1>13, <1>0, <1>50, Quiet, Reads(e)', Token(e)' = x DEF PostLost, deviceVars,
     authVars, Row, Quiet, Shown, Reads, Token, Call, Record, MaySend
<1>14. ASSUME NEW d \in Devices, PostFails(d) PROVE Shown(x)
  BY <1>14, <1>0, <1>50, Quiet, Reads(e)', Token(e)' = x DEF PostFails, Freed, Pushing,
     Idle, deviceVars, authVars, Row, Quiet, Shown, Reads, Token, Call, Record, MaySend
<1>15. ASSUME NEW d \in Devices, PostOk(d) PROVE Shown(x)
  BY <1>15, <1>0, <1>50, Quiet, Reads(e)', Token(e)' = x DEF PostOk, deviceVars, authVars,
     Row, Quiet, Shown, Reads, Token, Call, Record, MaySend
<1>16. ASSUME NEW d \in Devices, PostInvalid(d) PROVE Shown(x)
  BY <1>16, <1>0, <1>50, Quiet, Reads(e)', Token(e)' = x DEF PostInvalid, Pushing, Idle,
     deviceVars, authVars, Row, Quiet, Shown, Reads, Token, Call, Record, MaySend
<1>17. ASSUME NEW d \in Devices, InDoubt(d) PROVE Shown(x)
  BY <1>17, <1>0, <1>50, Quiet, Reads(e)', Token(e)' = x DEF InDoubt, Freed, Pushing,
     Idle, deviceVars, authVars, Row, Quiet, Shown, Reads, Token, Call, Record, MaySend
<1>18. ASSUME NEW d \in Devices, Frozen(d) PROVE Shown(x)
  BY <1>18, <1>0, <1>50, Quiet, Reads(e)', Token(e)' = x DEF Frozen, AfterFreeze, Freed,
     Pushing, Idle, deviceVars, authVars, Row, Quiet, Shown, Reads, Token, Call, Record,
     MaySend
<1>19. ASSUME NEW d \in Devices, WriteAhead(d) PROVE Shown(x)
  <2>1. CASE rows[d].here
    BY <1>51, <1>19, <2>1, WriteAheadPushes
  <2>2. CASE ~rows[d].here
    BY <1>0, <1>19, <2>2, Reads(e)', Token(e)' = x DEF WriteAhead, Done, Idle, Shown,
       Reads, Token
  <2> QED
    BY <2>1, <2>2
<1>20. ASSUME NEW d \in Devices, WriteAheadFails(d) PROVE Shown(x)
  BY <1>20, <1>0, <1>50, Quiet, Reads(e)', Token(e)' = x DEF WriteAheadFails, Done, Idle,
     deviceVars, authVars, Row, Quiet, Shown, Reads, Token, Call, Record, MaySend
<1>21. ASSUME NEW d \in Devices, Published(d) PROVE Shown(x)
  BY <1>21, <1>0, <1>50, Quiet, Reads(e)', Token(e)' = x DEF Published, Done, Idle,
     deviceVars, authVars, Row, Quiet, Shown, Reads, Token, Call, Record, MaySend
<1>22. ASSUME NEW d \in Devices, Discarded(d) PROVE Shown(x)
  BY <1>22, <1>0, <1>50, Quiet, Reads(e)', Token(e)' = x DEF Discarded, Done, Idle,
     deviceVars, authVars, Row, Quiet, Shown, Reads, Token, Call, Record, MaySend
<1>23. ASSUME NEW d \in Devices, Rebase(d) PROVE Shown(x)
  BY <1>23, <1>0, <1>50, Quiet, Reads(e)', Token(e)' = x DEF Rebase, Answered, deviceVars,
     authVars, Row, Quiet, Shown, Reads, Token, Call, Record, MaySend
<1>24. ASSUME NEW d \in Devices, Kept(d) PROVE Shown(x)
  BY <1>24, <1>0, <1>50, Quiet, Reads(e)', Token(e)' = x DEF Kept, Done, Idle, deviceVars,
     authVars, Row, Quiet, Shown, Reads, Token, Call, Record, MaySend
<1>25. ASSUME NEW d \in Devices, Superseded(d) PROVE Shown(x)
  BY <1>25, <1>0, <1>50, Quiet, Reads(e)', Token(e)' = x DEF Superseded, Done, Idle,
     deviceVars, authVars, Row, Quiet, Shown, Reads, Token, Call, Record, MaySend
<1>26. ASSUME NEW d \in Devices, Remove(d) PROVE Shown(x)
  BY <1>26, <1>0, <1>50, Quiet, Reads(e)', Token(e)' = x DEF Remove, deviceVars, authVars,
     Row, Quiet, Shown, Reads, Token, Call, Record, MaySend
<1>27. ASSUME NEW d \in Devices, Crash(d) PROVE Shown(x)
  BY <1>27, <1>0, <1>50, Quiet, Reads(e)', Token(e)' = x DEF Crash, Idle, deviceVars,
     authVars, Row, Quiet, Shown, Reads, Token, Call, Record, MaySend
<1>28. ASSUME NEW d \in Devices, SignIn(d) PROVE Shown(x)
  BY <1>51, <1>28, SignInPushes
<1>29. ASSUME NEW s \in strays, ArriveLate(s) PROVE Shown(x)
  BY <1>29, <1>0, <1>50, Quiet, Reads(e)', Token(e)' = x DEF ArriveLate, deviceVars,
     authVars, Row, Quiet, Shown, Reads, Token, Call, Record, MaySend
<1>30. ASSUME Bury PROVE Shown(x)
  BY <1>30, <1>0, <1>50, Quiet, Reads(e)', Token(e)' = x DEF Bury, deviceVars, authVars,
     Row, Quiet, Shown, Reads, Token, Call, Record, MaySend
<1> QED
  BY <1>1, <1>2, <1>3, <1>4, <1>5, <1>6, <1>7, <1>8, <1>9, <1>10, <1>11, <1>12, <1>13,
     <1>14, <1>15, <1>16, <1>17, <1>18, <1>19, <1>20, <1>21, <1>22, <1>23, <1>24, <1>25,
     <1>26, <1>27, <1>28, <1>29, <1>30 DEF Next, Present, Settle

(* A pair is rotated once.                                                    *)
NextKept == \A x \in Pairs : next[x] # 0 => next'[x] = next[x]

(* No step forgets a rotation.                                                *)
LEMMA NextStep ==
  ASSUME GrantAssumption, TypeOK, Next
  PROVE  NextKept
BY AuthSteps DEF AuthStep, Rotation, Rotated, SignsIn, NextKept, TypeOK

(* Quiet steps show no pair that was not shown.                               *)
LEMMA ShownKept ==
  ASSUME GrantAssumption, TypeOK, Next, Quiet, NEW x \in Pairs, Shown(x)'
  PROVE  Shown(x)
<1>1. CASE server'.is.tokens = x
  BY <1>1, Quiet DEF Shown, Quiet
<1>2. CASE next'[x] # 0
  <2>1. CASE next'[x] = next[x]
    BY <1>2, <2>1 DEF Shown
  <2>2. CASE next'[x] # next[x]
    <3>1. PICK d \in Devices, p \in Pairs : Rotation(d, p)
      BY <2>2, AuthSteps DEF AuthStep, SignsIn
    <3>2. x = Token(d)
      BY <2>2, <3>1 DEF Rotation, Rotated, TypeOK
    <3> QED
      BY <3>1, <3>2 DEF Rotation, MaySend, Shown, Reads
  <2> QED
    BY <2>1, <2>2
<1>3. ASSUME NEW d \in Devices, rows'[d].is.tokens = x
      PROVE  Shown(x)
  <2>1. RowStep(d) /\ Empty.tokens = 0 /\ x # 0
    BY RowSteps DEF Empty, Pairs
  <2> QED
    BY <1>3, <2>1 DEF RowStep, Stays, Takes, Shown, Reads, Token
<1>4. ASSUME NEW d \in Devices, Reads(d)', Token(d)' = x
      PROVE  Shown(x)
  BY <1>4, ReadToo
<1> QED
  BY <1>1, <1>2, <1>3, <1>4, Shown(x)' DEF Shown

(* Where a stray request comes from.                                          *)
StrayFrom(s) ==
  \/ s \in strays
  \/ \E d \in Devices : /\ Asks(d) /\ (SignInsLost \/ ~calls[d].held.fresh)
                        /\ s = [at |-> calls[d].at, base |-> calls[d].base, is |-> calls[d].is]

(* A stray was asked for by a device that gave it up.                          *)
LEMMA StraySteps ==
  ASSUME GrantAssumption, TypeOK, Next, NEW s \in strays'
  PROVE  StrayFrom(s)
<1>1. ASSUME NEW d \in Devices, Serve(d) PROVE StrayFrom(s)
  BY <1>1 DEF Serve, Write, Result, deviceVars, authVars, StrayFrom, Asks
<1>2. ASSUME NEW d \in Devices, LosePush(d) PROVE StrayFrom(s)
  <2>1. CASE strays' = strays
    BY <2>1 DEF StrayFrom
  <2>2. CASE strays' # strays
    BY <1>2, <2>2 DEF LosePush, StrayFrom, Asks
  <2> QED
    BY <2>1, <2>2
<1>3. ASSUME NEW d \in Devices, Pull(d) PROVE StrayFrom(s)
  BY <1>3 DEF Pull, deviceVars, authVars, StrayFrom, Asks
<1>4. ASSUME NEW d \in Devices, Publish(d) PROVE StrayFrom(s)
  BY <1>4 DEF Publish, Pushing, Idle, deviceVars, authVars, StrayFrom, Asks
<1>5. ASSUME NEW d \in Devices, Watch(d) PROVE StrayFrom(s)
  BY <1>5 DEF Watch, deviceVars, authVars, StrayFrom, Asks
<1>6. ASSUME NEW d \in Devices, LeaseOver(d) PROVE StrayFrom(s)
  BY <1>6 DEF LeaseOver, Overslept, deviceVars, authVars, StrayFrom, Asks
<1>7. ASSUME NEW d \in Devices, Claim(d) PROVE StrayFrom(s)
  BY <1>7 DEF Claim, Pushing, Idle, deviceVars, authVars, StrayFrom, Asks
<1>8. ASSUME NEW d \in Devices, ClaimWon(d) PROVE StrayFrom(s)
  BY <1>8 DEF ClaimWon, Answered, deviceVars, authVars, StrayFrom, Asks
<1>9. ASSUME NEW d \in Devices, Conflict(d) PROVE StrayFrom(s)
  BY <1>9 DEF Conflict, Done, Idle, AdoptCurrent, deviceVars, authVars, StrayFrom, Asks
<1>10. ASSUME NEW d \in Devices, Settled(d) PROVE StrayFrom(s)
  BY <1>10 DEF Settled, Done, Idle, deviceVars, authVars, StrayFrom, Asks
<1>11. ASSUME NEW d \in Devices, GiveUp(d) PROVE StrayFrom(s)
  BY <1>11 DEF GiveUp, Done, Idle, deviceVars, authVars, StrayFrom, Asks
<1>12. ASSUME NEW d \in Devices, Freeze(d) PROVE StrayFrom(s)
  BY <1>12 DEF Freeze, deviceVars, authVars, StrayFrom, Asks
<1>13. ASSUME NEW d \in Devices, PostLost(d) PROVE StrayFrom(s)
  BY <1>13 DEF PostLost, deviceVars, authVars, StrayFrom, Asks
<1>14. ASSUME NEW d \in Devices, PostFails(d) PROVE StrayFrom(s)
  BY <1>14 DEF PostFails, Freed, Pushing, Idle, deviceVars, authVars, StrayFrom, Asks
<1>15. ASSUME NEW d \in Devices, PostOk(d) PROVE StrayFrom(s)
  BY <1>15 DEF PostOk, deviceVars, authVars, StrayFrom, Asks
<1>16. ASSUME NEW d \in Devices, PostInvalid(d) PROVE StrayFrom(s)
  BY <1>16 DEF PostInvalid, Pushing, Idle, deviceVars, authVars, StrayFrom, Asks
<1>17. ASSUME NEW d \in Devices, InDoubt(d) PROVE StrayFrom(s)
  BY <1>17 DEF InDoubt, Freed, Pushing, Idle, deviceVars, authVars, StrayFrom, Asks
<1>18. ASSUME NEW d \in Devices, Frozen(d) PROVE StrayFrom(s)
  BY <1>18 DEF Frozen, AfterFreeze, Freed, Pushing, Idle, deviceVars, authVars, StrayFrom,
     Asks
<1>19. ASSUME NEW d \in Devices, WriteAhead(d) PROVE StrayFrom(s)
  BY <1>19 DEF WriteAhead, Done, Pushing, Idle, deviceVars, authVars, StrayFrom, Asks
<1>20. ASSUME NEW d \in Devices, WriteAheadFails(d) PROVE StrayFrom(s)
  BY <1>20 DEF WriteAheadFails, Done, Idle, deviceVars, authVars, StrayFrom, Asks
<1>21. ASSUME NEW d \in Devices, Published(d) PROVE StrayFrom(s)
  BY <1>21 DEF Published, Done, Idle, deviceVars, authVars, StrayFrom, Asks
<1>22. ASSUME NEW d \in Devices, Discarded(d) PROVE StrayFrom(s)
  BY <1>22 DEF Discarded, Done, Idle, deviceVars, authVars, StrayFrom, Asks
<1>23. ASSUME NEW d \in Devices, Rebase(d) PROVE StrayFrom(s)
  BY <1>23 DEF Rebase, Answered, deviceVars, authVars, StrayFrom, Asks
<1>24. ASSUME NEW d \in Devices, Kept(d) PROVE StrayFrom(s)
  BY <1>24 DEF Kept, Done, Idle, deviceVars, authVars, StrayFrom, Asks
<1>25. ASSUME NEW d \in Devices, Superseded(d) PROVE StrayFrom(s)
  BY <1>25 DEF Superseded, Done, Idle, deviceVars, authVars, StrayFrom, Asks
<1>26. ASSUME NEW d \in Devices, Remove(d) PROVE StrayFrom(s)
  BY <1>26 DEF Remove, deviceVars, authVars, StrayFrom, Asks
<1>27. ASSUME NEW d \in Devices, Crash(d) PROVE StrayFrom(s)
  BY <1>27 DEF Crash, Idle, deviceVars, authVars, StrayFrom, Asks
<1>28. ASSUME NEW d \in Devices, SignIn(d) PROVE StrayFrom(s)
  BY <1>28 DEF SignIn, Pushing, Idle, deviceVars, authVars, StrayFrom, Asks
<1>29. ASSUME NEW q \in strays, ArriveLate(q) PROVE StrayFrom(s)
  BY <1>29 DEF ArriveLate, deviceVars, authVars, StrayFrom, Asks
<1>30. ASSUME Bury PROVE StrayFrom(s)
  BY <1>30 DEF Bury, deviceVars, authVars, StrayFrom, Asks
<1> QED
  BY <1>1, <1>2, <1>3, <1>4, <1>5, <1>6, <1>7, <1>8, <1>9, <1>10, <1>11, <1>12, <1>13,
     <1>14, <1>15, <1>16, <1>17, <1>18, <1>19, <1>20, <1>21, <1>22, <1>23, <1>24, <1>25,
     <1>26, <1>27, <1>28, <1>29, <1>30 DEF Next, Present, Settle

(* A lease that is over: every call that may be presenting is late.            *)
LEMMA LapsedStep ==
  ASSUME GrantAssumption, TypeOK, Next, NEW e \in Devices, rows'[e].claim = "lapsed"
  PROVE  /\ rows'[e].rev = rows[e].rev
         /\ \/ rows[e].claim = "lapsed"
            \/ \A d \in Devices : Holder(d) /\ HeldAt(d) <= rows[e].rev => calls'[d].late
<1>1. Stays(e)
  BY RowSteps DEF RowStep, Takes
<1>2. ASSUME LeaseOver(e), NEW d \in Devices, Holder(d), HeldAt(d) <= rows[e].rev
      PROVE  calls'[d].late
  <2>1. calls'[d].late = (calls[d].late \/ Overslept(d, rows[e].rev))
    BY <1>2 DEF LeaseOver, TypeOK, Call
  <2>2. calls[d].base \in Nat /\ rows[e].rev \in Nat
    BY DEF TypeOK, Call, Row
  <2>3. Overslept(d, rows[e].rev)
    BY <1>2, <2>2 DEF Overslept, Holder, HeldAt
  <2> QED
    BY <2>1, <2>3
<1> QED
  BY <1>1, <1>2 DEF Stays

(* What a device asks for after a quiet step.                                  *)
AsksClaim(e) ==
  /\ Wanting(e) /\ (rows[e].is.claim = None \/ ClaimLapsed(e))
  /\ calls'[e].at = "claim" /\ calls'[e].base = rows[e].rev
  /\ calls'[e].is.tokens = rows[e].is.tokens /\ calls'[e].is.claim = e

AsksRelease(e) ==
  /\ calls[e].at = "present"
  /\ calls'[e].at = "release" /\ calls'[e].base = calls[e].base
  /\ calls'[e].is.tokens = Token(e) /\ calls'[e].is.claim = None
  /\ Token(e) \in doubted' \/ (next' = next /\ ~calls[e].sent)

AsksKill(e) ==
  /\ calls[e].at = "present" /\ next' = next
  /\ calls'[e].at = "kill" /\ calls'[e].base = calls[e].base /\ calls'[e].is = Empty
  /\ family' = family /\ family[Token(e)] \in revoked'

AskStep(e) ==
  Asks(e)' =>
    \/ /\ Asks(e) /\ calls'[e].at = calls[e].at /\ calls'[e].base = calls[e].base
       /\ calls'[e].is = calls[e].is /\ calls'[e].held = calls[e].held
    \/ AsksClaim(e) \/ AsksRelease(e) \/ AsksKill(e)
    \/ calls'[e].at = "publish"

(* Every action asks in one of these ways, or not.                             *)
LEMMA AskSteps ==
  ASSUME GrantAssumption, TypeOK, Next, NEW e \in Devices
  PROVE  AskStep(e)
<1>0. /\ calls \in [Devices -> Call] /\ rows \in [Devices -> Row]
      /\ "publish" \in Awaits /\ "present" \notin Awaits /\ "have" \notin Awaits /\ "idle" \notin Awaits
  BY DEF TypeOK, Awaits
<1>50. (calls' = calls \/ calls'[e] = calls[e]) => AskStep(e)
  BY DEF AskStep, Asks
<1>51. ASSUME NEW d \in Devices, NEW base, NEW h, PublishesWith(d, base, h)
       PROVE  AskStep(e)
  BY <1>50, <1>51 DEF PublishesWith, Publishing, AskStep, Asks
<1>1. ASSUME NEW d \in Devices, Serve(d) PROVE AskStep(e)
  BY <1>1, <1>0, <1>50 DEF Serve, Write, Result, deviceVars, authVars, AskStep, Asks,
     Call, MaySend
<1>2. ASSUME NEW d \in Devices, LosePush(d) PROVE AskStep(e)
  BY <1>2, <1>0, <1>50 DEF LosePush, deviceVars, authVars, AskStep, Asks, Call, MaySend
<1>3. ASSUME NEW d \in Devices, Pull(d) PROVE AskStep(e)
  BY <1>3, <1>0, <1>50 DEF Pull, deviceVars, authVars, AskStep, Asks, Call, MaySend
<1>4. ASSUME NEW d \in Devices, Publish(d) PROVE AskStep(e)
  BY <1>51, <1>4, PublishPushes
<1>5. ASSUME NEW d \in Devices, Watch(d) PROVE AskStep(e)
  BY <1>5, <1>0, <1>50 DEF Watch, deviceVars, authVars, AskStep, Asks, Call, MaySend
<1>6. ASSUME NEW d \in Devices, LeaseOver(d) PROVE AskStep(e)
  <2>1. calls'[e].at = calls[e].at /\ calls'[e].answer = calls[e].answer
        /\ calls'[e].is = calls[e].is /\ calls'[e].base = calls[e].base
        /\ calls'[e].held = calls[e].held
    BY <1>0, <1>6 DEF LeaseOver, Call
  <2> QED
    BY <2>1 DEF AskStep, Asks
<1>7. ASSUME NEW d \in Devices, Claim(d) PROVE AskStep(e)
  <2>1. CASE e = d
    <3>1. calls'[e] = Pushing("claim", rows[e].rev, [rows[e].is EXCEPT !.claim = e])
      BY <1>0, <1>7, <2>1 DEF Claim
    <3>2. AsksClaim(e)
      BY <1>0, <1>7, <2>1, <3>1, PushingIs DEF Claim, AsksClaim, Row, Content
    <3> QED
      BY <3>2 DEF AskStep
  <2>2. CASE e # d
    BY <1>0, <1>50, <1>7, <2>2 DEF Claim
  <2> QED
    BY <2>1, <2>2
<1>8. ASSUME NEW d \in Devices, ClaimWon(d) PROVE AskStep(e)
  BY <1>8, <1>0, <1>50 DEF ClaimWon, Answered, deviceVars, authVars, AskStep, Asks, Call,
     MaySend
<1>9. ASSUME NEW d \in Devices, Conflict(d) PROVE AskStep(e)
  BY <1>9, <1>0, <1>50 DEF Conflict, Done, Idle, AdoptCurrent, deviceVars, authVars,
     AskStep, Asks, Call, MaySend
<1>10. ASSUME NEW d \in Devices, Settled(d) PROVE AskStep(e)
  BY <1>10, <1>0, <1>50 DEF Settled, Done, Idle, deviceVars, authVars, AskStep, Asks,
     Call, MaySend
<1>11. ASSUME NEW d \in Devices, GiveUp(d) PROVE AskStep(e)
  BY <1>11, <1>0, <1>50 DEF GiveUp, Done, Idle, deviceVars, authVars, AskStep, Asks, Call,
     MaySend
<1>12. ASSUME NEW d \in Devices, Freeze(d) PROVE AskStep(e)
  BY <1>12, <1>0, <1>50 DEF Freeze, deviceVars, authVars, AskStep, Asks, Call, MaySend
<1>13. ASSUME NEW d \in Devices, PostLost(d) PROVE AskStep(e)
  BY <1>13, <1>0, <1>50 DEF PostLost, deviceVars, authVars, AskStep, Asks, Call, MaySend
<1>14. ASSUME NEW d \in Devices, PostFails(d) PROVE AskStep(e)
  <2>1. CASE e = d
    <3>1. calls'[e] = Freed(calls[e])
      BY <1>0, <1>14, <2>1 DEF PostFails
    <3>2. /\ calls'[e].at = "release" /\ calls'[e].base = calls[e].base
          /\ calls'[e].is.tokens = Token(e) /\ calls'[e].is.claim = None
      BY <1>0, <3>1, PushingIs DEF Freed, Token, Call, Content
    <3>3. AsksRelease(e)
      BY <1>14, <2>1, <3>1, <3>2 DEF PostFails, MaySend, AsksRelease, authVars
    <3> QED
      BY <3>3 DEF AskStep
  <2>2. CASE e # d
    BY <1>0, <1>50, <1>14, <2>2 DEF PostFails
  <2> QED
    BY <2>1, <2>2
<1>15. ASSUME NEW d \in Devices, PostOk(d) PROVE AskStep(e)
  BY <1>15, <1>0, <1>50 DEF PostOk, deviceVars, authVars, AskStep, Asks, Call, MaySend
<1>16. ASSUME NEW d \in Devices, PostInvalid(d) PROVE AskStep(e)
  <2>1. CASE e = d
    <3>1. calls'[e] = Pushing("kill", calls[e].base, Empty)
      BY <1>0, <1>16, <2>1 DEF PostInvalid
    <3>2. AsksKill(e)
      BY <1>16, <2>1, <3>1, PushingIs DEF PostInvalid, MaySend, AsksKill, Token
    <3> QED
      BY <3>2 DEF AskStep
  <2>2. CASE e # d
    BY <1>0, <1>50, <1>16, <2>2 DEF PostInvalid
  <2> QED
    BY <2>1, <2>2
<1>17. ASSUME NEW d \in Devices, InDoubt(d) PROVE AskStep(e)
  <2>1. CASE e = d
    <3>1. calls'[e] = Freed(calls[e])
      BY <1>0, <1>17, <2>1 DEF InDoubt
    <3>2. /\ calls'[e].at = "release" /\ calls'[e].base = calls[e].base
          /\ calls'[e].is.tokens = Token(e) /\ calls'[e].is.claim = None
      BY <1>0, <3>1, PushingIs DEF Freed, Token, Call, Content
    <3>3. AsksRelease(e)
      BY <1>17, <2>1, <3>1, <3>2 DEF InDoubt, MaySend, AsksRelease, authVars
    <3> QED
      BY <3>3 DEF AskStep
  <2>2. CASE e # d
    BY <1>0, <1>50, <1>17, <2>2 DEF InDoubt
  <2> QED
    BY <2>1, <2>2
<1>18. ASSUME NEW d \in Devices, Frozen(d) PROVE AskStep(e)
  <2>1. CASE e = d /\ ~calls[d].sent
    <3>1. calls'[e] = Freed(calls[e])
      BY <1>0, <1>18, <2>1 DEF Frozen, AfterFreeze
    <3>2. /\ calls'[e].at = "release" /\ calls'[e].base = calls[e].base
          /\ calls'[e].is.tokens = Token(e) /\ calls'[e].is.claim = None
      BY <1>0, <3>1, PushingIs DEF Freed, Token, Call, Content
    <3>3. AsksRelease(e)
      BY <1>18, <2>1, <3>1, <3>2 DEF Frozen, MaySend, AsksRelease, authVars
    <3> QED
      BY <3>3 DEF AskStep
  <2>2. CASE e # d \/ calls[d].sent
    BY <1>0, <1>50, <1>18, <2>2 DEF AskStep, Asks, Idle, Frozen, AfterFreeze
  <2> QED
    BY <2>1, <2>2
<1>19. ASSUME NEW d \in Devices, WriteAhead(d) PROVE AskStep(e)
  <2>1. CASE rows[d].here
    BY <1>51, <1>19, <2>1, WriteAheadPushes
  <2>2. CASE ~rows[d].here
    BY <1>0, <1>19, <2>2 DEF WriteAhead, Done, Idle, AskStep, Asks
  <2> QED
    BY <2>1, <2>2
<1>20. ASSUME NEW d \in Devices, WriteAheadFails(d) PROVE AskStep(e)
  BY <1>20, <1>0, <1>50 DEF WriteAheadFails, Done, Idle, deviceVars, authVars, AskStep,
     Asks, Call, MaySend
<1>21. ASSUME NEW d \in Devices, Published(d) PROVE AskStep(e)
  BY <1>21, <1>0, <1>50 DEF Published, Done, Idle, deviceVars, authVars, AskStep, Asks,
     Call, MaySend
<1>22. ASSUME NEW d \in Devices, Discarded(d) PROVE AskStep(e)
  BY <1>22, <1>0, <1>50 DEF Discarded, Done, Idle, deviceVars, authVars, AskStep, Asks,
     Call, MaySend
<1>23. ASSUME NEW d \in Devices, Rebase(d) PROVE AskStep(e)
  BY <1>23, <1>0, <1>50 DEF Rebase, Answered, deviceVars, authVars, AskStep, Asks, Call,
     MaySend
<1>24. ASSUME NEW d \in Devices, Kept(d) PROVE AskStep(e)
  BY <1>24, <1>0, <1>50 DEF Kept, Done, Idle, deviceVars, authVars, AskStep, Asks, Call,
     MaySend
<1>25. ASSUME NEW d \in Devices, Superseded(d) PROVE AskStep(e)
  BY <1>25, <1>0, <1>50 DEF Superseded, Done, Idle, deviceVars, authVars, AskStep, Asks,
     Call, MaySend
<1>26. ASSUME NEW d \in Devices, Remove(d) PROVE AskStep(e)
  BY <1>26, <1>0, <1>50 DEF Remove, deviceVars, authVars, AskStep, Asks, Call, MaySend
<1>27. ASSUME NEW d \in Devices, Crash(d) PROVE AskStep(e)
  BY <1>27, <1>0, <1>50 DEF Crash, Idle, deviceVars, authVars, AskStep, Asks, Call,
     MaySend
<1>28. ASSUME NEW d \in Devices, SignIn(d) PROVE AskStep(e)
  BY <1>51, <1>28, SignInPushes
<1>29. ASSUME NEW s \in strays, ArriveLate(s) PROVE AskStep(e)
  BY <1>29, <1>0, <1>50 DEF ArriveLate, deviceVars, authVars, AskStep, Asks, Call, MaySend
<1>30. ASSUME Bury PROVE AskStep(e)
  BY <1>30, <1>0, <1>50 DEF Bury, deviceVars, authVars, AskStep, Asks, Call, MaySend
<1> QED
  BY <1>1, <1>2, <1>3, <1>4, <1>5, <1>6, <1>7, <1>8, <1>9, <1>10, <1>11, <1>12, <1>13,
     <1>14, <1>15, <1>16, <1>17, <1>18, <1>19, <1>20, <1>21, <1>22, <1>23, <1>24, <1>25,
     <1>26, <1>27, <1>28, <1>29, <1>30 DEF Next, Present, Settle

-----------------------------------------------------------------------------
(* Rows, pending pairs and calls in a quiet step.                            *)

(* A quiet step keeps a row in line with the record.                           *)
LEMMA RowOKStep ==
  ASSUME GrantAssumption, TypeOK, Next, Quiet, NEW e \in Devices, RowOK(e), CallOK(e)
  PROVE  RowOK(e)'
<1>1. /\ server.rev \in Nat /\ calls[e].base \in Nat /\ rows[e].rev \in Nat /\ Empty.tokens = 0
      /\ calls[e].base + 1 \in Nat
  <2>1. server \in Record /\ calls[e] \in Call /\ rows[e] \in Row /\ Empty.tokens = 0
    BY DEF TypeOK, Empty
  <2> QED
    BY <2>1 DEF Record, Call, Row
<1>2. server'.rev = server.rev /\ server'.is = server.is
  BY Quiet DEF Quiet
<1>3. RowStep(e)
  BY RowSteps
<1>4. CASE Stays(e)
  BY <1>1, <1>2, <1>4 DEF Stays, RowOK
<1>5. CASE Takes(e, 0, Empty)
  BY <1>1, <1>2, <1>5 DEF Takes, RowOK
<1>6. CASE Takes(e, server.rev, server.is)
  BY <1>1, <1>2, <1>6 DEF Takes, RowOK
<1>7. CASE calls[e].answer = "ok" /\ Takes(e, calls[e].base + 1, calls[e].is)
  BY <1>1, <1>2, <1>7 DEF Takes, RowOK, CallOK
<1>8. CASE calls[e].answer = "conflict" /\ Takes(e, calls[e].base, calls[e].is)
  BY <1>1, <1>2, <1>8 DEF Takes, RowOK, CallOK
<1> QED
  BY <1>3, <1>4, <1>5, <1>6, <1>7, <1>8 DEF RowStep

(* A pair that is kept and a base that fits stay so in a quiet step.           *)
LEMMA SpentKept ==
  ASSUME TypeOK, NextKept, NEW h \in Pending, SpentOK(h)
  PROVE  SpentOK(h)'
BY DEF SpentOK, NextKept, Pending, Pairs

(* A base and the token it was read with still fit.                            *)
LEMMA FitsKept ==
  ASSUME Quiet, NEW base, NEW spent, FitsOn(base, spent)
  PROVE  FitsOn(base, spent)'
BY DEF Quiet, FitsOn

(* Nothing happens to the kept pair of a device.                               *)
LEMMA PendingFrame ==
  ASSUME TypeOK, NextKept, Quiet, NEW e \in Devices, PendingOK(e),
         rows'[e].pending = rows[e].pending,
         \/ calls'[e].at = "idle"
         \/ calls'[e].at = calls[e].at /\ calls'[e].held = calls[e].held
  PROVE  PendingOK(e)'
<1>0. PICK p : p = rows[e].pending
  OBVIOUS
<1>1. p \in Pending
  BY <1>0 DEF TypeOK, Row
<1>2. p.pair # 0 => SpentOK(p)' /\ (~p.fresh => FitsOn(p.base, p.spent)')
  BY <1>0, <1>1, SpentKept, FitsKept DEF PendingOK
<1>3. p.pair # 0 => /\ p.base <= server'.rev
                    /\ calls'[e].at # "idle" => calls'[e].at = "publish" /\ calls'[e].held = p
  BY <1>0 DEF PendingOK, Quiet
<1>4. p.pair = 0 => p = Nothing
  BY <1>0 DEF PendingOK
<1>5. rows'[e].pending = p
  BY <1>0
<1> QED
  BY <1>2, <1>3, <1>4, <1>5 DEF PendingOK

(* A quiet step keeps a pending pair publishable.                             *)
LEMMA PendingStep ==
  ASSUME GrantAssumption, TypeOK, Next, Quiet, NEW e \in Devices,
         PendingOK(e), CallOK(e), RowOK(e)
  PROVE  PendingOK(e)'
<1>0. /\ calls \in [Devices -> Call] /\ rows \in [Devices -> Row]
      /\ \A i \in Devices : rows[i] \in Row
      /\ Nothing.pair = 0 /\ Idle.at = "idle" /\ "publish" # "idle"
      /\ "have" \notin Awaits /\ "present" \notin Awaits
  BY DEF TypeOK, Nothing, Idle, Awaits
<1>49. NextKept
  BY NextStep
<1>50. ASSUME rows'[e].pending = rows[e].pending,
              \/ calls'[e].at = "idle"
              \/ calls'[e].at = calls[e].at /\ calls'[e].held = calls[e].held
       PROVE  PendingOK(e)'
  BY <1>49, <1>50, PendingFrame
<1>51. ASSUME rows'[e].pending = Nothing
       PROVE  PendingOK(e)'
  BY <1>0, <1>51 DEF PendingOK
<1>52. ASSUME rows'[e].pending = rows[e].pending, rows[e].pending.pair = 0
       PROVE  PendingOK(e)'
  BY <1>0, <1>51, <1>52 DEF PendingOK
<1>53. ASSUME rows'[e] = rows[e], calls'[e] = calls[e]
       PROVE  PendingOK(e)'
  BY <1>50, <1>53
<1>54. calls[e].at \notin {"idle", "publish"} => rows[e].pending.pair = 0
  BY DEF PendingOK
<1>1. ASSUME NEW d \in Devices, Serve(d) PROVE PendingOK(e)'
  <2>1. CASE e = d
    <3>1. rows'[e].pending = rows[e].pending
          /\ (calls'[e].at = "idle" \/ (calls'[e].at = calls[e].at /\ calls'[e].held = calls[e].held))
      BY <1>0, <1>54, <2>1, <1>1 DEF Serve, Write, Result, MaySend, Wanting, Free, Row,
         Call, Adopted, Stored, Cleared, AdoptCurrent, Answered, Awaits, NoRow
    <3> QED
      BY <1>50, <3>1
  <2>2. CASE e # d
    BY <1>0, <1>53, <1>1, <2>2 DEF Serve, Write, Result, AdoptCurrent
  <2> QED
    BY <2>1, <2>2
<1>2. ASSUME NEW d \in Devices, LosePush(d) PROVE PendingOK(e)'
  <2>1. CASE e = d
    <3>1. rows'[e].pending = rows[e].pending
          /\ (calls'[e].at = "idle" \/ (calls'[e].at = calls[e].at /\ calls'[e].held = calls[e].held))
      BY <1>0, <1>54, <2>1, <1>2 DEF LosePush, MaySend, Wanting, Free, Row, Call, Adopted,
         Stored, Cleared, AdoptCurrent, Answered, Awaits, NoRow
    <3> QED
      BY <1>50, <3>1
  <2>2. CASE e # d
    BY <1>0, <1>53, <1>2, <2>2 DEF LosePush, AdoptCurrent
  <2> QED
    BY <2>1, <2>2
<1>3. ASSUME NEW d \in Devices, Pull(d) PROVE PendingOK(e)'
  <2>1. CASE e = d
    <3>1. CASE server.gone
      <4>1. rows'[e].pending = Nothing
        BY <1>0, <2>1, <3>1, <1>3 DEF Pull, NoRow
      <4> QED
        BY <1>51, <4>1
    <3>2. CASE ~server.gone
      <4>1. rows'[e] = Adopted(rows[e], server.rev, server.is) /\ calls'[e] = calls[e]
        BY <1>0, <2>1, <3>2, <1>3 DEF Pull
      <4>2. rows'[e].pending = rows[e].pending
        BY <1>0, <4>1, AdoptedIs
      <4> QED
        BY <1>50, <4>1, <4>2
    <3> QED
      BY <3>1, <3>2
  <2>2. CASE e # d
    BY <1>0, <1>53, <1>3, <2>2 DEF Pull
  <2> QED
    BY <2>1, <2>2
<1>4. ASSUME NEW d \in Devices, Publish(d) PROVE PendingOK(e)'
  <2>1. CASE e = d
    <3>1. calls'[e].at = "publish" /\ calls'[e].held = rows[e].pending /\ rows'[e] = rows[e]
      BY <2>1, <1>4, PublishPushes DEF PublishesWith, Publishing, Publish
    <3>2. rows[e].pending \in Pending
      BY <1>0 DEF Row
    <3>3. /\ SpentOK(rows[e].pending)' /\ rows[e].pending.pair # 0
          /\ ~rows[e].pending.fresh => FitsOn(rows[e].pending.base, rows[e].pending.spent)'
      BY <1>49, <2>1, <3>2, <1>4, SpentKept, FitsKept DEF PendingOK, Publish
    <3> QED
      BY <3>1, <3>3, Quiet DEF PendingOK, Quiet
  <2>2. CASE e # d
    BY <1>0, <1>53, <1>4, <2>2 DEF Publish
  <2> QED
    BY <2>1, <2>2
<1>5. ASSUME NEW d \in Devices, Watch(d) PROVE PendingOK(e)'
  <2>1. CASE e = d
    <3>1. rows'[e].pending = rows[e].pending
          /\ (calls'[e].at = "idle" \/ (calls'[e].at = calls[e].at /\ calls'[e].held = calls[e].held))
      BY <1>0, <1>54, <2>1, <1>5 DEF Watch, MaySend, Wanting, Free, Row, Call, Adopted,
         Stored, Cleared, AdoptCurrent, Answered, Awaits, NoRow
    <3> QED
      BY <1>50, <3>1
  <2>2. CASE e # d
    BY <1>0, <1>53, <1>5, <2>2 DEF Watch, AdoptCurrent
  <2> QED
    BY <2>1, <2>2
<1>6. ASSUME NEW d \in Devices, LeaseOver(d) PROVE PendingOK(e)'
  <2>1. /\ rows'[e].pending = rows[e].pending
        /\ calls'[e].at = calls[e].at /\ calls'[e].held = calls[e].held
    BY <1>0, <1>6 DEF LeaseOver, Row, Call
  <2> QED
    BY <1>50, <2>1
<1>7. ASSUME NEW d \in Devices, Claim(d) PROVE PendingOK(e)'
  <2>1. CASE e = d
    <3>1. rows'[e].pending = rows[e].pending /\ rows[e].pending.pair = 0
      BY <1>0, <1>54, <2>1, <1>7 DEF Claim, Pushing, Idle, MaySend, Wanting, Free, Row,
         Call, Adopted, Stored, Cleared, AdoptCurrent, Answered, Awaits, NoRow
    <3> QED
      BY <1>52, <3>1
  <2>2. CASE e # d
    BY <1>0, <1>53, <1>7, <2>2 DEF Claim, Pushing, Idle, AdoptCurrent
  <2> QED
    BY <2>1, <2>2
<1>8. ASSUME NEW d \in Devices, ClaimWon(d) PROVE PendingOK(e)'
  <2>1. CASE e = d
    <3>1. rows'[e].pending = rows[e].pending /\ rows[e].pending.pair = 0
      BY <1>0, <1>54, <2>1, <1>8 DEF ClaimWon, Answered, MaySend, Wanting, Free, Row,
         Call, Adopted, Stored, Cleared, AdoptCurrent, Answered, Awaits, NoRow
    <3> QED
      BY <1>52, <3>1
  <2>2. CASE e # d
    BY <1>0, <1>53, <1>8, <2>2 DEF ClaimWon, Answered, AdoptCurrent
  <2> QED
    BY <2>1, <2>2
<1>9. ASSUME NEW d \in Devices, Conflict(d) PROVE PendingOK(e)'
  <2>1. CASE e = d
    <3>1. rows'[e].pending = rows[e].pending
          /\ (calls'[e].at = "idle" \/ (calls'[e].at = calls[e].at /\ calls'[e].held = calls[e].held))
      BY <1>0, <1>54, <2>1, <1>9 DEF Conflict, Done, Idle, AdoptCurrent, MaySend, Wanting,
         Free, Row, Call, Adopted, Stored, Cleared, AdoptCurrent, Answered, Awaits, NoRow
    <3> QED
      BY <1>50, <3>1
  <2>2. CASE e # d
    BY <1>0, <1>53, <1>9, <2>2 DEF Conflict, Done, Idle, AdoptCurrent, AdoptCurrent
  <2> QED
    BY <2>1, <2>2
<1>10. ASSUME NEW d \in Devices, Settled(d) PROVE PendingOK(e)'
  <2>1. CASE e = d
    <3>1. rows'[e].pending = rows[e].pending
          /\ (calls'[e].at = "idle" \/ (calls'[e].at = calls[e].at /\ calls'[e].held = calls[e].held))
      BY <1>0, <1>54, <2>1, <1>10 DEF Settled, Done, Idle, MaySend, Wanting, Free, Row,
         Call, Adopted, Stored, Cleared, AdoptCurrent, Answered, Awaits, NoRow
    <3> QED
      BY <1>50, <3>1
  <2>2. CASE e # d
    BY <1>0, <1>53, <1>10, <2>2 DEF Settled, Done, Idle, AdoptCurrent
  <2> QED
    BY <2>1, <2>2
<1>11. ASSUME NEW d \in Devices, GiveUp(d) PROVE PendingOK(e)'
  <2>1. CASE e = d
    <3>1. rows'[e].pending = rows[e].pending
          /\ (calls'[e].at = "idle" \/ (calls'[e].at = calls[e].at /\ calls'[e].held = calls[e].held))
      BY <1>0, <1>54, <2>1, <1>11 DEF GiveUp, Done, Idle, MaySend, Wanting, Free, Row,
         Call, Adopted, Stored, Cleared, AdoptCurrent, Answered, Awaits, NoRow
    <3> QED
      BY <1>50, <3>1
  <2>2. CASE e # d
    BY <1>0, <1>53, <1>11, <2>2 DEF GiveUp, Done, Idle, AdoptCurrent
  <2> QED
    BY <2>1, <2>2
<1>12. ASSUME NEW d \in Devices, Freeze(d) PROVE PendingOK(e)'
  <2>1. CASE e = d
    <3>1. rows'[e].pending = rows[e].pending
          /\ (calls'[e].at = "idle" \/ (calls'[e].at = calls[e].at /\ calls'[e].held = calls[e].held))
      BY <1>0, <1>54, <2>1, <1>12 DEF Freeze, MaySend, Wanting, Free, Row, Call, Adopted,
         Stored, Cleared, AdoptCurrent, Answered, Awaits, NoRow
    <3> QED
      BY <1>50, <3>1
  <2>2. CASE e # d
    BY <1>0, <1>53, <1>12, <2>2 DEF Freeze, AdoptCurrent
  <2> QED
    BY <2>1, <2>2
<1>13. ASSUME NEW d \in Devices, PostLost(d) PROVE PendingOK(e)'
  <2>1. CASE e = d
    <3>1. rows'[e].pending = rows[e].pending
          /\ (calls'[e].at = "idle" \/ (calls'[e].at = calls[e].at /\ calls'[e].held = calls[e].held))
      BY <1>0, <1>54, <2>1, <1>13 DEF PostLost, MaySend, Wanting, Free, Row, Call,
         Adopted, Stored, Cleared, AdoptCurrent, Answered, Awaits, NoRow
    <3> QED
      BY <1>50, <3>1
  <2>2. CASE e # d
    BY <1>0, <1>53, <1>13, <2>2 DEF PostLost, AdoptCurrent
  <2> QED
    BY <2>1, <2>2
<1>14. ASSUME NEW d \in Devices, PostFails(d) PROVE PendingOK(e)'
  <2>1. CASE e = d
    <3>1. rows'[e].pending = rows[e].pending /\ rows[e].pending.pair = 0
      BY <1>0, <1>54, <2>1, <1>14 DEF PostFails, Freed, Pushing, Idle, MaySend, Wanting,
         Free, Row, Call, Adopted, Stored, Cleared, AdoptCurrent, Answered, Awaits, NoRow
    <3> QED
      BY <1>52, <3>1
  <2>2. CASE e # d
    BY <1>0, <1>53, <1>14, <2>2 DEF PostFails, Freed, Pushing, Idle, AdoptCurrent
  <2> QED
    BY <2>1, <2>2
<1>15. ASSUME NEW d \in Devices, PostOk(d) PROVE PendingOK(e)'
  <2>1. CASE e = d
    <3>1. rows'[e].pending = rows[e].pending /\ rows[e].pending.pair = 0
      BY <1>0, <1>54, <2>1, <1>15 DEF PostOk, MaySend, Wanting, Free, Row, Call, Adopted,
         Stored, Cleared, AdoptCurrent, Answered, Awaits, NoRow
    <3> QED
      BY <1>52, <3>1
  <2>2. CASE e # d
    BY <1>0, <1>53, <1>15, <2>2 DEF PostOk, AdoptCurrent
  <2> QED
    BY <2>1, <2>2
<1>16. ASSUME NEW d \in Devices, PostInvalid(d) PROVE PendingOK(e)'
  <2>1. CASE e = d
    <3>1. rows'[e].pending = rows[e].pending /\ rows[e].pending.pair = 0
      BY <1>0, <1>54, <2>1, <1>16 DEF PostInvalid, Pushing, Idle, MaySend, Wanting, Free,
         Row, Call, Adopted, Stored, Cleared, AdoptCurrent, Answered, Awaits, NoRow
    <3> QED
      BY <1>52, <3>1
  <2>2. CASE e # d
    BY <1>0, <1>53, <1>16, <2>2 DEF PostInvalid, Pushing, Idle, AdoptCurrent
  <2> QED
    BY <2>1, <2>2
<1>17. ASSUME NEW d \in Devices, InDoubt(d) PROVE PendingOK(e)'
  <2>1. CASE e = d
    <3>1. rows'[e].pending = rows[e].pending /\ rows[e].pending.pair = 0
      BY <1>0, <1>54, <2>1, <1>17 DEF InDoubt, Freed, Pushing, Idle, MaySend, Wanting,
         Free, Row, Call, Adopted, Stored, Cleared, AdoptCurrent, Answered, Awaits, NoRow
    <3> QED
      BY <1>52, <3>1
  <2>2. CASE e # d
    BY <1>0, <1>53, <1>17, <2>2 DEF InDoubt, Freed, Pushing, Idle, AdoptCurrent
  <2> QED
    BY <2>1, <2>2
<1>18. ASSUME NEW d \in Devices, Frozen(d) PROVE PendingOK(e)'
  <2>1. CASE e = d
    <3>1. rows'[e].pending = rows[e].pending /\ rows[e].pending.pair = 0
      BY <1>0, <1>54, <2>1, <1>18 DEF Frozen, AfterFreeze, Freed, Pushing, Idle, MaySend,
         Wanting, Free, Row, Call, Adopted, Stored, Cleared, AdoptCurrent, Answered,
         Awaits, NoRow
    <3> QED
      BY <1>52, <3>1
  <2>2. CASE e # d
    BY <1>0, <1>53, <1>18, <2>2 DEF Frozen, AfterFreeze, Freed, Pushing, Idle,
       AdoptCurrent
  <2> QED
    BY <2>1, <2>2
<1>19. ASSUME NEW d \in Devices, WriteAhead(d) PROVE PendingOK(e)'
  <2>1. CASE e = d /\ rows[e].here
    <3>1. calls'[e].at = "publish" /\ calls'[e].held = calls[e].held /\ calls[e].at = "have"
      BY <2>1, <1>19, WriteAheadPushes DEF PublishesWith, Publishing, WriteAhead
    <3>2. rows'[e].pending = calls[e].held
      BY <1>0, <2>1, <1>19 DEF WriteAhead, Row
    <3>3. PICK h \in Pending : h = calls[e].held
      BY <1>0 DEF Call
    <3>4. SpentOK(h) /\ FitsOn(h.base, h.spent)
      BY <3>1, <3>3 DEF CallOK
    <3>5. SpentOK(h)' /\ FitsOn(h.base, h.spent)'
      BY <1>49, <3>4, SpentKept, FitsKept
    <3> QED
      BY <3>1, <3>2, <3>3, <3>4, <3>5, Quiet DEF PendingOK, Quiet, FitsOn, SpentOK
  <2>2. CASE e # d \/ ~rows[e].here
    <3>1. rows'[e] = rows[e] /\ (calls'[e] = Idle \/ calls'[e] = calls[e])
      BY <1>0, <1>19, <2>2 DEF WriteAhead, Done
    <3> QED
      BY <1>0, <1>50, <3>1
  <2> QED
    BY <2>1, <2>2
<1>20. ASSUME NEW d \in Devices, WriteAheadFails(d) PROVE PendingOK(e)'
  <2>1. CASE e = d
    <3>1. rows'[e].pending = rows[e].pending
          /\ (calls'[e].at = "idle" \/ (calls'[e].at = calls[e].at /\ calls'[e].held = calls[e].held))
      BY <1>0, <1>54, <2>1, <1>20 DEF WriteAheadFails, Done, Idle, MaySend, Wanting, Free,
         Row, Call, Adopted, Stored, Cleared, AdoptCurrent, Answered, Awaits, NoRow
    <3> QED
      BY <1>50, <3>1
  <2>2. CASE e # d
    BY <1>0, <1>53, <1>20, <2>2 DEF WriteAheadFails, Done, Idle, AdoptCurrent
  <2> QED
    BY <2>1, <2>2
<1>21. ASSUME NEW d \in Devices, Published(d) PROVE PendingOK(e)'
  <2>1. CASE e = d
    <3>1. rows'[e].pending = Nothing
      BY <1>0, <1>54, <2>1, <1>21 DEF Published, Done, Idle, MaySend, Wanting, Free, Row,
         Call, Adopted, Stored, Cleared, AdoptCurrent, Answered, Awaits, NoRow
    <3> QED
      BY <1>51, <3>1
  <2>2. CASE e # d
    BY <1>0, <1>53, <1>21, <2>2 DEF Published, Done, Idle, AdoptCurrent
  <2> QED
    BY <2>1, <2>2
<1>22. ASSUME NEW d \in Devices, Discarded(d) PROVE PendingOK(e)'
  <2>1. CASE e = d
    <3>1. rows'[e].pending = Nothing
      BY <1>0, <1>54, <2>1, <1>22 DEF Discarded, Done, Idle, MaySend, Wanting, Free, Row,
         Call, Adopted, Stored, Cleared, AdoptCurrent, Answered, Awaits, NoRow
    <3> QED
      BY <1>51, <3>1
  <2>2. CASE e # d
    BY <1>0, <1>53, <1>22, <2>2 DEF Discarded, Done, Idle, AdoptCurrent
  <2> QED
    BY <2>1, <2>2
<1>23. ASSUME NEW d \in Devices, Rebase(d) PROVE PendingOK(e)'
  <2>1. CASE e = d
    <3>1. rows'[e].pending = rows[e].pending
          /\ (calls'[e].at = "idle" \/ (calls'[e].at = calls[e].at /\ calls'[e].held = calls[e].held))
      BY <1>0, <1>54, <2>1, <1>23 DEF Rebase, Answered, MaySend, Wanting, Free, Row, Call,
         Adopted, Stored, Cleared, AdoptCurrent, Answered, Awaits, NoRow
    <3> QED
      BY <1>50, <3>1
  <2>2. CASE e # d
    BY <1>0, <1>53, <1>23, <2>2 DEF Rebase, Answered, AdoptCurrent
  <2> QED
    BY <2>1, <2>2
<1>24. ASSUME NEW d \in Devices, Kept(d) PROVE PendingOK(e)'
  <2>1. CASE e = d
    <3>1. rows'[e].pending = rows[e].pending
          /\ (calls'[e].at = "idle" \/ (calls'[e].at = calls[e].at /\ calls'[e].held = calls[e].held))
      BY <1>0, <1>54, <2>1, <1>24 DEF Kept, Done, Idle, MaySend, Wanting, Free, Row, Call,
         Adopted, Stored, Cleared, AdoptCurrent, Answered, Awaits, NoRow
    <3> QED
      BY <1>50, <3>1
  <2>2. CASE e # d
    BY <1>0, <1>53, <1>24, <2>2 DEF Kept, Done, Idle, AdoptCurrent
  <2> QED
    BY <2>1, <2>2
<1>25. ASSUME NEW d \in Devices, Superseded(d) PROVE PendingOK(e)'
  <2>1. CASE e = d
    <3>1. rows'[e].pending = Nothing
      BY <1>0, <1>54, <2>1, <1>25 DEF Superseded, Done, Idle, MaySend, Wanting, Free, Row,
         Call, Adopted, Stored, Cleared, AdoptCurrent, Answered, Awaits, NoRow
    <3> QED
      BY <1>51, <3>1
  <2>2. CASE e # d
    BY <1>0, <1>53, <1>25, <2>2 DEF Superseded, Done, Idle, AdoptCurrent
  <2> QED
    BY <2>1, <2>2
<1>26. ASSUME NEW d \in Devices, Remove(d) PROVE PendingOK(e)'
  <2>1. CASE e = d
    <3>1. rows'[e].pending = Nothing
      BY <1>0, <1>54, <2>1, <1>26 DEF Remove, Row, Call, Adopted, Stored, Cleared,
         AdoptCurrent, Answered, Awaits, NoRow
    <3> QED
      BY <1>51, <3>1
  <2>2. CASE e # d
    BY <1>0, <1>53, <1>26, <2>2 DEF Remove, AdoptCurrent
  <2> QED
    BY <2>1, <2>2
<1>27. ASSUME NEW d \in Devices, Crash(d) PROVE PendingOK(e)'
  <2>1. CASE e = d
    <3>1. rows'[e].pending = rows[e].pending
          /\ (calls'[e].at = "idle" \/ (calls'[e].at = calls[e].at /\ calls'[e].held = calls[e].held))
      BY <1>0, <1>54, <2>1, <1>27 DEF Crash, Idle, MaySend, Wanting, Free, Row, Call,
         Adopted, Stored, Cleared, AdoptCurrent, Answered, Awaits, NoRow
    <3> QED
      BY <1>50, <3>1
  <2>2. CASE e # d
    BY <1>0, <1>53, <1>27, <2>2 DEF Crash, Idle, AdoptCurrent
  <2> QED
    BY <2>1, <2>2
<1>28. ASSUME NEW d \in Devices, SignIn(d) PROVE PendingOK(e)'
  <2>1. CASE e = d
    <3>1. PICK p \in Pairs :
            /\ rows' = [rows EXCEPT ![d] = [rows[d] EXCEPT !.here = TRUE, !.is = Empty,
                                                          !.pending = NewSignIn(d, p)]]
            /\ PublishesWith(d, rows[d].rev, NewSignIn(d, p))
      BY <1>28, SignInPushes
    <3>2. rows'[e].pending = NewSignIn(e, p)
      BY <1>0, <2>1, <3>1 DEF Row
    <3>3. calls'[e].at = "publish" /\ calls'[e].held = NewSignIn(e, p)
      BY <2>1, <3>1 DEF PublishesWith, Publishing
    <3>4. NewSignIn(e, p).pair # 0 /\ NewSignIn(e, p).fresh /\ NewSignIn(e, p).base = rows[e].rev
      BY DEF NewSignIn, Pairs
    <3> QED
      BY <3>2, <3>3, <3>4, Quiet DEF PendingOK, SpentOK, Quiet, RowOK
  <2>2. CASE e # d
    <3>1. rows'[e] = rows[e] /\ calls'[e] = calls[e]
      BY <1>0, <2>2, <1>28, SignInPushes DEF PublishesWith
    <3> QED
      BY <1>53, <3>1
  <2> QED
    BY <2>1, <2>2
<1>29. ASSUME NEW s \in strays, ArriveLate(s) PROVE PendingOK(e)'
  BY <1>53, <1>29 DEF ArriveLate, deviceVars
<1>30. ASSUME Bury PROVE PendingOK(e)'
  BY <1>53, <1>30 DEF Bury, deviceVars
<1> QED
  BY <1>1, <1>2, <1>3, <1>4, <1>5, <1>6, <1>7, <1>8, <1>9, <1>10, <1>11, <1>12, <1>13,
     <1>14, <1>15, <1>16, <1>17, <1>18, <1>19, <1>20, <1>21, <1>22, <1>23, <1>24, <1>25,
     <1>26, <1>27, <1>28, <1>29, <1>30 DEF Next, Present, Settle

(* What CallOK says of a call c.                                              *)
CallFits(c) ==
  /\ c.base <= server.rev
  /\ c.at = "idle" => c = Idle
  /\ c.at \in {"present", "have"} => c.answer = "none"
  /\ c.at \notin {"publish", "have"} => c.held = Nothing
  /\ c.at = "have" => /\ ~c.held.fresh /\ SpentOK(c.held) /\ c.held.base = c.base
                      /\ c.held.spent = c.is.tokens
                      /\ FitsOn(c.base, c.is.tokens)
  /\ c.at = "publish" => SpentOK(c.held)
  /\ c.at = "publish" /\ c.answer = "none" =>
       /\ c.is.tokens = c.held.pair /\ c.is.claim = None
       /\ ~c.held.fresh => FitsOn(c.base, c.held.spent)
  /\ c.answer = "ok" =>
       c.base < server.rev /\ (c.base + 1 = server.rev => c.is = server.is)
  /\ c.answer = "conflict" => (c.base = server.rev => c.is = server.is)

(* CallOK is about the call alone.                                            *)
LEMMA CallFitsIs ==
  ASSUME NEW d \in Devices
  PROVE  CallOK(d) <=> CallFits(calls[d])
BY DEF CallOK, CallFits

(* A call that is left alone stays sound in a quiet step.                      *)
LEMMA CallFitsStill ==
  ASSUME TypeOK, NextKept, Quiet, NEW c \in Call, CallFits(c)
  PROVE  CallFits(c)'
<1>1. c.held \in Pending
  BY DEF Call
<1>2. server'.rev = server.rev /\ server'.is = server.is
  BY Quiet DEF Quiet
<1>3. SpentOK(c.held) => SpentOK(c.held)'
  BY <1>1, SpentKept
<1>4. FitsOn(c.base, c.is.tokens) => FitsOn(c.base, c.is.tokens)'
  BY FitsKept
<1>5. FitsOn(c.base, c.held.spent) => FitsOn(c.base, c.held.spent)'
  BY FitsKept
<1> QED
  BY <1>2, <1>3, <1>4, <1>5 DEF CallFits

(* A quiet step keeps a call sound.                                           *)
LEMMA CallStep ==
  ASSUME GrantAssumption, TypeOK, TypeOK', Next, Quiet, NEW e \in Devices,
         PendingOK(e), CallOK(e), RowOK(e), HolderOK(e)
  PROVE  CallOK(e)'
<1>0. /\ calls \in [Devices -> Call] /\ rows \in [Devices -> Row]
      /\ server'.rev = server.rev /\ server'.is = server.is
      /\ "have" \notin Awaits /\ "present" \notin Awaits /\ "idle" \notin Awaits
  BY Quiet DEF TypeOK, Awaits, Quiet
<1>47. calls[e] \in Call /\ rows[e] \in Row /\ server.rev \in Nat
  BY DEF TypeOK, Record
<1>48. CallFits(calls[e])
  BY CallFitsIs
<1>49. NextKept
  BY NextStep
<1>50. ASSUME calls'[e] = calls[e]
       PROVE  CallOK(e)'
  <2>1. PICK c \in Call : c = calls[e]
    BY <1>47
  <2>2. CallFits(c)'
    BY <1>48, <1>49, <2>1, CallFitsStill
  <2> QED
    BY <1>50, <2>1, <2>2 DEF CallFits, CallOK
<1>51. ASSUME NEW a, calls'[e].answer = a, a = calls[e].answer \/ a \in {"network", "tombstoned"},
              calls[e].at \in {"present", "have"} => a = "none",
              calls'[e].at = calls[e].at, calls'[e].base = calls[e].base,
              calls'[e].is = calls[e].is, calls'[e].held = calls[e].held,
              calls[e].at # "idle"
       PROVE  CallOK(e)'
  <2>1. PICK c \in Call : c = calls[e]
    BY <1>47
  <2>2. CallFits(c)'
    BY <1>48, <1>49, <2>1, CallFitsStill
  <2> QED
    BY <1>51, <2>1, <2>2 DEF CallFits, CallOK
<1>52. ASSUME calls'[e] = Idle
       PROVE  CallOK(e)'
  BY <1>0, <1>47, <1>52 DEF CallOK, Idle
<1>53. ASSUME calls'[e].at \in {"claim", "release", "kill", "present"}, calls'[e].answer = "none",
              calls'[e].held = Nothing, calls'[e].base <= server.rev
       PROVE  CallOK(e)'
  BY <1>0, <1>53 DEF CallOK
<1>54. ASSUME NEW h \in Pending, NEW base, Publishing(calls'[e], base, h), base <= server.rev,
              SpentOK(h), ~h.fresh => FitsOn(base, h.spent)
       PROVE  CallOK(e)'
  <2>1. SpentOK(h)' /\ (~h.fresh => FitsOn(base, h.spent)')
    BY <1>49, <1>54, SpentKept, FitsKept
  <2> QED
    BY <1>0, <1>54, <2>1 DEF CallOK, Publishing
<1>55. calls[e].base <= server.rev
  BY DEF CallOK
<1>1. ASSUME NEW d \in Devices, Serve(d) PROVE CallOK(e)'
  <2>1. CASE e = d
    <3>1. /\ calls'[e].at = calls[e].at /\ calls'[e].held = calls[e].held
          /\ calls'[e].answer = Result(calls[e].base) /\ calls[e].at \in Awaits
      BY <1>0, <1>47, <2>1, <1>1 DEF Serve, Call
    <3>2. CASE Result(calls[e].base) = "conflict"
      <4>1. calls'[e].base = server.rev /\ calls'[e].is = server.is
        BY <1>0, <1>47, <2>1, <3>2, <1>1 DEF Serve, Call
      <4>2. PICK h \in Pending : h = calls[e].held
        BY <1>47 DEF Call
      <4>3. SpentOK(h) => SpentOK(h)'
        BY <1>49, SpentKept
      <4> QED
        BY <1>0, <1>47, <3>1, <3>2, <4>1, <4>2, <4>3 DEF CallOK
    <3>3. CASE Result(calls[e].base) # "conflict"
      <4>1. calls'[e].base = calls[e].base /\ calls'[e].is = calls[e].is
        BY <1>0, <1>47, <2>1, <3>3, <1>1 DEF Serve, Call
      <4>2. Result(calls[e].base) # "ok"
        BY <1>0, <1>47, <2>1, <1>1 DEF Serve, Write, TypeOK, Record
      <4>3. Result(calls[e].base) = "tombstoned"
        BY <3>3, <4>2 DEF Result
      <4> QED
        BY <1>0, <1>51, <3>1, <4>1, <4>3
    <3> QED
      BY <3>2, <3>3
  <2>2. CASE e # d
    <3>1. calls'[e] = calls[e]
      BY <1>0, <1>1, <2>2 DEF Serve
    <3> QED
      BY <1>50, <3>1
  <2> QED
    BY <2>1, <2>2
<1>2. ASSUME NEW d \in Devices, LosePush(d) PROVE CallOK(e)'
  <2>1. CASE e = d
    <3>1. /\ calls'[e].answer = "network" /\ calls[e].at # "idle"
          /\ calls[e].at \in {"present", "have"} => "network" = "none"
          /\ calls'[e].at = calls[e].at /\ calls'[e].base = calls[e].base
          /\ calls'[e].is = calls[e].is /\ calls'[e].held = calls[e].held
      BY <1>0, <1>47, <2>1, <1>2 DEF LosePush, MaySend, Call, CallOK
    <3> QED
      BY <1>51, <3>1
  <2>2. CASE e # d
    <3>1. calls'[e] = calls[e]
      BY <1>0, <1>2, <2>2 DEF LosePush
    <3> QED
      BY <1>50, <3>1
  <2> QED
    BY <2>1, <2>2
<1>3. ASSUME NEW d \in Devices, Pull(d) PROVE CallOK(e)'
  BY <1>50, <1>3 DEF Pull
<1>4. ASSUME NEW d \in Devices, Publish(d) PROVE CallOK(e)'
  <2>1. CASE e = d
    <3>1. PICK h \in Pending : h = rows[e].pending
      BY <1>47 DEF Row
    <3>2. Publishing(calls'[e], h.base, h)
      BY <2>1, <3>1, <1>4, PublishPushes DEF PublishesWith
    <3>3. SpentOK(h) /\ h.base <= server.rev /\ (~h.fresh => FitsOn(h.base, h.spent))
      BY <2>1, <3>1, <1>4 DEF PendingOK, Publish
    <3> QED
      BY <1>54, <3>2, <3>3
  <2>2. CASE e # d
    <3>1. calls'[e] = calls[e]
      BY <1>0, <1>4, <2>2 DEF Publish
    <3> QED
      BY <1>50, <3>1
  <2> QED
    BY <2>1, <2>2
<1>5. ASSUME NEW d \in Devices, Watch(d) PROVE CallOK(e)'
  BY <1>50, <1>5 DEF Watch
<1>6. ASSUME NEW d \in Devices, LeaseOver(d) PROVE CallOK(e)'
  <2>1. calls'[e] = [calls[e] EXCEPT !.late = calls[e].late \/ Overslept(e, rows[d].rev)]
    BY <1>0, <1>6 DEF LeaseOver
  <2>2. CASE calls[e].at = "idle"
    <3>1. ~Overslept(e, rows[d].rev) /\ calls[e].late \in BOOLEAN
      BY <1>47, <2>2 DEF Overslept, Call
    <3>2. calls'[e] = calls[e]
      BY <1>47, <2>1, <3>1 DEF Call
    <3> QED
      BY <1>50, <3>2
  <2>3. CASE calls[e].at # "idle"
    <3>1. /\ calls'[e].answer = calls[e].answer
          /\ calls'[e].at = calls[e].at /\ calls'[e].base = calls[e].base
          /\ calls'[e].is = calls[e].is /\ calls'[e].held = calls[e].held
      BY <1>47, <2>1 DEF Call
    <3>2. calls[e].at \in {"present", "have"} => calls[e].answer = "none"
      BY DEF CallOK
    <3> QED
      BY <1>51, <2>3, <3>1, <3>2
  <2> QED
    BY <2>2, <2>3
<1>7. ASSUME NEW d \in Devices, Claim(d) PROVE CallOK(e)'
  <2>1. CASE e = d
    <3>1. calls'[e] = Pushing("claim", rows[e].rev, [rows[e].is EXCEPT !.claim = e])
      BY <1>0, <2>1, <1>7 DEF Claim
    <3>2. calls'[e].at = "claim" /\ calls'[e].answer = "none" /\ calls'[e].held = Nothing
          /\ calls'[e].base = rows[e].rev
      BY <3>1, PushingIs DEF Freed
    <3> QED
      BY <1>53, <1>55, <3>2 DEF RowOK
  <2>2. CASE e # d
    <3>1. calls'[e] = calls[e]
      BY <1>0, <1>7, <2>2 DEF Claim
    <3> QED
      BY <1>50, <3>1
  <2> QED
    BY <2>1, <2>2
<1>8. ASSUME NEW d \in Devices, ClaimWon(d) PROVE CallOK(e)'
  <2>1. CASE e = d
    <3>1. calls'[e].at = "present" /\ calls'[e].answer = "none"
          /\ calls'[e].held = calls[e].held /\ calls'[e].base = calls[e].base + 1
      BY <1>0, <1>47, <2>1, <1>8 DEF ClaimWon, Call
    <3>2. calls[e].held = Nothing /\ calls[e].base < server.rev
      BY <2>1, <1>8 DEF CallOK, ClaimWon, Answered
    <3>3. calls[e].base + 1 <= server.rev
      BY <1>47, <3>2 DEF Call
    <3> QED
      BY <1>53, <3>1, <3>2, <3>3
  <2>2. CASE e # d
    <3>1. calls'[e] = calls[e]
      BY <1>0, <1>8, <2>2 DEF ClaimWon
    <3> QED
      BY <1>50, <3>1
  <2> QED
    BY <2>1, <2>2
<1>9. ASSUME NEW d \in Devices, Conflict(d) PROVE CallOK(e)'
  <2>1. CASE e = d
    <3>1. calls'[e] = Idle
      BY <1>0, <2>1, <1>9 DEF Conflict, Done
    <3> QED
      BY <1>52, <3>1
  <2>2. CASE e # d
    <3>1. calls'[e] = calls[e]
      BY <1>0, <1>9, <2>2 DEF Conflict, Done
    <3> QED
      BY <1>50, <3>1
  <2> QED
    BY <2>1, <2>2
<1>10. ASSUME NEW d \in Devices, Settled(d) PROVE CallOK(e)'
  <2>1. CASE e = d
    <3>1. calls'[e] = Idle
      BY <1>0, <2>1, <1>10 DEF Settled, Done
    <3> QED
      BY <1>52, <3>1
  <2>2. CASE e # d
    <3>1. calls'[e] = calls[e]
      BY <1>0, <1>10, <2>2 DEF Settled, Done
    <3> QED
      BY <1>50, <3>1
  <2> QED
    BY <2>1, <2>2
<1>11. ASSUME NEW d \in Devices, GiveUp(d) PROVE CallOK(e)'
  <2>1. CASE e = d
    <3>1. calls'[e] = Idle
      BY <1>0, <2>1, <1>11 DEF GiveUp, Done
    <3> QED
      BY <1>52, <3>1
  <2>2. CASE e # d
    <3>1. calls'[e] = calls[e]
      BY <1>0, <1>11, <2>2 DEF GiveUp, Done
    <3> QED
      BY <1>50, <3>1
  <2> QED
    BY <2>1, <2>2
<1>12. ASSUME NEW d \in Devices, Freeze(d) PROVE CallOK(e)'
  <2>1. CASE e = d
    <3>1. /\ calls'[e].answer = calls[e].answer /\ calls[e].at # "idle"
          /\ calls[e].at \in {"present", "have"} => calls[e].answer = "none"
          /\ calls'[e].at = calls[e].at /\ calls'[e].base = calls[e].base
          /\ calls'[e].is = calls[e].is /\ calls'[e].held = calls[e].held
      BY <1>0, <1>47, <2>1, <1>12 DEF Freeze, MaySend, Call, CallOK
    <3> QED
      BY <1>51, <3>1
  <2>2. CASE e # d
    <3>1. calls'[e] = calls[e]
      BY <1>0, <1>12, <2>2 DEF Freeze
    <3> QED
      BY <1>50, <3>1
  <2> QED
    BY <2>1, <2>2
<1>13. ASSUME NEW d \in Devices, PostLost(d) PROVE CallOK(e)'
  <2>1. CASE e = d
    <3>1. /\ calls'[e].answer = calls[e].answer /\ calls[e].at # "idle"
          /\ calls[e].at \in {"present", "have"} => calls[e].answer = "none"
          /\ calls'[e].at = calls[e].at /\ calls'[e].base = calls[e].base
          /\ calls'[e].is = calls[e].is /\ calls'[e].held = calls[e].held
      BY <1>0, <1>47, <2>1, <1>13 DEF PostLost, MaySend, Call, CallOK
    <3> QED
      BY <1>51, <3>1
  <2>2. CASE e # d
    <3>1. calls'[e] = calls[e]
      BY <1>0, <1>13, <2>2 DEF PostLost
    <3> QED
      BY <1>50, <3>1
  <2> QED
    BY <2>1, <2>2
<1>14. ASSUME NEW d \in Devices, PostFails(d) PROVE CallOK(e)'
  <2>1. CASE e = d
    <3>1. calls'[e] = Freed(calls[e])
      BY <1>0, <2>1, <1>14 DEF PostFails
    <3>2. calls'[e].at = "release" /\ calls'[e].answer = "none" /\ calls'[e].held = Nothing
          /\ calls'[e].base = calls[e].base
      BY <3>1, PushingIs DEF Freed
    <3> QED
      BY <1>53, <1>55, <3>2 DEF RowOK
  <2>2. CASE e # d
    <3>1. calls'[e] = calls[e]
      BY <1>0, <1>14, <2>2 DEF PostFails
    <3> QED
      BY <1>50, <3>1
  <2> QED
    BY <2>1, <2>2
<1>15. ASSUME NEW d \in Devices, PostOk(d) PROVE CallOK(e)'
  <2>1. CASE e = d
    <3>1. PICK h \in Pending : h = calls'[e].held
      BY DEF TypeOK, Call
    <3>2. /\ calls'[e].at = "have" /\ calls'[e].base = calls[e].base /\ calls'[e].is = calls[e].is
          /\ calls'[e].answer = calls[e].answer /\ h.base = calls[e].base
          /\ h.spent = Token(e) /\ ~h.fresh
      BY <1>0, <1>47, <2>1, <3>1, <1>15 DEF PostOk, Call
    <3>3. calls[e].answer = "none" /\ Token(e) # 0 /\ FitsOn(calls[e].base, Token(e))
      BY <1>47, <2>1, <1>15 DEF PostOk, MaySend, HolderOK, Holder, HeldAt, FitsOn, CallOK
    <3>4. Token(e) \in Pairs
      BY <1>47, <3>3 DEF Token, Call, Content, Pairs
    <3>5. h.pair # 0 /\ next'[Token(e)] = h.pair
      BY <1>0, <1>47, <2>1, <3>1, <3>4, <1>15 DEF PostOk, Call, Rotated, Pairs, TypeOK
    <3>6. SpentOK(h)' /\ FitsOn(calls[e].base, Token(e))'
      BY <1>0, <3>2, <3>3, <3>5 DEF SpentOK, FitsOn, Token
    <3> QED
      BY <1>0, <1>55, <3>1, <3>2, <3>3, <3>6 DEF CallOK, Token, FitsOn
  <2>2. CASE e # d
    <3>1. calls'[e] = calls[e]
      BY <1>0, <1>15, <2>2 DEF PostOk
    <3> QED
      BY <1>50, <3>1
  <2> QED
    BY <2>1, <2>2
<1>16. ASSUME NEW d \in Devices, PostInvalid(d) PROVE CallOK(e)'
  <2>1. CASE e = d
    <3>1. calls'[e] = Pushing("kill", calls[e].base, Empty)
      BY <1>0, <2>1, <1>16 DEF PostInvalid
    <3>2. calls'[e].at = "kill" /\ calls'[e].answer = "none" /\ calls'[e].held = Nothing
          /\ calls'[e].base = calls[e].base
      BY <3>1, PushingIs DEF Freed
    <3> QED
      BY <1>53, <1>55, <3>2 DEF RowOK
  <2>2. CASE e # d
    <3>1. calls'[e] = calls[e]
      BY <1>0, <1>16, <2>2 DEF PostInvalid
    <3> QED
      BY <1>50, <3>1
  <2> QED
    BY <2>1, <2>2
<1>17. ASSUME NEW d \in Devices, InDoubt(d) PROVE CallOK(e)'
  <2>1. CASE e = d
    <3>1. calls'[e] = Freed(calls[e])
      BY <1>0, <2>1, <1>17 DEF InDoubt
    <3>2. calls'[e].at = "release" /\ calls'[e].answer = "none" /\ calls'[e].held = Nothing
          /\ calls'[e].base = calls[e].base
      BY <3>1, PushingIs DEF Freed
    <3> QED
      BY <1>53, <1>55, <3>2 DEF RowOK
  <2>2. CASE e # d
    <3>1. calls'[e] = calls[e]
      BY <1>0, <1>17, <2>2 DEF InDoubt
    <3> QED
      BY <1>50, <3>1
  <2> QED
    BY <2>1, <2>2
<1>18. ASSUME NEW d \in Devices, Frozen(d) PROVE CallOK(e)'
  <2>3. CASE e = d /\ calls[d].sent
    BY <1>0, <1>52, <1>18, <2>3 DEF Frozen, AfterFreeze
  <2>1. CASE e = d /\ ~calls[d].sent
    <3>1. calls'[e] = Freed(calls[e])
      BY <1>0, <2>1, <1>18 DEF Frozen, AfterFreeze
    <3>2. calls'[e].at = "release" /\ calls'[e].answer = "none" /\ calls'[e].held = Nothing
          /\ calls'[e].base = calls[e].base
      BY <3>1, PushingIs DEF Freed
    <3> QED
      BY <1>53, <1>55, <3>2 DEF RowOK
  <2>2. CASE e # d
    <3>1. calls'[e] = calls[e]
      BY <1>0, <1>18, <2>2 DEF Frozen, AfterFreeze
    <3> QED
      BY <1>50, <3>1
  <2> QED
    BY <2>1, <2>2, <2>3
<1>19. ASSUME NEW d \in Devices, WriteAhead(d) PROVE CallOK(e)'
  <2>1. CASE e = d /\ rows[d].here
    <3>1. PICK h \in Pending : h = calls[e].held
      BY <1>47 DEF Call
    <3>2. Publishing(calls'[e], calls[e].base, h)
      BY <2>1, <3>1, <1>19, WriteAheadPushes DEF PublishesWith
    <3>3. SpentOK(h) /\ FitsOn(calls[e].base, h.spent)
      BY <2>1, <3>1, <1>19 DEF CallOK, WriteAhead
    <3> QED
      BY <1>54, <1>55, <3>2, <3>3
  <2>2. CASE e # d \/ ~rows[d].here
    <3>1. calls'[e] = Idle \/ calls'[e] = calls[e]
      BY <1>0, <1>19, <2>2 DEF WriteAhead, Done
    <3> QED
      BY <1>50, <1>52, <3>1
  <2> QED
    BY <2>1, <2>2
<1>20. ASSUME NEW d \in Devices, WriteAheadFails(d) PROVE CallOK(e)'
  <2>1. CASE e = d
    <3>1. calls'[e] = Idle
      BY <1>0, <2>1, <1>20 DEF WriteAheadFails, Done
    <3> QED
      BY <1>52, <3>1
  <2>2. CASE e # d
    <3>1. calls'[e] = calls[e]
      BY <1>0, <1>20, <2>2 DEF WriteAheadFails, Done
    <3> QED
      BY <1>50, <3>1
  <2> QED
    BY <2>1, <2>2
<1>21. ASSUME NEW d \in Devices, Published(d) PROVE CallOK(e)'
  <2>1. CASE e = d
    <3>1. calls'[e] = Idle
      BY <1>0, <2>1, <1>21 DEF Published, Done
    <3> QED
      BY <1>52, <3>1
  <2>2. CASE e # d
    <3>1. calls'[e] = calls[e]
      BY <1>0, <1>21, <2>2 DEF Published, Done
    <3> QED
      BY <1>50, <3>1
  <2> QED
    BY <2>1, <2>2
<1>22. ASSUME NEW d \in Devices, Discarded(d) PROVE CallOK(e)'
  <2>1. CASE e = d
    <3>1. calls'[e] = Idle
      BY <1>0, <2>1, <1>22 DEF Discarded, Done
    <3> QED
      BY <1>52, <3>1
  <2>2. CASE e # d
    <3>1. calls'[e] = calls[e]
      BY <1>0, <1>22, <2>2 DEF Discarded, Done
    <3> QED
      BY <1>50, <3>1
  <2> QED
    BY <2>1, <2>2
<1>23. ASSUME NEW d \in Devices, Rebase(d) PROVE CallOK(e)'
  <2>1. CASE e = d
    <3>1. PICK h \in Pending : h = calls[e].held
      BY <1>47 DEF Call
    <3>2. /\ calls'[e].at = "publish" /\ calls'[e].base = calls[e].base /\ calls'[e].answer = "none"
          /\ calls'[e].held = h /\ calls'[e].is = [tokens |-> h.pair, claim |-> None]
      BY <1>0, <1>47, <2>1, <3>1, <1>23 DEF Rebase, Answered, Call
    <3>3. SpentOK(h) /\ (~h.fresh => FitsOn(calls[e].base, h.spent))
      BY <2>1, <3>1, <1>23 DEF Rebase, Answered, NothingNewer, CallOK, FitsOn
    <3>4. SpentOK(h)'
      BY <1>49, <3>3, SpentKept
    <3> QED
      BY <1>0, <1>55, <3>2, <3>3, <3>4 DEF CallOK, FitsOn
  <2>2. CASE e # d
    <3>1. calls'[e] = calls[e]
      BY <1>0, <1>23, <2>2 DEF Rebase
    <3> QED
      BY <1>50, <3>1
  <2> QED
    BY <2>1, <2>2
<1>24. ASSUME NEW d \in Devices, Kept(d) PROVE CallOK(e)'
  <2>1. CASE e = d
    <3>1. calls'[e] = Idle
      BY <1>0, <2>1, <1>24 DEF Kept, Done
    <3> QED
      BY <1>52, <3>1
  <2>2. CASE e # d
    <3>1. calls'[e] = calls[e]
      BY <1>0, <1>24, <2>2 DEF Kept, Done
    <3> QED
      BY <1>50, <3>1
  <2> QED
    BY <2>1, <2>2
<1>25. ASSUME NEW d \in Devices, Superseded(d) PROVE CallOK(e)'
  <2>1. CASE e = d
    <3>1. calls'[e] = Idle
      BY <1>0, <2>1, <1>25 DEF Superseded, Done
    <3> QED
      BY <1>52, <3>1
  <2>2. CASE e # d
    <3>1. calls'[e] = calls[e]
      BY <1>0, <1>25, <2>2 DEF Superseded, Done
    <3> QED
      BY <1>50, <3>1
  <2> QED
    BY <2>1, <2>2
<1>26. ASSUME NEW d \in Devices, Remove(d) PROVE CallOK(e)'
  BY <1>50, <1>26 DEF Remove
<1>27. ASSUME NEW d \in Devices, Crash(d) PROVE CallOK(e)'
  <2>1. CASE e = d
    <3>1. calls'[e] = Idle
      BY <1>0, <2>1, <1>27 DEF Crash
    <3> QED
      BY <1>52, <3>1
  <2>2. CASE e # d
    <3>1. calls'[e] = calls[e]
      BY <1>0, <1>27, <2>2 DEF Crash
    <3> QED
      BY <1>50, <3>1
  <2> QED
    BY <2>1, <2>2
<1>28. ASSUME NEW d \in Devices, SignIn(d) PROVE CallOK(e)'
  <2>1. CASE e = d
    <3>1. PICK p \in Pairs : PublishesWith(d, rows[d].rev, NewSignIn(d, p))
      BY <1>28, SignInPushes
    <3>2. PICK h \in Pending : h = NewSignIn(d, p)
      <4>1. rows[d].rev \in Nat /\ p \in 0 .. MaxPairs /\ 0 \in 0 .. MaxPairs
        BY <1>47, <2>1 DEF Pairs, Row, GrantAssumption
      <4>2. NewSignIn(d, p) \in Pending
        BY <4>1 DEF NewSignIn, Pending
      <4> QED
        BY <4>2
    <3>3. h.pair # 0 /\ h.fresh
      BY <3>2 DEF NewSignIn, Pairs
    <3>4. Publishing(calls'[e], rows[e].rev, h)
      BY <2>1, <3>1, <3>2 DEF PublishesWith
    <3> QED
      BY <1>54, <3>3, <3>4 DEF SpentOK, RowOK
  <2>2. CASE e # d
    <3>1. calls'[e] = calls[e]
      BY <1>0, <1>28, <2>2, SignInPushes DEF PublishesWith
    <3> QED
      BY <1>50, <3>1
  <2> QED
    BY <2>1, <2>2
<1>29. ASSUME NEW s \in strays, ArriveLate(s) PROVE CallOK(e)'
  BY <1>50, <1>29 DEF ArriveLate, deviceVars
<1>30. ASSUME Bury PROVE CallOK(e)'
  BY <1>50, <1>30 DEF Bury, deviceVars
<1> QED
  BY <1>1, <1>2, <1>3, <1>4, <1>5, <1>6, <1>7, <1>8, <1>9, <1>10, <1>11, <1>12, <1>13,
     <1>14, <1>15, <1>16, <1>17, <1>18, <1>19, <1>20, <1>21, <1>22, <1>23, <1>24, <1>25,
     <1>26, <1>27, <1>28, <1>29, <1>30 DEF Next, Present, Settle

-----------------------------------------------------------------------------
(* Holders and their claims in a quiet step.                                 *)

(* A doubted token stays doubted.                                             *)
LEMMA DoubtGrows ==
  ASSUME Next
  PROVE  doubted \subseteq doubted'
<1>1. ASSUME NEW d \in Devices, Serve(d) PROVE doubted \subseteq doubted'
  BY <1>1 DEF Serve, Write, Result, deviceVars, authVars, vars
<1>2. ASSUME NEW d \in Devices, LosePush(d) PROVE doubted \subseteq doubted'
  BY <1>2 DEF LosePush, deviceVars, authVars, vars
<1>3. ASSUME NEW d \in Devices, Pull(d) PROVE doubted \subseteq doubted'
  BY <1>3 DEF Pull, deviceVars, authVars, vars
<1>4. ASSUME NEW d \in Devices, Publish(d) PROVE doubted \subseteq doubted'
  BY <1>4 DEF Publish, Pushing, Idle, deviceVars, authVars, vars
<1>5. ASSUME NEW d \in Devices, Watch(d) PROVE doubted \subseteq doubted'
  BY <1>5 DEF Watch, deviceVars, authVars, vars
<1>6. ASSUME NEW d \in Devices, LeaseOver(d) PROVE doubted \subseteq doubted'
  BY <1>6 DEF LeaseOver, Overslept, deviceVars, authVars, vars
<1>7. ASSUME NEW d \in Devices, Claim(d) PROVE doubted \subseteq doubted'
  BY <1>7 DEF Claim, Pushing, Idle, deviceVars, authVars, vars
<1>8. ASSUME NEW d \in Devices, ClaimWon(d) PROVE doubted \subseteq doubted'
  BY <1>8 DEF ClaimWon, Answered, deviceVars, authVars, vars
<1>9. ASSUME NEW d \in Devices, Conflict(d) PROVE doubted \subseteq doubted'
  BY <1>9 DEF Conflict, Done, Idle, AdoptCurrent, deviceVars, authVars, vars
<1>10. ASSUME NEW d \in Devices, Settled(d) PROVE doubted \subseteq doubted'
  BY <1>10 DEF Settled, Done, Idle, deviceVars, authVars, vars
<1>11. ASSUME NEW d \in Devices, GiveUp(d) PROVE doubted \subseteq doubted'
  BY <1>11 DEF GiveUp, Done, Idle, deviceVars, authVars, vars
<1>12. ASSUME NEW d \in Devices, Freeze(d) PROVE doubted \subseteq doubted'
  BY <1>12 DEF Freeze, deviceVars, authVars, vars
<1>13. ASSUME NEW d \in Devices, PostLost(d) PROVE doubted \subseteq doubted'
  BY <1>13 DEF PostLost, deviceVars, authVars, vars
<1>14. ASSUME NEW d \in Devices, PostFails(d) PROVE doubted \subseteq doubted'
  BY <1>14 DEF PostFails, Freed, Pushing, Idle, deviceVars, authVars, vars
<1>15. ASSUME NEW d \in Devices, PostOk(d) PROVE doubted \subseteq doubted'
  BY <1>15 DEF PostOk, deviceVars, authVars, vars
<1>16. ASSUME NEW d \in Devices, PostInvalid(d) PROVE doubted \subseteq doubted'
  BY <1>16 DEF PostInvalid, Pushing, Idle, deviceVars, authVars, vars
<1>17. ASSUME NEW d \in Devices, InDoubt(d) PROVE doubted \subseteq doubted'
  BY <1>17 DEF InDoubt, Freed, Pushing, Idle, deviceVars, authVars, vars
<1>18. ASSUME NEW d \in Devices, Frozen(d) PROVE doubted \subseteq doubted'
  BY <1>18 DEF Frozen, AfterFreeze, Freed, Pushing, Idle, deviceVars, authVars, vars
<1>19. ASSUME NEW d \in Devices, WriteAhead(d) PROVE doubted \subseteq doubted'
  BY <1>19 DEF WriteAhead, Done, Pushing, Idle, deviceVars, authVars, vars
<1>20. ASSUME NEW d \in Devices, WriteAheadFails(d) PROVE doubted \subseteq doubted'
  BY <1>20 DEF WriteAheadFails, Done, Idle, deviceVars, authVars, vars
<1>21. ASSUME NEW d \in Devices, Published(d) PROVE doubted \subseteq doubted'
  BY <1>21 DEF Published, Done, Idle, deviceVars, authVars, vars
<1>22. ASSUME NEW d \in Devices, Discarded(d) PROVE doubted \subseteq doubted'
  BY <1>22 DEF Discarded, Done, Idle, deviceVars, authVars, vars
<1>23. ASSUME NEW d \in Devices, Rebase(d) PROVE doubted \subseteq doubted'
  BY <1>23 DEF Rebase, Answered, deviceVars, authVars, vars
<1>24. ASSUME NEW d \in Devices, Kept(d) PROVE doubted \subseteq doubted'
  BY <1>24 DEF Kept, Done, Idle, deviceVars, authVars, vars
<1>25. ASSUME NEW d \in Devices, Superseded(d) PROVE doubted \subseteq doubted'
  BY <1>25 DEF Superseded, Done, Idle, deviceVars, authVars, vars
<1>26. ASSUME NEW d \in Devices, Remove(d) PROVE doubted \subseteq doubted'
  BY <1>26 DEF Remove, deviceVars, authVars, vars
<1>27. ASSUME NEW d \in Devices, Crash(d) PROVE doubted \subseteq doubted'
  BY <1>27 DEF Crash, Idle, deviceVars, authVars, vars
<1>28. ASSUME NEW d \in Devices, SignIn(d) PROVE doubted \subseteq doubted'
  BY <1>28 DEF SignIn, Pushing, Idle, deviceVars, authVars, vars
<1>29. ASSUME NEW s \in strays, ArriveLate(s) PROVE doubted \subseteq doubted'
  BY <1>29 DEF ArriveLate, deviceVars, authVars, vars
<1>30. ASSUME Bury PROVE doubted \subseteq doubted'
  BY <1>30 DEF Bury, deviceVars, authVars, vars
<1> QED
  BY <1>1, <1>2, <1>3, <1>4, <1>5, <1>6, <1>7, <1>8, <1>9, <1>10, <1>11, <1>12, <1>13,
     <1>14, <1>15, <1>16, <1>17, <1>18, <1>19, <1>20, <1>21, <1>22, <1>23, <1>24, <1>25,
     <1>26, <1>27, <1>28, <1>29, <1>30 DEF Next, Present, Settle

(* What the fields of a call and a row range over.                             *)
LEMMA Typed ==
  ASSUME TypeOK, NEW d \in Devices
  PROVE  /\ calls[d] \in Call /\ rows[d] \in Row
         /\ calls[d].base \in Nat /\ calls[d].base + 1 \in Nat /\ HeldAt(d) \in Nat
         /\ rows[d].rev \in Nat /\ server.rev \in Nat
         /\ Token(d) \in 0 .. MaxPairs /\ server.is.tokens \in 0 .. MaxPairs
         /\ calls[d].late \in BOOLEAN /\ calls[d].sent \in BOOLEAN
<1>1. calls[d] \in Call /\ rows[d] \in Row /\ server \in Record
  BY DEF TypeOK
<1>2. calls[d].base \in Nat /\ calls[d].base + 1 \in Nat
  BY <1>1 DEF Call
<1> QED
  BY <1>1, <1>2 DEF Call, Row, Record, Content, HeldAt, Token

(* What a rotation shows of the device that presents.                          *)
LEMMA Rotates ==
  ASSUME IndInv, NEW d \in Devices, NEW p \in Pairs, Rotation(d, p)
  PROVE  /\ Holder(d) /\ ~calls[d].late /\ Token(d) \in Pairs /\ Shown(Token(d))
         /\ p # Token(d) /\ p \notin Issued /\ \A q \in Issued : q < p
         /\ next'[Token(d)] = p /\ \A x \in Pairs \ {Token(d)} : next'[x] = next[x]
         /\ family'[p] = family[Token(d)] /\ \A x \in Pairs \ {p} : family'[x] = family[x]
         /\ family[Token(d)] # 0
<1>1. Holder(d) /\ ~calls[d].late /\ calls[d].at = "present"
  BY DEF Rotation, MaySend, Holder
<1>2. Token(d) \in Pairs
  BY <1>1, Typed DEF IndInv, HolderOK, Pairs
<1>3. Shown(Token(d))
  BY <1>1 DEF Shown, Reads
<1>4. family[Token(d)] # 0
  BY <1>2, <1>3 DEF IndInv, IssuedInOrder
<1>5. p \notin Issued /\ family[p] = 0 /\ p # Token(d)
  BY <1>4 DEF Rotation, NewPair, Issued
<1>6. ASSUME NEW q \in Issued PROVE q < p
  <2>1. q \in Pairs /\ family[q] # 0 /\ p # q
    BY <1>5 DEF Issued
  <2>2. ~(p < q)
    BY <1>5, <2>1 DEF IndInv, IssuedInOrder
  <2> QED
    BY <2>1, <2>2 DEF Pairs
<1>7. next \in [Pairs -> 0 .. MaxPairs] /\ family \in [Pairs -> 0 .. 1 + MaxSignIns]
  BY DEF IndInv, TypeOK
<1> QED
  BY <1>1, <1>2, <1>3, <1>4, <1>5, <1>6, <1>7 DEF Rotation, Rotated

(* No call that could present is in the way of the one that does.              *)
LEMMA RotatesAlone ==
  ASSUME IndInv, NEW d \in Devices, NEW p \in Pairs, Rotation(d, p)
  PROVE  /\ server.is.tokens = Token(d) => HeldAt(d) = server.rev /\ server.is.claim # None
         /\ \A e \in Devices \ {d} : Holder(e) /\ Token(e) = Token(d) => Token(d) \in doubted
<1>1. Holder(d) /\ ~calls[d].late
  BY Rotates
<1>2. HolderOK(d) /\ \A e \in Devices \ {d} : Apart(d, e)
  BY DEF IndInv
<1> QED
  BY <1>1, <1>2 DEF HolderOK, Apart

(* HolderOK in a quiet step.                                                 *)
LEMMA HolderQuiet ==
  ASSUME GrantAssumption, IndInv, Next, Quiet, NEW e \in Devices
  PROVE  HolderOK(e)'
<1>1. SUFFICES ASSUME Holder(e)' PROVE HolderOK(e)'
  BY DEF HolderOK
<1>2. /\ Holder(e) /\ HeldAt(e)' = HeldAt(e) /\ Token(e)' = Token(e)
      /\ calls[e].late => calls'[e].late
      /\ calls[e].sent => calls'[e].sent
  BY <1>1, HoldersKept DEF KeepsHolder, IndInv
<1>3. server'.rev = server.rev /\ server'.is = server.is /\ doubted \subseteq doubted'
  BY DoubtGrows DEF Quiet
<1>4. HolderOK(e) /\ Token(e) \in Pairs
  BY <1>2, Typed DEF IndInv, HolderOK, Pairs
<1>5. ASSUME next'[Token(e)] # 0
      PROVE  calls'[e].sent \/ Token(e) \in doubted'
  <2>1. CASE next'[Token(e)] = next[Token(e)]
    BY <1>2, <1>3, <1>4, <1>5, <2>1 DEF HolderOK
  <2>2. CASE next'[Token(e)] # next[Token(e)]
    <3>1. PICK d \in Devices, p \in Pairs : Rotation(d, p)
      BY <2>2, AuthSteps DEF AuthStep, SignsIn, IndInv
    <3>2. Token(e) = Token(d)
      BY <1>4, <2>2, <3>1, Rotates
    <3>3. CASE d = e
      BY <1>1, <3>1, <3>3 DEF Rotation
    <3>4. CASE d # e
      BY <1>2, <1>3, <3>1, <3>2, <3>4, RotatesAlone
    <3> QED
      BY <3>3, <3>4
  <2> QED
    BY <2>1, <2>2
<1> QED
  BY <1>2, <1>3, <1>4, <1>5 DEF HolderOK

(* Apart in a quiet step.                                                    *)
LEMMA ApartQuiet ==
  ASSUME GrantAssumption, IndInv, Next, Quiet, NEW d \in Devices, NEW e \in Devices, d # e
  PROVE  Apart(d, e)'
<1>1. Apart(d, e) /\ KeepsHolder(d) /\ KeepsHolder(e) /\ doubted \subseteq doubted'
  BY HoldersKept, DoubtGrows DEF IndInv
<1> QED
  BY <1>1 DEF Apart, KeepsHolder

(* LapsedOK in a quiet step.                                                 *)
LEMMA LapsedQuiet ==
  ASSUME GrantAssumption, IndInv, Next, Quiet, NEW e \in Devices
  PROVE  LapsedOK(e)'
<1>1. SUFFICES ASSUME rows'[e].claim = "lapsed", NEW d \in Devices,
                      Holder(d)', HeldAt(d)' <= rows'[e].rev
               PROVE  calls'[d].late
  BY DEF LapsedOK
<1>2. /\ rows'[e].rev = rows[e].rev
      /\ \/ rows[e].claim = "lapsed"
         \/ \A i \in Devices : Holder(i) /\ HeldAt(i) <= rows[e].rev => calls'[i].late
  BY <1>1, LapsedStep DEF IndInv
<1>3. KeepsHolder(d) /\ LapsedOK(e)
  BY HoldersKept DEF IndInv
<1> QED
  BY <1>1, <1>2, <1>3 DEF KeepsHolder, LapsedOK

(* FreeOfDoubt and Unpublished in a quiet step: only the holder of the current  *)
(* claim rotates the token of the record, into a pair not issued before.         *)
LEMMA RowTokensQuiet ==
  ASSUME GrantAssumption, IndInv, Next, Quiet
  PROVE  FreeOfDoubt' /\ Unpublished'
<1>1. server'.rev = server.rev /\ server'.is = server.is /\ doubted \subseteq doubted'
  BY DoubtGrows DEF Quiet
<1> DEFINE t == server.is.tokens
<1>2. FreeOfDoubt /\ Unpublished /\ (t # 0 => t \in Pairs)
  BY DEF IndInv, TypeOK, Record, Content, Pairs
<1>3. CASE t = 0 \/ next'[t] = next[t]
  <2>1. FreeOfDoubt'
    BY <1>1, <1>2, <1>3 DEF FreeOfDoubt
  <2>2. ASSUME t # 0, next[t] # 0 PROVE ~Shown(next[t])'
    <3>1. PICK q : q = next[t]
      OBVIOUS
    <3>2. q \in Pairs /\ ~Shown(q)
      BY <1>2, <2>2, <3>1 DEF Unpublished, IndInv, TypeOK, Pairs
    <3>3. ~Shown(q)'
      BY <3>2, ShownKept DEF IndInv
    <3> QED
      BY <1>1, <1>3, <2>2, <3>1, <3>3
  <2>3. Unpublished'
    BY <1>1, <1>3, <2>2 DEF Unpublished
  <2> QED
    BY <2>1, <2>3
<1>4. CASE t # 0 /\ next'[t] # next[t]
  <2>1. PICK d \in Devices, p \in Pairs : Rotation(d, p)
    BY <1>4, AuthSteps DEF AuthStep, SignsIn, IndInv
  <2>2. t = Token(d) /\ next'[t] = p
    BY <1>2, <1>4, <2>1, Rotates
  <2>3. server.is.claim # None
    BY <2>1, <2>2, RotatesAlone
  <2>4. ~Shown(p)
    BY <2>1, Rotates DEF IndInv, IssuedInOrder, Issued
  <2>5. ~Shown(p)'
    BY <2>4, ShownKept DEF IndInv
  <2> QED
    BY <1>1, <2>2, <2>3, <2>5 DEF FreeOfDoubt, Unpublished
<1> QED
  BY <1>3, <1>4

-----------------------------------------------------------------------------
(* Pushes under way in a quiet step.                                         *)

(* A push that would settle still does after a quiet step.                     *)
LEMMA SettlesKept ==
  ASSUME GrantAssumption, IndInv, Next, Quiet, NEW at, NEW is, Settles(at, is)
  PROVE  Settles(at, is)'
<1>1. server'.rev = server.rev /\ server'.is = server.is /\ doubted \subseteq doubted'
  BY DoubtGrows DEF Quiet
<1>2. \A d \in Devices : KeepsHolder(d)
  BY HoldersKept DEF IndInv
<1>3. AllLate => AllLate'
  BY <1>2 DEF AllLate, KeepsHolder
<1>4. ~HolderAt(server.rev) => ~HolderAt(server.rev)'
  BY <1>1, <1>2 DEF HolderAt, KeepsHolder
<1>5. ASSUME at = "release", next'[is.tokens] # 0
      PROVE  is.tokens \in doubted'
  <2>1. is.tokens = server.is.tokens /\ is.tokens # 0 /\ ~HolderAt(server.rev)
    BY <1>5 DEF Settles
  <2>2. is.tokens \in Pairs
    BY <2>1 DEF IndInv, TypeOK, Record, Content, Pairs
  <2>3. CASE next'[is.tokens] = next[is.tokens]
    BY <1>1, <1>5, <2>3 DEF Settles
  <2>4. CASE next'[is.tokens] # next[is.tokens]
    <3>1. PICK d \in Devices, p \in Pairs : Rotation(d, p)
      BY <2>4, AuthSteps DEF AuthStep, SignsIn, IndInv
    <3>2. is.tokens = Token(d)
      BY <2>2, <2>4, <3>1, Rotates
    <3>3. Holder(d) /\ HeldAt(d) = server.rev
      BY <2>1, <3>1, <3>2, Rotates, RotatesAlone
    <3> QED
      BY <2>1, <3>3 DEF HolderAt
  <2> QED
    BY <2>3, <2>4
<1>6. ASSUME at = "publish"
      PROVE  next'[server.is.tokens] = is.tokens
  <2>1. server.is.tokens \in Pairs /\ next[server.is.tokens] = is.tokens /\ is.tokens # 0
    BY <1>6 DEF Settles, IndInv, TypeOK, Record, Content, Pairs
  <2>2. NextKept
    BY NextStep DEF IndInv
  <2> QED
    BY <2>1, <2>2 DEF NextKept
<1> QED
  BY <1>1, <1>3, <1>4, <1>5, <1>6 DEF Settles

(* So a sound push stays sound.                                              *)
LEMMA SoundKept ==
  ASSUME GrantAssumption, IndInv, Next, Quiet, NEW at, NEW base, NEW is, Sound(at, base, is)
  PROVE  Sound(at, base, is)'
BY SettlesKept DEF Sound, Quiet

(* A device that presents may ask for its claim to be taken out.               *)
LEMMA PresenterLeaves ==
  ASSUME GrantAssumption, IndInv, Next, Quiet, NEW e \in Devices,
         calls[e].at = "present", ~Holder(e)'
  PROVE  /\ HolderOK(e) /\ Holder(e) /\ HeldAt(e) = calls[e].base
         /\ calls[e].base = server.rev => ~HolderAt(server.rev)'
<1>1. HolderOK(e) /\ Holder(e) /\ HeldAt(e) = calls[e].base
  BY DEF IndInv, Holder, HeldAt
<1>2. ASSUME calls[e].base = server.rev, NEW d \in Devices, Holder(d)', HeldAt(d)' = server'.rev
      PROVE  FALSE
  <2>1. KeepsHolder(d) /\ d # e
    BY <1>2, HoldersKept DEF IndInv
  <2>2. Holder(d) /\ HeldAt(d) = server.rev
    BY <1>2, <2>1, Quiet DEF KeepsHolder, Quiet
  <2>3. Apart(e, d)
    BY <2>1 DEF IndInv
  <2> QED
    BY <1>1, <1>2, <2>2, <2>3 DEF Apart
<1> QED
  BY <1>1, <1>2 DEF HolderAt

(* AskOK in a quiet step.                                                    *)
LEMMA AskQuiet ==
  ASSUME GrantAssumption, IndInv, Next, Quiet, NEW e \in Devices
  PROVE  AskOK(e)'
<1>1. SUFFICES ASSUME Asks(e)', calls'[e].at # "publish"
               PROVE  Sound(calls[e].at, calls[e].base, calls[e].is)'
  BY DEF AskOK
<1>2. server'.rev = server.rev /\ server'.is = server.is /\ doubted \subseteq doubted'
  BY DoubtGrows DEF Quiet
<1>3. AskStep(e) /\ AskOK(e) /\ RowOK(e) /\ LapsedOK(e)
  BY AskSteps DEF IndInv
<1>4. CASE Asks(e) /\ calls'[e].at = calls[e].at /\ calls'[e].base = calls[e].base
           /\ calls'[e].is = calls[e].is
  <2>1. PICK at, base, is : at = calls[e].at /\ base = calls[e].base /\ is = calls[e].is
    OBVIOUS
  <2>2. Sound(at, base, is)
    BY <1>1, <1>3, <1>4, <2>1 DEF AskOK
  <2>3. Sound(at, base, is)'
    BY <2>2, SoundKept
  <2> QED
    BY <1>4, <2>1, <2>3
<1>5. CASE AsksClaim(e)
  <2>1. rows[e].rev <= server.rev /\ rows[e].is.tokens # 0 /\ None \notin Devices
    BY <1>3, <1>5 DEF RowOK, AsksClaim, Wanting, GrantAssumption
  <2>2. ASSUME rows[e].rev = server.rev
        PROVE  rows[e].is = server.is /\ (server.is.claim = None \/ AllLate')
    <3>1. rows[e].is = server.is
      BY <1>3, <2>1, <2>2 DEF RowOK
    <3>2. ASSUME ClaimLapsed(e), NEW d \in Devices, Holder(d)'
          PROVE  calls'[d].late
      <4>1. KeepsHolder(d) /\ HolderOK(d)
        BY HoldersKept DEF IndInv
      <4>2. Holder(d) /\ HeldAt(d) <= rows[e].rev
        BY <2>2, <3>2, <4>1 DEF KeepsHolder, HolderOK
      <4> QED
        BY <1>3, <3>2, <4>1, <4>2 DEF LapsedOK, ClaimLapsed, KeepsHolder
    <3> QED
      BY <1>5, <3>1, <3>2 DEF AsksClaim, AllLate
  <2> QED
    BY <1>2, <1>5, <2>1, <2>2 DEF AsksClaim, Sound, Settles
<1>6. CASE AsksRelease(e)
  <2>1. ~Holder(e)' /\ calls[e].at = "present"
    BY <1>6 DEF AsksRelease, Holder
  <2>2. /\ HolderOK(e) /\ Holder(e) /\ HeldAt(e) = calls[e].base
        /\ calls[e].base = server.rev => ~HolderAt(server.rev)'
    BY <2>1, PresenterLeaves
  <2>3. calls[e].base = server.rev => server.is.tokens = Token(e)
    BY <2>2, Typed DEF HolderOK, IndInv
  <2>4. next'[Token(e)] # 0 => Token(e) \in doubted'
    BY <1>2, <1>6, <2>2 DEF AsksRelease, HolderOK
  <2> QED
    BY <1>2, <1>6, <2>2, <2>3, <2>4 DEF AsksRelease, Sound, Settles, HolderOK
<1>7. CASE AsksKill(e)
  <2>1. ~Holder(e)' /\ calls[e].at = "present"
    BY <1>7 DEF AsksKill, Holder
  <2>2. /\ HolderOK(e) /\ Holder(e) /\ HeldAt(e) = calls[e].base
        /\ calls[e].base = server.rev => ~HolderAt(server.rev)'
    BY <2>1, PresenterLeaves
  <2> QED
    BY <1>2, <1>7, <2>2 DEF AsksKill, Sound, Settles, HolderOK
<1> QED
  BY <1>1, <1>3, <1>4, <1>5, <1>6, <1>7 DEF AskStep

(* StraysOK in a quiet step.                                                 *)
LEMMA StraysQuiet ==
  ASSUME GrantAssumption, ~SignInsLost, IndInv, Next, Quiet
  PROVE  StraysOK'
<1>1. SUFFICES ASSUME NEW s \in strays' PROVE Sound(s.at, s.base, s.is)'
  BY DEF StraysOK
<1>2. PICK at, base, is : at = s.at /\ base = s.base /\ is = s.is
  OBVIOUS
<1>3. Sound(at, base, is)
  <2>1. CASE s \in strays
    BY <1>2, <2>1 DEF IndInv, StraysOK
  <2>2. CASE s \notin strays
    <3>1. PICK d \in Devices :
            /\ Asks(d) /\ ~calls[d].held.fresh
            /\ s = [at |-> calls[d].at, base |-> calls[d].base, is |-> calls[d].is]
      BY <2>2, StraySteps DEF StrayFrom, IndInv
    <3>2. AskOK(d) /\ CallOK(d) /\ at = calls[d].at /\ base = calls[d].base /\ is = calls[d].is
      BY <1>2, <3>1 DEF IndInv
    <3>3. CASE at # "publish"
      BY <3>1, <3>2, <3>3 DEF AskOK
    <3>4. CASE at = "publish"
      <4>1. /\ is.tokens = calls[d].held.pair /\ is.claim = None /\ FitsOn(base, calls[d].held.spent)
            /\ SpentOK(calls[d].held)
        BY <3>1, <3>2, <3>4 DEF CallOK, Asks
      <4> QED
        BY <3>1, <3>2, <3>4, <4>1 DEF FitsOn, SpentOK, Sound, Settles
    <3> QED
      BY <3>3, <3>4
  <2> QED
    BY <2>1, <2>2
<1>4. Sound(at, base, is)'
  BY <1>3, SoundKept
<1> QED
  BY <1>2, <1>4

-----------------------------------------------------------------------------
(* Pairs and sign-ins in a quiet step.                                       *)

(* The next pair is later than all others, and so is the next sign-in.          *)
LEMMA SignsInNew ==
  ASSUME GrantAssumption, IndInv, NEW p \in Pairs, SignsIn(p)
  PROVE  /\ p \notin Issued /\ family'[p] # 0 /\ \A x \in Pairs \ {p} : family'[x] = family[x]
         /\ \A x \in Issued : family[x] # family'[p]
<1>1. family' = [family EXCEPT ![p] = 1 + Cardinality({family[q] : q \in Issued})]
      /\ p \notin Issued /\ family \in [Pairs -> 0 .. 1 + MaxSignIns]
  BY DEF SignsIn, NewPair, IndInv, TypeOK
<1>2. PICK n : n = Cardinality({family[q] : q \in Issued})
  OBVIOUS
<1>3. 1 + n \in Nat /\ \A q \in Issued : family[q] \in 1 .. n
  BY <1>2, SignInTyped DEF IndInv
<1>4. PICK m \in 0 .. 1 + MaxSignIns : {family[q] : q \in Issued} = 1 .. m
  BY DEF IndInv, SignInsNumbered
<1>5. m \in Nat /\ Cardinality(1 .. m) = m
  BY <1>4, FS_Interval DEF GrantAssumption
<1>6. n \in Nat
  BY <1>2, <1>4, <1>5
<1>7. family'[p] = 1 + n /\ \A x \in Pairs \ {p} : family'[x] = family[x]
  BY <1>1, <1>2
<1> QED
  BY SMTT(30), <1>1, <1>3, <1>6, <1>7

(* IssuedInOrder in a quiet step.                                            *)
LEMMA IssuedQuiet ==
  ASSUME GrantAssumption, IndInv, Next, Quiet
  PROVE  IssuedInOrder'
<1>0. IssuedInOrder
      /\ next \in [Pairs -> 0 .. MaxPairs] /\ family \in [Pairs -> 0 .. 1 + MaxSignIns]
  BY DEF IndInv, TypeOK
<1>1. ASSUME NEW x \in Pairs, Shown(x)' PROVE family[x] # 0
  BY <1>0, <1>1, ShownKept DEF IndInv, IssuedInOrder
<1>2. CASE next' = next /\ family' = family
  BY <1>0, <1>1, <1>2 DEF IssuedInOrder
<1>3. ASSUME NEW d \in Devices, NEW p \in Pairs, Rotation(d, p)
      PROVE  IssuedInOrder'
  <2> DEFINE t == Token(d)
  <2>1. /\ t \in Pairs /\ p # t /\ family[p] = 0 /\ family[t] # 0 /\ t < p
        /\ next'[t] = p /\ \A x \in Pairs \ {t} : next'[x] = next[x]
        /\ family'[p] = family[t] /\ \A x \in Pairs \ {p} : family'[x] = family[x]
    BY <1>3, Rotates DEF Issued
  <2>2. \A x \in Pairs : next[x] # 0 => next[x] \in Pairs /\ next[x] # p /\ x # p
    BY SMTT(30), <1>0, <2>1 DEF IssuedInOrder, Pairs
  <2>3. \A x \in Pairs : next'[x] # 0 => x < next'[x] /\ family'[x] # 0 /\ family'[next'[x]] = family'[x]
    <3>1. SUFFICES ASSUME NEW x \in Pairs, next'[x] # 0
                   PROVE  x < next'[x] /\ family'[x] # 0 /\ family'[next'[x]] = family'[x]
      OBVIOUS
    <3>2. CASE x = t
      BY <2>1, <3>2
    <3>3. CASE x # t
      BY <1>0, <2>1, <2>2, <3>1, <3>3 DEF IssuedInOrder
    <3> QED
      BY <3>2, <3>3
  <2>4. \A x, y \in Pairs : next'[x] # 0 /\ next'[x] = next'[y] => x = y
    BY <1>0, <2>1, <2>2 DEF IssuedInOrder
  <2>5. \A x \in Pairs : Shown(x)' => family'[x] # 0
    BY <1>1, <2>1
  <2>6. \A x \in Pairs : x < p => family[x] # 0
    BY <1>3 DEF Rotation, NewPair, Issued, Pairs
  <2>7. \A x, y \in Pairs : x < y /\ family'[y] # 0 => family'[x] # 0
    BY <1>0, <2>1, <2>6 DEF IssuedInOrder
  <2> HIDE DEF t
  <2> QED
    BY <2>3, <2>4, <2>5, <2>7 DEF IssuedInOrder
<1>4. ASSUME NEW p \in Pairs, SignsIn(p)
      PROVE  IssuedInOrder'
  <2>1. /\ next' = next /\ family[p] = 0
        /\ family'[p] # 0 /\ \A x \in Pairs \ {p} : family'[x] = family[x]
    BY <1>4, SignsInNew DEF SignsIn, Issued
  <2>2. \A x \in Pairs : next[x] # 0 => next[x] \in Pairs /\ next[x] # p /\ x # p
    BY <1>0, <2>1 DEF IssuedInOrder, Pairs
  <2>3. \A x \in Pairs : next'[x] # 0 => x < next'[x] /\ family'[x] # 0 /\ family'[next'[x]] = family'[x]
    BY <1>0, <2>1, <2>2 DEF IssuedInOrder
  <2>4. \A x, y \in Pairs : next'[x] # 0 /\ next'[x] = next'[y] => x = y
    BY <1>0, <2>1 DEF IssuedInOrder
  <2>5. \A x \in Pairs : Shown(x)' => family'[x] # 0
    BY <1>1, <2>1
  <2>6. \A x \in Pairs : x < p => family[x] # 0
    BY <1>4 DEF SignsIn, NewPair, Issued, Pairs
  <2>7. \A x, y \in Pairs : x < y /\ family'[y] # 0 => family'[x] # 0
    BY <1>0, <2>1, <2>6 DEF IssuedInOrder
  <2> QED
    BY <2>3, <2>4, <2>5, <2>7 DEF IssuedInOrder
<1> QED
  BY <1>2, <1>3, <1>4, AuthSteps DEF AuthStep, IndInv

(* Sign-ins are numbered in order.                                           *)
LEMMA NumberedQuiet ==
  ASSUME GrantAssumption, IndInv, TypeOK', Next
  PROVE  SignInsNumbered'
<1>0. family \in [Pairs -> 0 .. 1 + MaxSignIns] /\ family' \in [Pairs -> 0 .. 1 + MaxSignIns]
  BY DEF IndInv, TypeOK
<1>1. PICK n \in 0 .. 1 + MaxSignIns : {family[q] : q \in Issued} = 1 .. n
  BY DEF IndInv, SignInsNumbered
<1>2. CASE next' = next /\ family' = family
  BY <1>1, <1>2 DEF SignInsNumbered, Issued
<1>3. ASSUME NEW d \in Devices, NEW p \in Pairs, Rotation(d, p)
      PROVE  SignInsNumbered'
  <2>1. /\ Token(d) \in Issued /\ p \notin Issued /\ family'[p] = family[Token(d)]
        /\ \A x \in Pairs \ {p} : family'[x] = family[x]
    BY <1>3, Rotates DEF Issued
  <2>2. Issued' = Issued \cup {p}
    BY <2>1 DEF Issued
  <2>3. {family'[q] : q \in Issued'} = {family[q] : q \in Issued}
    BY <2>1, <2>2 DEF Issued
  <2> QED
    BY <1>1, <2>3 DEF SignInsNumbered
<1>4. ASSUME NEW p \in Pairs, SignsIn(p)
      PROVE  SignInsNumbered'
  <2>1. n \in Nat /\ Cardinality(1 .. n) = n
    BY <1>1, FS_Interval DEF GrantAssumption
  <2>2. /\ p \notin Issued /\ family'[p] = 1 + n
        /\ \A x \in Pairs \ {p} : family'[x] = family[x]
    BY <1>0, <1>1, <1>4, <2>1 DEF SignsIn, NewPair
  <2>3. Issued' = Issued \cup {p}
    BY <2>1, <2>2 DEF Issued
  <2>4. {family'[q] : q \in Issued'} = {family[q] : q \in Issued} \cup {1 + n}
    BY <2>2, <2>3 DEF Issued
  <2>5. {family'[q] : q \in Issued'} = 1 .. (1 + n)
    BY <1>1, <2>1, <2>4
  <2>6. 1 + n \in 0 .. 1 + MaxSignIns
    BY <1>0, <2>2
  <2> QED
    BY <2>5, <2>6 DEF SignInsNumbered
<1> QED
  BY <1>2, <1>3, <1>4, AuthSteps DEF AuthStep, IndInv

(* A pair of a new sign-in is kept by its device until it is published.        *)
CarriesStep(e, p) == Carries(e, p)' => Carries(e, p) \/ (SignIn(e) /\ SignsIn(p))

(* No action hands a new sign-in on.                                         *)
LEMMA CarriesSteps ==
  ASSUME GrantAssumption, ~SignInsLost, TypeOK, Next, NEW e \in Devices, NEW p \in Pairs,
         PendingOK(e), CallOK(e)
  PROVE  CarriesStep(e, p)
<1>0. /\ calls \in [Devices -> Call] /\ rows \in [Devices -> Row]
      /\ ~Nothing.fresh /\ Idle.held = Nothing
  BY DEF TypeOK, Nothing, Idle
<1>47. calls[e] \in Call /\ rows[e] \in Row
  BY DEF TypeOK
<1>48. calls[e].at \in {"idle", "present", "have"} => calls[e].answer = "none"
  BY DEF CallOK, Idle
<1>49. /\ calls[e].at \notin {"idle", "publish"} => ~rows[e].pending.fresh
       /\ calls[e].at \notin {"idle", "publish"} => ~calls[e].held.fresh
       /\ calls[e].at = "publish" /\ rows[e].pending.fresh => calls[e].held.fresh
  BY <1>0 DEF PendingOK, CallOK
<1>50. ASSUME calls'[e].answer = "ok"
       PROVE  CarriesStep(e, p)
  BY <1>50 DEF CarriesStep, Carries
<1>51. ASSUME ~rows'[e].pending.fresh, ~calls'[e].held.fresh
       PROVE  CarriesStep(e, p)
  BY <1>51 DEF CarriesStep, Carries
<1>52. ASSUME calls[e].answer # "ok",
              rows'[e].pending = rows[e].pending \/ rows'[e].pending = Nothing,
              \/ calls'[e].held = calls[e].held \/ calls'[e].held = Nothing
              \/ calls'[e].held = rows[e].pending
       PROVE  CarriesStep(e, p)
  BY <1>0, <1>52 DEF CarriesStep, Carries
<1>53. ASSUME rows'[e].pending = rows[e].pending \/ rows'[e].pending = Nothing,
              calls'[e] = calls[e]
       PROVE  CarriesStep(e, p)
  BY <1>50, <1>52, <1>53
<1>1. ASSUME NEW d \in Devices, Serve(d) PROVE CarriesStep(e, p)
  <2>1. CASE e = d
    <3>1. /\ calls[e].answer # "ok"
          /\ rows'[e].pending = rows[e].pending
          /\ calls'[e].held = calls[e].held
      BY <1>0, <1>47, <1>48, <1>49, <2>1, <1>1 DEF Serve, Call
    <3> QED
      BY <1>52, <3>1
  <2>2. CASE e # d
    <3>1. calls'[e] = calls[e] /\ rows'[e] = rows[e]
      BY <1>0, <1>1, <2>2 DEF Serve, Call
    <3> QED
      BY <1>53, <3>1
  <2> QED
    BY <2>1, <2>2
<1>2. ASSUME NEW d \in Devices, LosePush(d) PROVE CarriesStep(e, p)
  <2>1. CASE e = d
    <3>1. rows'[e].pending = rows[e].pending /\ calls'[e].held = calls[e].held
      BY <1>0, <1>47, <2>1, <1>2 DEF LosePush, Call
    <3>2. CASE calls[e].answer # "ok"
      BY <1>52, <3>1, <3>2
    <3>3. CASE calls[e].answer = "ok"
      <4>1. ~calls[e].held.fresh /\ calls[e].at \in Awaits
        BY <2>1, <3>3, <1>2, ~SignInsLost DEF LosePush
      <4> QED
        BY <1>49, <1>51, <3>1, <4>1 DEF Awaits
    <3> QED
      BY <3>2, <3>3
  <2>2. CASE e # d
    <3>1. calls'[e] = calls[e] /\ rows'[e] = rows[e]
      BY <1>0, <1>2, <2>2 DEF LosePush
    <3> QED
      BY <1>53, <3>1
  <2> QED
    BY <2>1, <2>2
<1>3. ASSUME NEW d \in Devices, Pull(d) PROVE CarriesStep(e, p)
  <2>1. calls'[e] = calls[e]
    BY <1>3 DEF Pull
  <2>2. rows'[e] = rows[e] \/ rows'[e] = NoRow \/ rows'[e] = Adopted(rows[e], server.rev, server.is)
    BY <1>0, <1>3 DEF Pull
  <2>3. NoRow.pending = Nothing
    BY DEF NoRow
  <2>4. rows'[e].pending = rows[e].pending \/ rows'[e].pending = Nothing
    BY <1>47, <2>2, <2>3, AdoptedIs
  <2> QED
    BY <1>53, <2>1, <2>4
<1>4. ASSUME NEW d \in Devices, Publish(d) PROVE CarriesStep(e, p)
  <2>1. CASE e = d
    <3>1. calls'[e].held = rows[e].pending /\ rows'[e] = rows[e] /\ calls[e].answer # "ok"
      BY <1>48, <2>1, <1>4, PublishPushes DEF PublishesWith, Publishing, Publish, Free
    <3> QED
      BY <1>52, <3>1
  <2>2. CASE e # d
    <3>1. calls'[e] = calls[e] /\ rows'[e] = rows[e]
      BY <1>0, <1>4, <2>2 DEF Publish
    <3> QED
      BY <1>53, <3>1
  <2> QED
    BY <2>1, <2>2
<1>5. ASSUME NEW d \in Devices, Watch(d) PROVE CarriesStep(e, p)
  <2>1. calls'[e] = calls[e] /\ rows'[e].pending = rows[e].pending
    BY <1>0, <1>47, <1>5 DEF Watch, Row
  <2> QED
    BY <1>53, <2>1
<1>6. ASSUME NEW d \in Devices, LeaseOver(d) PROVE CarriesStep(e, p)
  <2>1. /\ rows'[e].pending = rows[e].pending /\ calls'[e].held = calls[e].held
        /\ calls'[e].answer = calls[e].answer
    BY <1>0, <1>47, <1>6 DEF LeaseOver, Row, Call
  <2> QED
    BY <1>50, <1>52, <2>1
<1>7. ASSUME NEW d \in Devices, Claim(d) PROVE CarriesStep(e, p)
  <2>1. CASE e = d
    <3>1. /\ calls[e].answer # "ok"
          /\ rows'[e].pending = rows[e].pending
          /\ calls'[e].held = Nothing
      BY <1>0, <1>47, <1>48, <1>49, <2>1, <1>7 DEF Claim, Wanting, Free, Pushing, Idle
    <3> QED
      BY <1>52, <3>1
  <2>2. CASE e # d
    <3>1. calls'[e] = calls[e] /\ rows'[e] = rows[e]
      BY <1>0, <1>7, <2>2 DEF Claim
    <3> QED
      BY <1>53, <3>1
  <2> QED
    BY <2>1, <2>2
<1>8. ASSUME NEW d \in Devices, ClaimWon(d) PROVE CarriesStep(e, p)
  <2>1. CASE e = d
    <3>1. /\ ~calls'[e].held.fresh
          /\ ~rows'[e].pending.fresh
      BY <1>0, <1>47, <1>48, <1>49, <2>1, <1>8 DEF ClaimWon, Answered, Stored, Adopted,
         Row, Call
    <3> QED
      BY <1>51, <3>1
  <2>2. CASE e # d
    <3>1. calls'[e] = calls[e] /\ rows'[e] = rows[e]
      BY <1>0, <1>8, <2>2 DEF ClaimWon
    <3> QED
      BY <1>53, <3>1
  <2> QED
    BY <2>1, <2>2
<1>9. ASSUME NEW d \in Devices, Conflict(d) PROVE CarriesStep(e, p)
  <2>1. CASE e = d
    <3>1. /\ calls[e].answer # "ok"
          /\ rows'[e].pending = rows[e].pending
          /\ calls'[e].held = Nothing
      BY <1>0, <1>47, <1>48, <1>49, <2>1, <1>9 DEF Conflict, Done, AdoptCurrent, Adopted,
         Row
    <3> QED
      BY <1>52, <3>1
  <2>2. CASE e # d
    <3>1. calls'[e] = calls[e] /\ rows'[e] = rows[e]
      BY <1>0, <1>9, <2>2 DEF Conflict, Done, AdoptCurrent
    <3> QED
      BY <1>53, <3>1
  <2> QED
    BY <2>1, <2>2
<1>10. ASSUME NEW d \in Devices, Settled(d) PROVE CarriesStep(e, p)
  <2>1. CASE e = d
    <3>1. /\ ~calls'[e].held.fresh
          /\ ~rows'[e].pending.fresh
      BY <1>0, <1>47, <1>48, <1>49, <2>1, <1>10 DEF Settled, Done, Answered, Stored,
         Adopted, Row, Call
    <3> QED
      BY <1>51, <3>1
  <2>2. CASE e # d
    <3>1. calls'[e] = calls[e] /\ rows'[e] = rows[e]
      BY <1>0, <1>10, <2>2 DEF Settled, Done
    <3> QED
      BY <1>53, <3>1
  <2> QED
    BY <2>1, <2>2
<1>11. ASSUME NEW d \in Devices, GiveUp(d) PROVE CarriesStep(e, p)
  <2>1. CASE e = d
    <3>1. /\ calls[e].answer # "ok"
          /\ rows'[e].pending = rows[e].pending
          /\ calls'[e].held = Nothing
      BY <1>0, <1>47, <1>48, <1>49, <2>1, <1>11 DEF GiveUp, Done
    <3> QED
      BY <1>52, <3>1
  <2>2. CASE e # d
    <3>1. calls'[e] = calls[e] /\ rows'[e] = rows[e]
      BY <1>0, <1>11, <2>2 DEF GiveUp, Done
    <3> QED
      BY <1>53, <3>1
  <2> QED
    BY <2>1, <2>2
<1>12. ASSUME NEW d \in Devices, Freeze(d) PROVE CarriesStep(e, p)
  <2>1. CASE e = d
    <3>1. /\ rows'[e].pending = rows[e].pending
          /\ calls'[e].held = calls[e].held
          /\ calls'[e].answer = calls[e].answer
      BY <1>0, <1>47, <1>48, <1>49, <2>1, <1>12 DEF Freeze, Call
    <3> QED
      BY <1>50, <1>52, <3>1
  <2>2. CASE e # d
    <3>1. calls'[e] = calls[e] /\ rows'[e] = rows[e]
      BY <1>0, <1>12, <2>2 DEF Freeze, Call
    <3> QED
      BY <1>53, <3>1
  <2> QED
    BY <2>1, <2>2
<1>13. ASSUME NEW d \in Devices, PostLost(d) PROVE CarriesStep(e, p)
  <2>1. CASE e = d
    <3>1. /\ calls[e].answer # "ok"
          /\ rows'[e].pending = rows[e].pending
          /\ calls'[e].held = calls[e].held
      BY <1>0, <1>47, <1>48, <1>49, <2>1, <1>13 DEF PostLost, MaySend, Call
    <3> QED
      BY <1>52, <3>1
  <2>2. CASE e # d
    <3>1. calls'[e] = calls[e] /\ rows'[e] = rows[e]
      BY <1>0, <1>13, <2>2 DEF PostLost, MaySend, Call
    <3> QED
      BY <1>53, <3>1
  <2> QED
    BY <2>1, <2>2
<1>14. ASSUME NEW d \in Devices, PostFails(d) PROVE CarriesStep(e, p)
  <2>1. CASE e = d
    <3>1. /\ calls[e].answer # "ok"
          /\ rows'[e].pending = rows[e].pending
          /\ calls'[e].held = Nothing
      BY <1>0, <1>47, <1>48, <1>49, <2>1, <1>14 DEF PostFails, MaySend, Freed, Pushing,
         Idle
    <3> QED
      BY <1>52, <3>1
  <2>2. CASE e # d
    <3>1. calls'[e] = calls[e] /\ rows'[e] = rows[e]
      BY <1>0, <1>14, <2>2 DEF PostFails
    <3> QED
      BY <1>53, <3>1
  <2> QED
    BY <2>1, <2>2
<1>15. ASSUME NEW d \in Devices, PostOk(d) PROVE CarriesStep(e, p)
  <2>1. CASE e = d
    <3>1. /\ ~rows'[e].pending.fresh
          /\ ~calls'[e].held.fresh
      BY <1>0, <1>47, <1>48, <1>49, <2>1, <1>15 DEF PostOk, MaySend, Call
    <3> QED
      BY <1>51, <3>1
  <2>2. CASE e # d
    <3>1. calls'[e] = calls[e] /\ rows'[e] = rows[e]
      BY <1>0, <1>15, <2>2 DEF PostOk
    <3> QED
      BY <1>53, <3>1
  <2> QED
    BY <2>1, <2>2
<1>16. ASSUME NEW d \in Devices, PostInvalid(d) PROVE CarriesStep(e, p)
  <2>1. CASE e = d
    <3>1. /\ calls[e].answer # "ok"
          /\ rows'[e].pending = rows[e].pending
          /\ calls'[e].held = Nothing
      BY <1>0, <1>47, <1>48, <1>49, <2>1, <1>16 DEF PostInvalid, MaySend, Pushing, Idle
    <3> QED
      BY <1>52, <3>1
  <2>2. CASE e # d
    <3>1. calls'[e] = calls[e] /\ rows'[e] = rows[e]
      BY <1>0, <1>16, <2>2 DEF PostInvalid
    <3> QED
      BY <1>53, <3>1
  <2> QED
    BY <2>1, <2>2
<1>17. ASSUME NEW d \in Devices, InDoubt(d) PROVE CarriesStep(e, p)
  <2>1. CASE e = d
    <3>1. /\ calls[e].answer # "ok"
          /\ rows'[e].pending = rows[e].pending
          /\ calls'[e].held = Nothing
      BY <1>0, <1>47, <1>48, <1>49, <2>1, <1>17 DEF InDoubt, MaySend, Freed, Pushing, Idle
    <3> QED
      BY <1>52, <3>1
  <2>2. CASE e # d
    <3>1. calls'[e] = calls[e] /\ rows'[e] = rows[e]
      BY <1>0, <1>17, <2>2 DEF InDoubt
    <3> QED
      BY <1>53, <3>1
  <2> QED
    BY <2>1, <2>2
<1>18. ASSUME NEW d \in Devices, Frozen(d) PROVE CarriesStep(e, p)
  <2>1. CASE e = d
    <3>1. /\ calls[e].answer # "ok"
          /\ rows'[e].pending = rows[e].pending
          /\ calls'[e].held = Nothing
      BY <1>0, <1>47, <1>48, <1>49, <2>1, <1>18 DEF Frozen, AfterFreeze, Freed, Pushing,
         Idle
    <3> QED
      BY <1>52, <3>1
  <2>2. CASE e # d
    <3>1. calls'[e] = calls[e] /\ rows'[e] = rows[e]
      BY <1>0, <1>18, <2>2 DEF Frozen, AfterFreeze
    <3> QED
      BY <1>53, <3>1
  <2> QED
    BY <2>1, <2>2
<1>19. ASSUME NEW d \in Devices, WriteAhead(d) PROVE CarriesStep(e, p)
  <2>1. CASE e = d /\ rows[d].here
    <3>1. calls'[e].held = calls[e].held /\ calls[e].at = "have"
      BY <2>1, <1>19, WriteAheadPushes DEF PublishesWith, Publishing, WriteAhead
    <3>2. rows'[e].pending = calls[e].held
      BY <1>0, <1>47, <2>1, <1>19 DEF WriteAhead, Row
    <3>3. ~calls[e].held.fresh
      BY <3>1 DEF CallOK
    <3> QED
      BY <1>51, <3>1, <3>2, <3>3
  <2>2. CASE e # d \/ ~rows[d].here
    <3>1. rows'[e] = rows[e] /\ (calls'[e] = Idle \/ calls'[e] = calls[e])
      BY <1>0, <1>19, <2>2 DEF WriteAhead, Done
    <3>2. calls[e].at = "have" /\ calls'[e] = Idle => calls[e].answer # "ok"
      BY <1>48
    <3>3. calls'[e] = calls[e] \/ calls[e].at = "have"
      BY <1>0, <1>19, <2>2 DEF WriteAhead, Done
    <3> QED
      BY <1>0, <1>52, <1>53, <3>1, <3>2, <3>3
  <2> QED
    BY <2>1, <2>2
<1>20. ASSUME NEW d \in Devices, WriteAheadFails(d) PROVE CarriesStep(e, p)
  <2>1. CASE e = d
    <3>1. /\ calls[e].answer # "ok"
          /\ rows'[e].pending = rows[e].pending
          /\ calls'[e].held = Nothing
      BY <1>0, <1>47, <1>48, <1>49, <2>1, <1>20 DEF WriteAheadFails, Done
    <3> QED
      BY <1>52, <3>1
  <2>2. CASE e # d
    <3>1. calls'[e] = calls[e] /\ rows'[e] = rows[e]
      BY <1>0, <1>20, <2>2 DEF WriteAheadFails, Done
    <3> QED
      BY <1>53, <3>1
  <2> QED
    BY <2>1, <2>2
<1>21. ASSUME NEW d \in Devices, Published(d) PROVE CarriesStep(e, p)
  <2>1. CASE e = d
    <3>1. /\ ~calls'[e].held.fresh
          /\ ~rows'[e].pending.fresh
      BY <1>0, <1>47, <1>48, <1>49, <2>1, <1>21 DEF Published, Done, Cleared, Stored,
         Adopted, Row, Call
    <3> QED
      BY <1>51, <3>1
  <2>2. CASE e # d
    <3>1. calls'[e] = calls[e] /\ rows'[e] = rows[e]
      BY <1>0, <1>21, <2>2 DEF Published, Done
    <3> QED
      BY <1>53, <3>1
  <2> QED
    BY <2>1, <2>2
<1>22. ASSUME NEW d \in Devices, Discarded(d) PROVE CarriesStep(e, p)
  <2>1. CASE e = d
    <3>1. /\ ~calls'[e].held.fresh
          /\ ~rows'[e].pending.fresh
      BY <1>0, <1>47, <1>48, <1>49, <2>1, <1>22 DEF Discarded, Done, Cleared, Row, Call
    <3> QED
      BY <1>51, <3>1
  <2>2. CASE e # d
    <3>1. calls'[e] = calls[e] /\ rows'[e] = rows[e]
      BY <1>0, <1>22, <2>2 DEF Discarded, Done, Cleared, Row, Call
    <3> QED
      BY <1>53, <3>1
  <2> QED
    BY <2>1, <2>2
<1>23. ASSUME NEW d \in Devices, Rebase(d) PROVE CarriesStep(e, p)
  <2>1. CASE e = d
    <3>1. /\ calls[e].answer # "ok"
          /\ rows'[e].pending = rows[e].pending
          /\ calls'[e].held = calls[e].held
      BY <1>0, <1>47, <1>48, <1>49, <2>1, <1>23 DEF Rebase, Answered, Call
    <3> QED
      BY <1>52, <3>1
  <2>2. CASE e # d
    <3>1. calls'[e] = calls[e] /\ rows'[e] = rows[e]
      BY <1>0, <1>23, <2>2 DEF Rebase, Answered, Call
    <3> QED
      BY <1>53, <3>1
  <2> QED
    BY <2>1, <2>2
<1>24. ASSUME NEW d \in Devices, Kept(d) PROVE CarriesStep(e, p)
  <2>1. CASE e = d
    <3>1. /\ calls[e].answer # "ok"
          /\ rows'[e].pending = rows[e].pending
          /\ calls'[e].held = Nothing
      BY <1>0, <1>47, <1>48, <1>49, <2>1, <1>24 DEF Kept, Done, Answered
    <3> QED
      BY <1>52, <3>1
  <2>2. CASE e # d
    <3>1. calls'[e] = calls[e] /\ rows'[e] = rows[e]
      BY <1>0, <1>24, <2>2 DEF Kept, Done, Answered
    <3> QED
      BY <1>53, <3>1
  <2> QED
    BY <2>1, <2>2
<1>25. ASSUME NEW d \in Devices, Superseded(d) PROVE CarriesStep(e, p)
  <2>1. CASE e = d
    <3>1. /\ ~calls'[e].held.fresh
          /\ ~rows'[e].pending.fresh
      BY <1>0, <1>47, <1>48, <1>49, <2>1, <1>25 DEF Superseded, Done, Cleared, Adopted,
         Row, Call
    <3> QED
      BY <1>51, <3>1
  <2>2. CASE e # d
    <3>1. calls'[e] = calls[e] /\ rows'[e] = rows[e]
      BY <1>0, <1>25, <2>2 DEF Superseded, Done
    <3> QED
      BY <1>53, <3>1
  <2> QED
    BY <2>1, <2>2
<1>26. ASSUME NEW d \in Devices, Remove(d) PROVE CarriesStep(e, p)
  <2>1. calls'[e] = calls[e] /\ (rows'[e].pending = rows[e].pending \/ rows'[e].pending = Nothing)
    BY <1>0, <1>47, <1>26 DEF Remove, Row
  <2> QED
    BY <1>53, <2>1
<1>27. ASSUME NEW d \in Devices, Crash(d) PROVE CarriesStep(e, p)
  <2>1. CASE e = d
    <3>1. /\ rows'[e].pending = rows[e].pending /\ calls'[e].held = Nothing
          /\ ~calls[e].held.fresh /\ calls[e].at # "idle"
      BY <1>0, <1>47, <2>1, <1>27, ~SignInsLost DEF Crash, Row
    <3> QED
      BY <1>0, <1>49, <1>51, <3>1
  <2>2. CASE e # d
    <3>1. calls'[e] = calls[e] /\ rows'[e] = rows[e]
      BY <1>0, <1>27, <2>2 DEF Crash
    <3> QED
      BY <1>53, <3>1
  <2> QED
    BY <2>1, <2>2
<1>28. ASSUME NEW d \in Devices, SignIn(d) PROVE CarriesStep(e, p)
  <2>1. CASE e = d
    <3>1. PICK q \in Pairs :
            /\ NewPair(q)
            /\ family' = [family EXCEPT ![q] = 1 + Cardinality({family[x] : x \in Issued})]
            /\ rows' = [rows EXCEPT ![d] = [rows[d] EXCEPT !.here = TRUE, !.is = Empty,
                                                          !.pending = NewSignIn(d, q)]]
            /\ PublishesWith(d, rows[d].rev, NewSignIn(d, q))
      BY <1>28, SignInPushes
    <3>2. rows'[e].pending = NewSignIn(e, q) /\ calls'[e].held = NewSignIn(e, q)
      BY <1>0, <1>47, <2>1, <3>1 DEF PublishesWith, Publishing, Row
    <3>3. Carries(e, p)' => p = q
      BY <3>2 DEF Carries, NewSignIn
    <3>4. SignsIn(q)
      BY <1>28, <3>1 DEF SignsIn, SignIn
    <3> QED
      BY <1>28, <2>1, <3>3, <3>4 DEF CarriesStep
  <2>2. CASE e # d
    <3>1. calls'[e] = calls[e] /\ rows'[e] = rows[e]
      BY <1>0, <1>28, <2>2, SignInPushes DEF PublishesWith
    <3> QED
      BY <1>53, <3>1
  <2> QED
    BY <2>1, <2>2
<1>29. ASSUME NEW s \in strays, ArriveLate(s) PROVE CarriesStep(e, p)
  BY <1>53, <1>29 DEF ArriveLate, deviceVars
<1>30. ASSUME Bury PROVE CarriesStep(e, p)
  BY <1>53, <1>30 DEF Bury, deviceVars
<1> QED
  BY <1>1, <1>2, <1>3, <1>4, <1>5, <1>6, <1>7, <1>8, <1>9, <1>10, <1>11, <1>12, <1>13,
     <1>14, <1>15, <1>16, <1>17, <1>18, <1>19, <1>20, <1>21, <1>22, <1>23, <1>24, <1>25,
     <1>26, <1>27, <1>28, <1>29, <1>30 DEF Next, Present, Settle

(* A sign-in on one device leaves the others.                                 *)
LEMMA OthersCarry ==
  ASSUME TypeOK, NEW d \in Devices, NEW e \in Devices \ {d}, SignIn(d), NEW p \in Pairs,
         Carries(e, p)'
  PROVE  Carries(e, p)
<1>1. calls'[e] = calls[e] /\ rows'[e] = rows[e]
  BY ZenonT(60), SignInPushes DEF PublishesWith, TypeOK
<1> QED
  BY <1>1, Carries(e, p)' DEF Carries

(* FreshOK in a quiet step.                                                  *)
LEMMA FreshQuiet ==
  ASSUME GrantAssumption, ~SignInsLost, IndInv, Next, Quiet, NEW d \in Devices
  PROVE  FreshOK(d)'
<1>0. SUFFICES ASSUME NEW p \in Pairs, Carries(d, p)'
               PROVE  /\ family'[p] # 0 /\ ~Shown(p)'
                      /\ \A q \in Pairs : next'[q] # p
                      /\ \A q \in Pairs : family'[q] = family'[p] => q = p
                      /\ \A e \in Devices \ {d} : ~Carries(e, p)'
  BY DEF FreshOK
<1>1. /\ \A e \in Devices : FreshOK(e) /\ CarriesStep(e, p)
      /\ next \in [Pairs -> 0 .. MaxPairs] /\ family \in [Pairs -> 0 .. 1 + MaxSignIns]
  BY CarriesSteps DEF IndInv, TypeOK
<1>2. Shown(p)' => Shown(p)
  BY ShownKept DEF IndInv
<1>3. CASE SignIn(d) /\ SignsIn(p)
  <2>1. /\ p \notin Issued /\ family'[p] # 0 /\ \A x \in Pairs \ {p} : family'[x] = family[x]
        /\ \A x \in Issued : family[x] # family'[p]
    BY <1>3, SignsInNew
  <2>2. ~Shown(p) /\ \A q \in Pairs : next[q] # p
    BY <2>1 DEF IndInv, IssuedInOrder, Issued, Pairs
  <2>3. \A q \in Pairs : family'[q] = family'[p] => q = p
    BY <2>1 DEF Issued
  <2>4. ASSUME NEW e \in Devices \ {d}, Carries(e, p)' PROVE FALSE
    BY <1>1, <1>3, <2>1, <2>4, OthersCarry DEF FreshOK, Issued, IndInv
  <2> QED
    BY <1>2, <1>3, <2>1, <2>2, <2>3, <2>4 DEF SignsIn
<1>4. CASE ~(SignIn(d) /\ SignsIn(p))
  <2>1. Carries(d, p)
    BY <1>0, <1>1, <1>4 DEF CarriesStep
  <2>2. /\ family[p] # 0 /\ ~Shown(p)
        /\ \A q \in Pairs : next[q] # p
        /\ \A q \in Pairs : family[q] = family[p] => q = p
        /\ \A e \in Devices \ {d} : ~Carries(e, p)
    BY <1>1, <2>1 DEF FreshOK
  <2>3. ASSUME NEW e \in Devices \ {d}, Carries(e, p)' PROVE FALSE
    <3>1. SignsIn(p)
      BY <1>1, <2>2, <2>3 DEF CarriesStep
    <3> QED
      BY <2>2, <3>1, SignsInNew DEF Issued
  <2>4. CASE next' = next /\ family' = family
    BY <1>2, <2>2, <2>3, <2>4
  <2>5. ASSUME NEW i \in Devices, NEW q \in Pairs, Rotation(i, q)
        PROVE  /\ family'[p] # 0
               /\ \A x \in Pairs : next'[x] # p
               /\ \A x \in Pairs : family'[x] = family'[p] => x = p
    <3>1. /\ q # p /\ Token(i) # p /\ Token(i) \in Pairs
          /\ next'[Token(i)] = q /\ \A x \in Pairs \ {Token(i)} : next'[x] = next[x]
          /\ family'[q] = family[Token(i)] /\ \A x \in Pairs \ {q} : family'[x] = family[x]
      BY <2>2, <2>5, Rotates DEF Issued
    <3> QED
      BY <2>2, <3>1
  <2>6. ASSUME NEW q \in Pairs, SignsIn(q)
        PROVE  /\ family'[p] # 0
               /\ \A x \in Pairs : next'[x] # p
               /\ \A x \in Pairs : family'[x] = family'[p] => x = p
    <3>1. /\ next' = next /\ q # p /\ \A x \in Pairs \ {q} : family'[x] = family[x]
          /\ family'[q] # family[p]
      BY <2>2, <2>6, SignsInNew DEF Issued, SignsIn
    <3> QED
      BY <2>2, <3>1
  <2> QED
    BY <1>2, <2>2, <2>3, <2>4, <2>5, <2>6, AuthSteps DEF AuthStep, IndInv
<1> QED
  BY <1>3, <1>4

-----------------------------------------------------------------------------
(* Commits.                                                                  *)

(* A request that may be carried out.                                         *)
Lawful(at, is) ==
  /\ at \in Awaits
  /\ at # "publish" => Settles(at, is)
  /\ at = "publish" => /\ is.claim = None /\ is.tokens \in Pairs
                       /\ ~Shown(is.tokens) /\ family[is.tokens] # 0
                       /\ Onward(server.is.tokens, is.tokens)

(* A rotated pair may be published over the one it came from.                  *)
LEMMA PublishLawful ==
  ASSUME IndInv, NEW is, is.claim = None, is.tokens # 0,
         server.is.tokens # 0, next[server.is.tokens] = is.tokens
  PROVE  Lawful("publish", is)
<1>1. server.is.tokens \in Pairs /\ next \in [Pairs -> 0 .. MaxPairs]
  BY DEF IndInv, TypeOK, Record, Content, Pairs
<1>2. is.tokens \in Pairs
  BY <1>1 DEF Pairs
<1>3. family[is.tokens] # 0
  BY <1>1 DEF IndInv, IssuedInOrder
<1>4. ~Shown(is.tokens)
  BY DEF IndInv, Unpublished
<1>5. server.is.tokens < is.tokens
  BY <1>1 DEF IndInv, IssuedInOrder
<1> QED
  BY <1>1, <1>2, <1>3, <1>4, <1>5 DEF Lawful, Awaits, Onward, Pairs

(* A push its sender waits for may be carried out.                             *)
LEMMA OwnLawful ==
  ASSUME IndInv, NEW d \in Devices, OwnCommit(d)
  PROVE  Lawful(calls[d].at, calls[d].is)
<1>1. Asks(d) /\ calls[d].base = server.rev /\ AskOK(d) /\ CallOK(d) /\ FreshOK(d)
  BY DEF IndInv, OwnCommit
<1>2. CASE calls[d].at # "publish"
  BY <1>1, <1>2 DEF AskOK, Sound, Lawful, Asks
<1>3. CASE calls[d].at = "publish"
  <2>1. /\ SpentOK(calls[d].held) /\ calls[d].is.tokens = calls[d].held.pair
        /\ calls[d].is.claim = None
        /\ ~calls[d].held.fresh => server.is.tokens = calls[d].held.spent
    BY <1>1, <1>3 DEF CallOK, Asks, FitsOn
  <2>2. calls[d].held.pair \in Pairs
    BY <2>1 DEF SpentOK, IndInv, TypeOK, Call, Pending, Pairs
  <2>3. CASE ~calls[d].held.fresh
    BY <1>3, <2>1, <2>3, PublishLawful DEF SpentOK
  <2>4. CASE calls[d].held.fresh
    <3>1. Carries(d, calls[d].held.pair)
      BY <1>1, <2>4 DEF Carries, Asks
    <3>2. server.is.tokens \in 0 .. MaxPairs
      BY DEF IndInv, TypeOK, Record, Content
    <3>3. Onward(server.is.tokens, calls[d].held.pair)
      BY <1>1, <2>2, <3>1, <3>2 DEF FreshOK, Onward, Pairs
    <3> QED
      BY <1>1, <1>3, <2>1, <2>2, <3>1, <3>3 DEF FreshOK, Lawful, Awaits
  <2> QED
    BY <2>3, <2>4
<1> QED
  BY <1>2, <1>3

(* So may a stray one.                                                       *)
LEMMA StrayLawful ==
  ASSUME IndInv, NEW s \in strays, StrayCommit(s)
  PROVE  Lawful(s.at, s.is)
<1>1. Settles(s.at, s.is) /\ s.at \in Awaits
  BY DEF IndInv, StraysOK, StrayCommit, Sound, TypeOK
<1>2. CASE s.at # "publish"
  BY <1>1, <1>2 DEF Lawful
<1>3. CASE s.at = "publish"
  BY <1>1, <1>3, PublishLawful DEF Settles
<1> QED
  BY <1>2, <1>3

(* The calls at a commit: o is the device that asked, or None.                 *)
SameHolder(e) ==
  /\ Holder(e) /\ HeldAt(e)' = HeldAt(e) /\ Token(e)' = Token(e)
  /\ calls'[e].late = calls[e].late /\ calls'[e].sent = calls[e].sent

(* The push (at, is) commits; o is the device that is answered, or None.         *)
Commits(o, at, is) ==
  /\ Lands(at, is) /\ Lawful(at, is)
  /\ \A e \in Devices : Holder(e)' =>
       SameHolder(e) \/ (e = o /\ at = "claim" /\ HeldAt(e)' = server.rev + 1
                         /\ Token(e)' = is.tokens)
  /\ \A e \in Devices :
       /\ calls'[e].at = calls[e].at /\ calls'[e].base = calls[e].base
       /\ calls'[e].is = calls[e].is /\ calls'[e].held = calls[e].held
       /\ calls'[e] = calls[e] \/
            (e = o /\ calls[e].at \in Awaits /\ calls[e].answer = "none"
             /\ calls'[e].answer = "ok" /\ calls[e].base = server.rev
             /\ calls[e].is = is /\ calls[e].at = at)
  /\ strays' \subseteq strays
  /\ at = "publish" => \A e \in Devices : ~Carries(e, is.tokens)'

(* A pair that came from a rotation is not that of a new sign-in.               *)
LEMMA RotatedNotCarried ==
  ASSUME IndInv, server.is.tokens # 0, NEW p, p # 0, next[server.is.tokens] = p,
         NEW e \in Devices
  PROVE  ~Carries(e, p)
<1>1. server.is.tokens \in Pairs /\ p \in Pairs
  BY DEF IndInv, TypeOK, Record, Content, Pairs
<1> QED
  BY <1>1 DEF IndInv, FreshOK

(* An answered push commits.                                                 *)
LEMMA OwnCommits ==
  ASSUME IndInv, NEW d \in Devices, OwnCommit(d),
         NEW at, NEW is, at = calls[d].at, is = calls[d].is
  PROVE  Commits(d, at, is)
<1>1. /\ calls \in [Devices -> Call] /\ calls' = [calls EXCEPT ![d].answer = "ok"]
      /\ Asks(d) /\ calls[d].base = server.rev /\ Lands(at, is)
      /\ strays' = strays
  BY DEF OwnCommit, IndInv, TypeOK
<1>2. \A e \in Devices :
       /\ calls'[e].at = calls[e].at /\ calls'[e].base = calls[e].base
       /\ calls'[e].is = calls[e].is /\ calls'[e].held = calls[e].held
       /\ calls'[e].late = calls[e].late /\ calls'[e].sent = calls[e].sent
  BY <1>1 DEF Call
<1>3. calls'[d].answer = "ok" /\ \A e \in Devices \ {d} : calls'[e] = calls[e]
  BY <1>1 DEF Call
<1>4. ASSUME NEW e \in Devices, Holder(e)'
      PROVE  SameHolder(e) \/ (e = d /\ at = "claim" /\ HeldAt(e)' = server.rev + 1
                         /\ Token(e)' = is.tokens)
  <2>1. CASE e = d
    BY <1>1, <1>2, <1>4, <2>1 DEF Holder, HeldAt, Token, Asks, Awaits
  <2>2. CASE e # d
    BY <1>2, <1>3, <1>4, <2>2 DEF Holder, HeldAt, Token, SameHolder
  <2> QED
    BY <2>1, <2>2
<1>5. ASSUME at = "publish", NEW e \in Devices
      PROVE  ~Carries(e, is.tokens)'
  <2>1. PICK p : p = is.tokens
    OBVIOUS
  <2>3. rows' = rows
    BY <1>1 DEF Lands
  <2>4. CASE e = d
    BY <1>3, <2>4 DEF Carries
  <2>5. CASE e # d
    <3>1. ~Carries(e, p)
      <4>1. /\ SpentOK(calls[d].held) /\ p = calls[d].held.pair
            /\ ~calls[d].held.fresh => server.is.tokens = calls[d].held.spent
        BY <1>1, <1>5, <2>1 DEF IndInv, CallOK, Asks, FitsOn
      <4>2. CASE ~calls[d].held.fresh
        BY <4>1, <4>2, RotatedNotCarried DEF SpentOK
      <4>3. CASE calls[d].held.fresh
        <5>1. p \in Pairs /\ Carries(d, p)
          BY <1>1, <4>1, <4>3 DEF Carries, Asks, SpentOK, IndInv, TypeOK, Call, Pending,
             Pairs
        <5> QED
          BY <2>5, <5>1 DEF FreshOK, IndInv
      <4> QED
        BY <4>2, <4>3
    <3>2. ~Carries(e, p)'
      BY <1>3, <2>3, <2>5, <3>1 DEF Carries
    <3> QED
      BY <2>1, <3>2 DEF Carries
  <2> QED
    BY <2>4, <2>5
<1> QED
  BY <1>1, <1>2, <1>3, <1>4, <1>5, OwnLawful DEF Commits, Asks, Carries

(* A stray push commits.                                                     *)
LEMMA StrayCommits ==
  ASSUME IndInv, NEW s \in strays, StrayCommit(s),
         NEW at, NEW is, at = s.at, is = s.is
  PROVE  Commits(None, at, is)
<1>1. calls' = calls /\ strays' \subseteq strays /\ Lands(at, is)
  BY DEF StrayCommit
<1>2. \A e \in Devices : Holder(e)' => SameHolder(e)
  BY <1>1 DEF Holder, HeldAt, Token, SameHolder
<1>3. ASSUME at = "publish", NEW e \in Devices
      PROVE  ~Carries(e, is.tokens)'
  <2>1. server.is.tokens # 0 /\ next[server.is.tokens] = is.tokens /\ is.tokens # 0
    BY <1>3 DEF IndInv, StraysOK, StrayCommit, Sound, Settles
  <2>2. ~Carries(e, is.tokens)
    BY <2>1, RotatedNotCarried
  <2> QED
    BY <1>1, <2>2 DEF Carries, Lands
<1> QED
  BY <1>1, <1>2, <1>3, StrayLawful DEF Commits, Carries

(* A commit shows the pair it writes and no other.                            *)
LEMMA ShownAtCommit ==
  ASSUME IndInv, NEW o, NEW at, NEW is, Commits(o, at, is), NEW x \in Pairs, Shown(x)'
  PROVE  Shown(x) \/ x = is.tokens
<1>1. server'.is = is /\ next' = next /\ rows' = rows
  BY DEF Commits, Lands
<1>2. ASSUME NEW d \in Devices, Reads(d)', Token(d)' = x
      PROVE  Shown(x) \/ x = is.tokens
  BY <1>2 DEF Commits, Reads, Token, Shown
<1> QED
  BY <1>1, <1>2, Shown(x)' DEF Shown

(* HolderOK at a commit: only a release, a kill, a later pair or a claim over a  *)
(* late holder can follow a claim.                                           *)
LEMMA HolderCommit ==
  ASSUME GrantAssumption, IndInv, NEW o, NEW at, NEW is, Commits(o, at, is), NEW e \in Devices
  PROVE  HolderOK(e)'
<1>1. SUFFICES ASSUME Holder(e)' PROVE HolderOK(e)'
  BY DEF HolderOK
<1>2. /\ server'.rev = server.rev + 1 /\ server'.is = is /\ next' = next
      /\ doubted \subseteq doubted' /\ Lawful(at, is) /\ server.rev \in Nat
      /\ at = "claim" /\ server.is.claim # None /\ server.is.tokens # 0
           => server.is.tokens \in doubted'
  BY Typed DEF Commits, Lands, IndInv
<1>3. CASE SameHolder(e)
  <2>1. HolderOK(e) /\ Token(e) # 0 /\ HeldAt(e) \in Nat /\ HeldAt(e) <= server.rev
    BY <1>3, Typed DEF SameHolder, HolderOK, IndInv
  <2>2. HeldAt(e)' = HeldAt(e) /\ HeldAt(e) < server'.rev /\ HeldAt(e) <= server'.rev
    BY <1>2, <1>3, <2>1 DEF SameHolder
  <2>3. \/ is.tokens # Token(e)
        \/ calls[e].late /\ Token(e) \in doubted'
    <3>1. CASE at = "publish"
      <4>1. Token(e) \in Pairs
        BY <2>1, Typed DEF Pairs, IndInv
      <4>2. Shown(Token(e))
        BY <1>3 DEF SameHolder, Holder, Reads, Shown
      <4> QED
        BY <1>2, <3>1, <4>2 DEF Lawful
    <3>2. CASE at = "kill"
      BY <1>2, <2>1, <3>2 DEF Lawful, Settles, Empty
    <3>3. CASE at = "release"
      <4>1. is.tokens = server.is.tokens /\ HeldAt(e) # server.rev
        BY <1>2, <1>3, <3>3 DEF Lawful, Settles, HolderAt, SameHolder
      <4> QED
        BY <1>2, <1>3, <2>1, <4>1 DEF HolderOK, SameHolder
    <3>4. CASE at = "claim"
      <4>1. is.tokens = server.is.tokens /\ (server.is.claim = None \/ calls[e].late)
        BY <1>2, <1>3, <3>4 DEF Lawful, Settles, AllLate, SameHolder
      <4> QED
        BY <1>2, <1>3, <2>1, <3>4, <4>1 DEF HolderOK, SameHolder
    <3> QED
      BY <1>2, <3>1, <3>2, <3>3, <3>4 DEF Lawful, Awaits
  <2>4. next'[Token(e)] # 0 => calls[e].sent \/ Token(e) \in doubted'
    BY <1>2, <1>3, <2>1 DEF HolderOK, SameHolder
  <2> QED
    BY <1>2, <1>3, <2>1, <2>2, <2>3, <2>4 DEF HolderOK, SameHolder
<1>4. CASE at = "claim" /\ HeldAt(e)' = server.rev + 1 /\ Token(e)' = is.tokens
  <2>1. is.tokens # 0 /\ is.tokens = server.is.tokens /\ is.claim # None
    BY <1>2, <1>4 DEF Lawful, Settles
  <2>2. next[is.tokens] # 0 => is.tokens \in doubted'
    BY <1>2, <1>4, <2>1 DEF IndInv, FreeOfDoubt
  <2>3. HeldAt(e)' <= server'.rev /\ HeldAt(e)' = server'.rev
    BY <1>2, <1>4
  <2> QED
    BY <1>2, <1>4, <2>1, <2>2, <2>3 DEF HolderOK
<1> QED
  BY <1>1, <1>3, <1>4 DEF Commits

(* Apart at a commit: a new claim has a new revision.                          *)
LEMMA ApartCommit ==
  ASSUME GrantAssumption, IndInv, NEW o, NEW at, NEW is, Commits(o, at, is),
         NEW d \in Devices, NEW e \in Devices, d # e
  PROVE  Apart(d, e)'
<1>1. SUFFICES ASSUME Holder(d)', Holder(e)' PROVE Apart(d, e)'
  BY DEF Apart
<1>2. /\ doubted \subseteq doubted' /\ Lawful(at, is) /\ server.rev \in Nat
      /\ at = "claim" /\ server.is.claim # None /\ server.is.tokens # 0
           => server.is.tokens \in doubted'
  BY Typed DEF Commits, Lands, IndInv
<1>3. CASE SameHolder(d) /\ SameHolder(e)
  BY <1>2, <1>3 DEF Apart, SameHolder, IndInv
<1>4. ASSUME NEW i \in Devices, NEW j \in Devices, i # j, SameHolder(j),
             at = "claim", HeldAt(i)' = server.rev + 1, Token(i)' = is.tokens
      PROVE  /\ HeldAt(i)' # HeldAt(j)'
             /\ Token(i)' = Token(j)' => calls'[j].late /\ Token(i)' \in doubted'
  <2>1. HolderOK(j) /\ HeldAt(j) \in Nat /\ Holder(j)
    BY <1>4, Typed DEF SameHolder, IndInv
  <2>2. HeldAt(j) <= server.rev
    BY <2>1 DEF HolderOK
  <2>3. HeldAt(i)' # HeldAt(j)'
    BY <1>2, <1>4, <2>1, <2>2 DEF SameHolder
  <2>4. /\ is.tokens # 0 /\ is.tokens = server.is.tokens
        /\ server.is.claim = None \/ calls[j].late
    BY <1>2, <1>4, <2>1 DEF Lawful, Settles, AllLate
  <2> QED
    BY <1>2, <1>4, <2>1, <2>3, <2>4 DEF HolderOK, SameHolder
<1> QED
  BY <1>1, <1>3, <1>4 DEF Commits, Apart

(* LapsedOK at a commit.                                                     *)
LEMMA LapsedCommit ==
  ASSUME GrantAssumption, IndInv, NEW o, NEW at, NEW is, Commits(o, at, is), NEW e \in Devices
  PROVE  LapsedOK(e)'
<1>1. rows' = rows /\ server.rev \in Nat /\ rows[e].rev \in Nat /\ LapsedOK(e) /\ rows[e].rev <= server.rev
  BY Typed DEF Commits, Lands, IndInv, RowOK
<1>2. SUFFICES ASSUME rows[e].claim = "lapsed", NEW d \in Devices, Holder(d)', HeldAt(d)' <= rows[e].rev
               PROVE  calls'[d].late
  BY <1>1 DEF LapsedOK
<1>3. HeldAt(d)' # server.rev + 1
  BY <1>1, <1>2
<1>4. SameHolder(d)
  BY <1>2, <1>3 DEF Commits
<1> QED
  BY <1>1, <1>2, <1>4 DEF SameHolder, LapsedOK

(* FreeOfDoubt and Unpublished at a commit.                                   *)
LEMMA RowTokensCommit ==
  ASSUME GrantAssumption, IndInv, NEW o, NEW at, NEW is, Commits(o, at, is)
  PROVE  FreeOfDoubt' /\ Unpublished'
<1>1. /\ server'.is = is /\ next' = next /\ doubted \subseteq doubted' /\ Lawful(at, is)
      /\ None \notin Devices
  BY DEF Commits, Lands, GrantAssumption
<1>2. CASE at = "publish"
  <2>1. next[is.tokens] = 0
    BY <1>1, <1>2 DEF Lawful, Shown
  <2> QED
    BY <1>1, <2>1 DEF FreeOfDoubt, Unpublished
<1>3. CASE at = "kill"
  BY <1>1, <1>3 DEF FreeOfDoubt, Unpublished, Lawful, Settles, Empty
<1>4. CASE at = "claim" \/ at = "release"
  <2>1. is.tokens = server.is.tokens
    BY <1>1, <1>4 DEF Lawful, Settles
  <2>2. FreeOfDoubt'
    BY <1>1, <1>4 DEF FreeOfDoubt, Lawful, Settles
  <2>3. ASSUME is.tokens # 0, next[is.tokens] # 0 PROVE Unpublished'
    <3>1. PICK q : q = next[is.tokens]
      OBVIOUS
    <3>2. is.tokens \in Pairs /\ q \in Pairs /\ ~Shown(q)
      BY <2>1, <2>3, <3>1 DEF Unpublished, IndInv, TypeOK, Record, Content, Pairs
    <3>3. q # is.tokens
      BY <2>3, <3>1, <3>2 DEF IndInv, IssuedInOrder, Pairs
    <3>4. ~Shown(q)'
      BY <3>2, <3>3, ShownAtCommit
    <3>5. next'[server'.is.tokens] = q
      BY <1>1, <3>1
    <3> QED
      BY <3>4, <3>5 DEF Unpublished, Shown
  <2>4. CASE ~(is.tokens # 0 /\ next[is.tokens] # 0)
    BY <1>1, <2>1, <2>2, <2>4 DEF Unpublished
  <2> QED
    BY <2>2, <2>3, <2>4
<1> QED
  BY <1>1, <1>2, <1>3, <1>4 DEF Lawful, Awaits

(* IssuedInOrder at a commit.                                                *)
LEMMA IssuedCommit ==
  ASSUME GrantAssumption, IndInv, NEW o, NEW at, NEW is, Commits(o, at, is)
  PROVE  IssuedInOrder' /\ SignInsNumbered'
<1>1. next' = next /\ family' = family /\ Lawful(at, is) /\ IssuedInOrder
  BY DEF Commits, Lands, IndInv
<1>2. ASSUME NEW x \in Pairs, x = is.tokens PROVE family[x] # 0
  <2>1. CASE at = "publish"
    BY <1>1, <1>2, <2>1 DEF Lawful
  <2>2. CASE at # "publish"
    <3>1. x = server.is.tokens
      BY <1>1, <1>2, <2>2 DEF Lawful, Settles, Awaits, Empty, Pairs
    <3> QED
      BY <1>1, <3>1 DEF IssuedInOrder, Shown
  <2> QED
    BY <2>1, <2>2
<1>3. \A x \in Pairs : Shown(x)' => family[x] # 0
  BY <1>1, <1>2, ShownAtCommit DEF IssuedInOrder
<1>4. IssuedInOrder'
  BY <1>1, <1>3 DEF IssuedInOrder
<1>5. SignInsNumbered'
  BY <1>1 DEF SignInsNumbered, Issued, IndInv
<1> QED
  BY <1>4, <1>5

(* FreshOK at a commit.                                                      *)
LEMMA FreshCommit ==
  ASSUME GrantAssumption, IndInv, NEW o, NEW at, NEW is, Commits(o, at, is), NEW d \in Devices
  PROVE  FreshOK(d)'
<1>1. next' = next /\ family' = family /\ rows' = rows /\ Lawful(at, is)
  BY DEF Commits, Lands
<1>2. ASSUME NEW e \in Devices, NEW p \in Pairs, Carries(e, p)'
      PROVE  Carries(e, p)
  BY <1>1, <1>2 DEF Commits, Carries
<1>3. SUFFICES ASSUME NEW p \in Pairs, Carries(d, p)' PROVE p # is.tokens
  BY <1>1, <1>2, <1>3, ShownAtCommit DEF FreshOK, IndInv
<1>4. Carries(d, p) /\ FreshOK(d)
  BY <1>2, <1>3 DEF IndInv
<1>5. CASE at # "publish"
  BY <1>1, <1>4, <1>5 DEF FreshOK, Lawful, Settles, Awaits, Empty, Pairs, Shown
<1>6. CASE at = "publish"
  BY <1>3, <1>6 DEF Commits, Carries
<1> QED
  BY <1>5, <1>6

(* Rows, pending pairs, calls and questions at a commit: all had older bases.   *)
LEMMA RecordsCommit ==
  ASSUME GrantAssumption, IndInv, NEW o, NEW at, NEW is, Commits(o, at, is), NEW e \in Devices
  PROVE  RowOK(e)' /\ PendingOK(e)' /\ CallOK(e)' /\ AskOK(e)'
<1>1. /\ server'.rev = server.rev + 1 /\ server'.is = is
      /\ rows' = rows /\ next' = next /\ server.rev \in Nat
      /\ calls'[e].at = calls[e].at /\ calls'[e].base = calls[e].base
      /\ calls'[e].is = calls[e].is /\ calls'[e].held = calls[e].held
  BY Typed DEF Commits, Lands, IndInv
<1>2. RowOK(e) /\ PendingOK(e) /\ CallOK(e)
  BY DEF IndInv
<1>3. /\ rows[e].rev \in Nat /\ rows[e].pending.base \in Nat /\ calls[e].base \in Nat
      /\ calls[e].held.base \in Nat
  BY Typed DEF IndInv, Row, Call, Pending
<1>4. \A b \in Nat : b <= server.rev => b <= server'.rev /\ b # server'.rev
  BY <1>1
<1>5. RowOK(e)'
  BY <1>1, <1>2, <1>3, <1>4 DEF RowOK
<1>6. PendingOK(e)'
  BY <1>1, <1>2, <1>3, <1>4 DEF PendingOK, SpentOK, FitsOn
<1>7. calls[e].base <= server.rev /\ calls[e].base <= server'.rev /\ calls[e].base # server'.rev
  BY <1>2, <1>3, <1>4 DEF CallOK
<1>8. AskOK(e)'
  BY <1>1, <1>7 DEF AskOK, Sound
<1>9. CallOK(e)'
  <2>1. CASE calls'[e] = calls[e]
    <3>1. calls[e].answer = "ok" => calls[e].base + 1 # server'.rev /\ calls[e].base < server'.rev
      BY <1>1, <1>2, <1>3 DEF CallOK
    <3> QED
      BY <1>1, <1>2, <1>7, <2>1, <3>1 DEF CallOK, SpentOK, FitsOn
  <2>2. CASE /\ calls[e].at \in Awaits /\ calls[e].answer = "none" /\ calls'[e].answer = "ok"
             /\ calls[e].base = server.rev /\ calls[e].is = is
    <3>1. calls[e].base < server'.rev
      BY <1>1, <1>3, <2>2
    <3> QED
      BY <1>1, <1>2, <1>7, <2>2, <3>1 DEF CallOK, SpentOK, Awaits
  <2> QED
    BY <2>1, <2>2 DEF Commits
<1> QED
  BY <1>5, <1>6, <1>8, <1>9

(* A stray of an older base can only be refused.                              *)
LEMMA StraysCommit ==
  ASSUME GrantAssumption, IndInv, NEW o, NEW at, NEW is, Commits(o, at, is)
  PROVE  StraysOK'
<1>1. server'.rev = server.rev + 1 /\ server.rev \in Nat /\ strays' \subseteq strays
  BY DEF Commits, Lands, IndInv, TypeOK, Record
<1>2. ASSUME NEW s \in strays PROVE s.base <= server'.rev /\ s.base # server'.rev
  <2>1. s.base \in Nat /\ s.base <= server.rev
    BY DEF IndInv, StraysOK, Sound, TypeOK
  <2> QED
    BY <1>1, <2>1
<1> QED
  BY <1>1, <1>2 DEF StraysOK, Sound

-----------------------------------------------------------------------------
(* The invariant.                                                            *)

(* Holders hold issued tokens.                                               *)
LEMMA HoldersTokens == IndInv => TokensHeld
<1>1. SUFFICES ASSUME IndInv, NEW d \in Devices, Holder(d)
               PROVE  Token(d) \in Pairs /\ family[Token(d)] # 0
  BY DEF TokensHeld
<1>2. Token(d) \in Pairs
  BY <1>1, Typed DEF IndInv, HolderOK, Pairs
<1>3. Shown(Token(d))
  BY <1>1 DEF Shown, Reads, Holder
<1> QED
  BY <1>1, <1>2, <1>3 DEF IndInv, IssuedInOrder

(* The invariant holds at first.                                             *)
LEMMA Started ==
  ASSUME GrantAssumption, Init
  PROVE  IndInv
<1>1. /\ server.rev = 1 /\ server.is = [tokens |-> 1, claim |-> None] /\ ~server.gone
      /\ calls = [d \in Devices |-> Idle] /\ next = [p \in Pairs |-> 0]
      /\ family = [p \in Pairs |-> IF p = 1 THEN 1 ELSE 0] /\ strays = {}
      /\ server.is.tokens = 1 /\ server.is.claim = None
      /\ \A d \in Devices : /\ rows[d].rev = 1 /\ rows[d].is = server.is
                            /\ rows[d].pending = Nothing /\ rows[d].claim = "new"
                            /\ calls[d] = Idle
  BY DEF Init
<1>2. /\ Idle.at = "idle" /\ Idle.base = 0 /\ Idle.answer = "none" /\ Idle.held = Nothing
      /\ Idle.is = Empty /\ Empty.tokens = 0 /\ Nothing.pair = 0 /\ ~Nothing.fresh
      /\ 1 \in Pairs
  BY DEF Idle, Nothing, Empty, Pairs, GrantAssumption
<1>3. TypeOK
  <2>1. /\ server \in Record /\ Empty \in Content /\ Nothing \in Pending /\ Idle \in Call
        /\ server.is \in Content
    BY DEF Init, Record, Content, Pending, Call, Empty, Nothing, Idle, GrantAssumption
  <2>2. rows \in [Devices -> Row] /\ calls \in [Devices -> Call]
    BY <2>1 DEF Init, Row
  <2>3. next \in [Pairs -> 0 .. MaxPairs] /\ family \in [Pairs -> 0 .. 1 + MaxSignIns]
    BY <1>1 DEF GrantAssumption
  <2>4. strays = {} /\ removing = FALSE /\ revoked = {} /\ doubted = {} /\ upsets = 0
    BY DEF Init
  <2>5. upsets \in 0 .. MaxUpsets
    BY <2>4 DEF GrantAssumption
  <2>6. removing \in BOOLEAN
    BY <2>4
  <2> QED
    BY <2>1, <2>2, <2>3, <2>4, <2>5, <2>6 DEF TypeOK
<1>4. \A x \in Pairs : next[x] = 0 /\ (family[x] # 0 <=> x = 1)
  BY <1>1
<1>5. \A d \in Devices : ~Holder(d) /\ ~Asks(d) /\ Token(d) = 0
  BY <1>1, <1>2 DEF Holder, Asks, Awaits, Token
<1>6. \A x \in Pairs : Shown(x) => x = 1
  BY <1>1, <1>4, <1>5 DEF Shown, Pairs
<1>7. IssuedInOrder
  BY <1>4, <1>6 DEF IssuedInOrder, Pairs
<1>8. SignInsNumbered
  <2>1. {family[q] : q \in Issued} = 1 .. 1
    <3>1. Issued = {1}
      BY <1>2, <1>4 DEF Issued
    <3> QED
      BY <1>1, <1>2, <3>1
  <2> QED
    BY <2>1 DEF SignInsNumbered, GrantAssumption
<1>9. \A d \in Devices : RowOK(d) /\ PendingOK(d) /\ CallOK(d) /\ AskOK(d)
  BY <1>1, <1>2, <1>5 DEF RowOK, PendingOK, CallOK, AskOK
<1>10. \A d \in Devices : HolderOK(d) /\ LapsedOK(d) /\ FreshOK(d)
  BY <1>1, <1>2, <1>5 DEF HolderOK, LapsedOK, FreshOK, Carries
<1>11. StraysOK /\ FreeOfDoubt /\ Unpublished
  BY <1>1, <1>2, <1>4 DEF StraysOK, FreeOfDoubt, Unpublished
<1> QED
  BY <1>3, <1>5, <1>7, <1>8, <1>9, <1>10, <1>11 DEF IndInv, Apart

(* Quiet steps keep the invariant.                                           *)
LEMMA QuietStep ==
  ASSUME GrantAssumption, ~SignInsLost, IndInv, TypeOK', Next, Quiet
  PROVE  IndInv'
<1>1. TypeOK /\ \A d \in Devices : RowOK(d) /\ PendingOK(d) /\ CallOK(d) /\ HolderOK(d)
  BY DEF IndInv
<1>2. \A d \in Devices : RowOK(d)' /\ PendingOK(d)' /\ CallOK(d)'
  BY <1>1, RowOKStep, PendingStep, CallStep
<1>3. \A d \in Devices : AskOK(d)' /\ HolderOK(d)' /\ LapsedOK(d)' /\ FreshOK(d)'
  BY AskQuiet, HolderQuiet, LapsedQuiet, FreshQuiet
<1>4. \A d, e \in Devices : d # e => Apart(d, e)'
  BY ApartQuiet
<1>5. IssuedInOrder' /\ SignInsNumbered' /\ StraysOK' /\ FreeOfDoubt' /\ Unpublished'
  BY IssuedQuiet, NumberedQuiet, StraysQuiet, RowTokensQuiet
<1> QED
  BY <1>2, <1>3, <1>4, <1>5 DEF IndInv

(* So do commits.                                                            *)
LEMMA CommitStep ==
  ASSUME GrantAssumption, IndInv, TypeOK', NEW o, NEW at, NEW is, Commits(o, at, is)
  PROVE  IndInv'
<1>1. \A d \in Devices : RowOK(d)' /\ PendingOK(d)' /\ CallOK(d)' /\ AskOK(d)'
  BY RecordsCommit
<1>2. \A d \in Devices : HolderOK(d)' /\ LapsedOK(d)' /\ FreshOK(d)'
  BY HolderCommit, LapsedCommit, FreshCommit
<1>3. \A d, e \in Devices : d # e => Apart(d, e)'
  BY ApartCommit
<1>4. IssuedInOrder' /\ SignInsNumbered' /\ StraysOK' /\ FreeOfDoubt' /\ Unpublished'
  BY IssuedCommit, StraysCommit, RowTokensCommit
<1> QED
  BY <1>1, <1>2, <1>3, <1>4 DEF IndInv

(* There are no other steps.                                                 *)
LEMMA StepIsQuietOrCommits ==
  ASSUME GrantAssumption, IndInv, Next
  PROVE  Quiet \/ \E o, at, is : Commits(o, at, is)
<1>1. ASSUME NEW d \in Devices, OwnCommit(d) PROVE \E o, at, is : Commits(o, at, is)
  <2>1. PICK at, is : at = calls[d].at /\ is = calls[d].is
    OBVIOUS
  <2> QED
    BY <1>1, <2>1, OwnCommits
<1>2. ASSUME NEW s \in strays, StrayCommit(s) PROVE \E o, at, is : Commits(o, at, is)
  <2>1. PICK at, is : at = s.at /\ is = s.is
    OBVIOUS
  <2> QED
    BY <1>2, <2>1, StrayCommits
<1> QED
  BY <1>1, <1>2, StepKinds DEF Kinds, IndInv

(* Nor does stuttering disturb it.                                           *)
LEMMA Untouched ==
  ASSUME IndInv, UNCHANGED vars
  PROVE  IndInv'
<1>1. /\ server' = server /\ rows' = rows /\ calls' = calls /\ strays' = strays
      /\ removing' = removing /\ next' = next /\ family' = family
      /\ revoked' = revoked /\ doubted' = doubted /\ upsets' = upsets
  BY DEF vars, deviceVars, authVars
<1>2. TypeOK' /\ IssuedInOrder' /\ SignInsNumbered'
  BY <1>1 DEF IndInv, TypeOK, IssuedInOrder, SignInsNumbered, Issued, Shown, Reads, Token
<1>3. \A d \in Devices : RowOK(d)' /\ PendingOK(d)' /\ CallOK(d)'
  BY <1>1 DEF IndInv, RowOK, PendingOK, CallOK, SpentOK, FitsOn
<1>4. StraysOK' /\ \A d \in Devices : AskOK(d)'
  BY <1>1 DEF IndInv, AskOK, Asks, StraysOK, Sound, Settles, AllLate, HolderAt, HeldAt,
     Holder
<1>5. \A d \in Devices : HolderOK(d)' /\ LapsedOK(d)'
  BY <1>1 DEF IndInv, HolderOK, LapsedOK, Holder, HeldAt, Token
<1>6. \A d \in Devices : FreshOK(d)'
  BY <1>1 DEF IndInv, FreshOK, Carries, Shown, Reads, Token
<1>7. \A d, e \in Devices : d # e => Apart(d, e)'
  BY <1>1 DEF IndInv, Apart, Holder, HeldAt, Token
<1>8. FreeOfDoubt' /\ Unpublished'
  BY <1>1 DEF IndInv, FreeOfDoubt, Unpublished, Shown, Reads, Token
<1> QED
  BY <1>2, <1>3, <1>4, <1>5, <1>6, <1>7, <1>8 DEF IndInv

(* The invariant is kept by every step, unless the answer to a sign-in is lost.  *)
LEMMA Preserved ==
  ASSUME GrantAssumption, ~SignInsLost, IndInv, [Next]_vars
  PROVE  IndInv'
<1>1. CASE UNCHANGED vars
  BY <1>1, Untouched
<1>2. CASE Next
  <2>1. TypeOK'
    BY <1>2, Stepped, HoldersTokens DEF IndInv
  <2>2. CASE Quiet
    BY <1>2, <2>1, <2>2, QuietStep
  <2>3. ASSUME NEW o, NEW at, NEW is, Commits(o, at, is) PROVE IndInv'
    BY <2>1, <2>3, CommitStep
  <2> QED
    BY <1>2, <2>2, <2>3, StepIsQuietOrCommits
<1> QED
  BY <1>1, <1>2

-----------------------------------------------------------------------------
(* KeepInv, and what becomes of a pair.                                         *)

(* What is revoked stays revoked, and a deleted record stays deleted.            *)
Hardens == revoked \subseteq revoked' /\ (server.gone => server'.gone)

(* ... in every step.                                                        *)
LEMMA Hardening ==
  ASSUME TypeOK, Next
  PROVE  Hardens
<1>0. server \in Record
  BY DEF TypeOK
<1>1. ASSUME NEW d \in Devices, Serve(d) PROVE Hardens
  BY <1>1, <1>0 DEF Serve, Write, Result, deviceVars, authVars, Hardens, Record
<1>2. ASSUME NEW d \in Devices, LosePush(d) PROVE Hardens
  BY <1>2, <1>0 DEF LosePush, deviceVars, authVars, Hardens, Record
<1>3. ASSUME NEW d \in Devices, Pull(d) PROVE Hardens
  BY <1>3, <1>0 DEF Pull, deviceVars, authVars, Hardens, Record
<1>4. ASSUME NEW d \in Devices, Publish(d) PROVE Hardens
  BY <1>4, <1>0 DEF Publish, Pushing, Idle, deviceVars, authVars, Hardens, Record
<1>5. ASSUME NEW d \in Devices, Watch(d) PROVE Hardens
  BY <1>5, <1>0 DEF Watch, deviceVars, authVars, Hardens, Record
<1>6. ASSUME NEW d \in Devices, LeaseOver(d) PROVE Hardens
  BY <1>6, <1>0 DEF LeaseOver, deviceVars, authVars, Hardens, Record
<1>7. ASSUME NEW d \in Devices, Claim(d) PROVE Hardens
  BY <1>7, <1>0 DEF Claim, Pushing, Idle, deviceVars, authVars, Hardens, Record
<1>8. ASSUME NEW d \in Devices, ClaimWon(d) PROVE Hardens
  BY <1>8, <1>0 DEF ClaimWon, Answered, deviceVars, authVars, Hardens, Record
<1>9. ASSUME NEW d \in Devices, Conflict(d) PROVE Hardens
  BY <1>9, <1>0 DEF Conflict, Done, Idle, AdoptCurrent, deviceVars, authVars, Hardens,
     Record
<1>10. ASSUME NEW d \in Devices, Settled(d) PROVE Hardens
  BY <1>10, <1>0 DEF Settled, Done, Idle, deviceVars, authVars, Hardens, Record
<1>11. ASSUME NEW d \in Devices, GiveUp(d) PROVE Hardens
  BY <1>11, <1>0 DEF GiveUp, Done, Idle, deviceVars, authVars, Hardens, Record
<1>12. ASSUME NEW d \in Devices, Freeze(d) PROVE Hardens
  BY <1>12, <1>0 DEF Freeze, deviceVars, authVars, Hardens, Record
<1>13. ASSUME NEW d \in Devices, PostLost(d) PROVE Hardens
  BY <1>13, <1>0 DEF PostLost, deviceVars, authVars, Hardens, Record
<1>14. ASSUME NEW d \in Devices, PostFails(d) PROVE Hardens
  BY <1>14, <1>0 DEF PostFails, Freed, Pushing, Idle, deviceVars, authVars, Hardens,
     Record
<1>15. ASSUME NEW d \in Devices, PostOk(d) PROVE Hardens
  BY <1>15, <1>0 DEF PostOk, deviceVars, authVars, Hardens, Record
<1>16. ASSUME NEW d \in Devices, PostInvalid(d) PROVE Hardens
  BY <1>16, <1>0 DEF PostInvalid, Pushing, Idle, deviceVars, authVars, Hardens, Record
<1>17. ASSUME NEW d \in Devices, InDoubt(d) PROVE Hardens
  BY <1>17, <1>0 DEF InDoubt, Freed, Pushing, Idle, deviceVars, authVars, Hardens, Record
<1>18. ASSUME NEW d \in Devices, Frozen(d) PROVE Hardens
  BY <1>18, <1>0 DEF Frozen, AfterFreeze, Freed, Pushing, Idle, deviceVars, authVars,
     Hardens, Record
<1>19. ASSUME NEW d \in Devices, WriteAhead(d) PROVE Hardens
  BY <1>19, <1>0 DEF WriteAhead, Done, Pushing, Idle, deviceVars, authVars, Hardens,
     Record
<1>20. ASSUME NEW d \in Devices, WriteAheadFails(d) PROVE Hardens
  BY <1>20, <1>0 DEF WriteAheadFails, Done, Idle, deviceVars, authVars, Hardens, Record
<1>21. ASSUME NEW d \in Devices, Published(d) PROVE Hardens
  BY <1>21, <1>0 DEF Published, Done, Idle, deviceVars, authVars, Hardens, Record
<1>22. ASSUME NEW d \in Devices, Discarded(d) PROVE Hardens
  BY <1>22, <1>0 DEF Discarded, Done, Idle, deviceVars, authVars, Hardens, Record
<1>23. ASSUME NEW d \in Devices, Rebase(d) PROVE Hardens
  BY <1>23, <1>0 DEF Rebase, Answered, deviceVars, authVars, Hardens, Record
<1>24. ASSUME NEW d \in Devices, Kept(d) PROVE Hardens
  BY <1>24, <1>0 DEF Kept, Done, Idle, deviceVars, authVars, Hardens, Record
<1>25. ASSUME NEW d \in Devices, Superseded(d) PROVE Hardens
  BY <1>25, <1>0 DEF Superseded, Done, Idle, deviceVars, authVars, Hardens, Record
<1>26. ASSUME NEW d \in Devices, Remove(d) PROVE Hardens
  BY <1>26, <1>0 DEF Remove, deviceVars, authVars, Hardens, Record
<1>27. ASSUME NEW d \in Devices, Crash(d) PROVE Hardens
  BY <1>27, <1>0 DEF Crash, Idle, deviceVars, authVars, Hardens, Record
<1>28. ASSUME NEW d \in Devices, SignIn(d) PROVE Hardens
  BY <1>28, <1>0 DEF SignIn, Pushing, Idle, deviceVars, authVars, Hardens, Record
<1>29. ASSUME NEW s \in strays, ArriveLate(s) PROVE Hardens
  BY <1>29, <1>0 DEF ArriveLate, Write, Result, deviceVars, authVars, Hardens, Record
<1>30. ASSUME Bury PROVE Hardens
  BY <1>30, <1>0 DEF Bury, deviceVars, authVars, Hardens, Record
<1> QED
  BY <1>1, <1>2, <1>3, <1>4, <1>5, <1>6, <1>7, <1>8, <1>9, <1>10, <1>11, <1>12, <1>13,
     <1>14, <1>15, <1>16, <1>17, <1>18, <1>19, <1>20, <1>21, <1>22, <1>23, <1>24, <1>25,
     <1>26, <1>27, <1>28, <1>29, <1>30 DEF Next, Present, Settle

(* How a step answers a publication of e.                                       *)
KeepsOutcome(e) ==
  /\ calls[e].at = "publish" /\ calls'[e].answer = calls[e].answer
  /\ calls'[e].is = calls[e].is /\ calls'[e].held = calls[e].held

IsAnswered(e) ==
  /\ calls[e].at = "publish" /\ calls[e].answer = "none" /\ calls'[e].held = calls[e].held
  /\ calls'[e].answer = "ok" => calls'[e].is = calls[e].is
  /\ calls'[e].answer = "tombstoned" => server.gone
  /\ calls'[e].answer = "conflict" => calls'[e].is = server.is /\ server'.is = server.is

OutcomeStep(e) ==
  calls'[e].at = "publish" =>
    calls'[e].answer \in {"none", "network"} \/ KeepsOutcome(e) \/ IsAnswered(e)

(* ... and no step answers it otherwise.                                        *)
LEMMA OutcomeSteps ==
  ASSUME GrantAssumption, TypeOK, Next, NEW e \in Devices
  PROVE  OutcomeStep(e)
<1>0. calls \in [Devices -> Call] /\ server \in Record
  BY DEF TypeOK
<1>50. (calls' = calls \/ calls'[e] = calls[e]) => OutcomeStep(e)
  BY DEF OutcomeStep, KeepsOutcome
<1>51. ASSUME NEW d \in Devices, NEW base, NEW h, PublishesWith(d, base, h)
       PROVE  OutcomeStep(e)
  BY <1>50, <1>51 DEF PublishesWith, Publishing, OutcomeStep
<1>1. ASSUME NEW d \in Devices, Serve(d) PROVE OutcomeStep(e)
  <2>1. CASE e # d
    BY <1>1, <1>0, <1>50, <2>1 DEF Serve
  <2>2. CASE e = d
    BY <1>1, <1>0, <2>2 DEF Serve, Write, Result, OutcomeStep, IsAnswered, Call
  <2> QED
    BY <2>1, <2>2
<1>2. ASSUME NEW d \in Devices, LosePush(d) PROVE OutcomeStep(e)
  BY <1>2, <1>0, <1>50 DEF LosePush, deviceVars, authVars, OutcomeStep, KeepsOutcome,
     Call, Awaits, MaySend
<1>3. ASSUME NEW d \in Devices, Pull(d) PROVE OutcomeStep(e)
  BY <1>3, <1>0, <1>50 DEF Pull, deviceVars, authVars, OutcomeStep, KeepsOutcome, Call,
     Awaits, MaySend
<1>4. ASSUME NEW d \in Devices, Publish(d) PROVE OutcomeStep(e)
  BY <1>4, <1>51, PublishPushes
<1>5. ASSUME NEW d \in Devices, Watch(d) PROVE OutcomeStep(e)
  BY <1>5, <1>0, <1>50 DEF Watch, deviceVars, authVars, OutcomeStep, KeepsOutcome, Call,
     Awaits, MaySend
<1>6. ASSUME NEW d \in Devices, LeaseOver(d) PROVE OutcomeStep(e)
  BY <1>6, <1>0 DEF LeaseOver, OutcomeStep, KeepsOutcome, Call
<1>7. ASSUME NEW d \in Devices, Claim(d) PROVE OutcomeStep(e)
  BY <1>7, <1>0, <1>50 DEF Claim, Pushing, Idle, deviceVars, authVars, OutcomeStep,
     KeepsOutcome, Call, Awaits, MaySend
<1>8. ASSUME NEW d \in Devices, ClaimWon(d) PROVE OutcomeStep(e)
  BY <1>8, <1>0, <1>50 DEF ClaimWon, Answered, deviceVars, authVars, OutcomeStep,
     KeepsOutcome, Call, Awaits, MaySend
<1>9. ASSUME NEW d \in Devices, Conflict(d) PROVE OutcomeStep(e)
  BY <1>9, <1>0, <1>50 DEF Conflict, Done, Idle, AdoptCurrent, deviceVars, authVars,
     OutcomeStep, KeepsOutcome, Call, Awaits, MaySend
<1>10. ASSUME NEW d \in Devices, Settled(d) PROVE OutcomeStep(e)
  BY <1>10, <1>0, <1>50 DEF Settled, Done, Idle, deviceVars, authVars, OutcomeStep,
     KeepsOutcome, Call, Awaits, MaySend
<1>11. ASSUME NEW d \in Devices, GiveUp(d) PROVE OutcomeStep(e)
  BY <1>11, <1>0, <1>50 DEF GiveUp, Done, Idle, deviceVars, authVars, OutcomeStep,
     KeepsOutcome, Call, Awaits, MaySend
<1>12. ASSUME NEW d \in Devices, Freeze(d) PROVE OutcomeStep(e)
  BY <1>12, <1>0, <1>50 DEF Freeze, deviceVars, authVars, OutcomeStep, KeepsOutcome, Call,
     Awaits, MaySend
<1>13. ASSUME NEW d \in Devices, PostLost(d) PROVE OutcomeStep(e)
  BY <1>13, <1>0, <1>50 DEF PostLost, deviceVars, authVars, OutcomeStep, KeepsOutcome,
     Call, Awaits, MaySend
<1>14. ASSUME NEW d \in Devices, PostFails(d) PROVE OutcomeStep(e)
  BY <1>14, <1>0, <1>50 DEF PostFails, Freed, Pushing, Idle, deviceVars, authVars,
     OutcomeStep, KeepsOutcome, Call, Awaits, MaySend
<1>15. ASSUME NEW d \in Devices, PostOk(d) PROVE OutcomeStep(e)
  BY <1>15, <1>0, <1>50 DEF PostOk, deviceVars, authVars, OutcomeStep, KeepsOutcome, Call,
     Awaits, MaySend
<1>16. ASSUME NEW d \in Devices, PostInvalid(d) PROVE OutcomeStep(e)
  BY <1>16, <1>0, <1>50 DEF PostInvalid, Pushing, Idle, deviceVars, authVars, OutcomeStep,
     KeepsOutcome, Call, Awaits, MaySend
<1>17. ASSUME NEW d \in Devices, InDoubt(d) PROVE OutcomeStep(e)
  BY <1>17, <1>0, <1>50 DEF InDoubt, Freed, Pushing, Idle, deviceVars, authVars,
     OutcomeStep, KeepsOutcome, Call, Awaits, MaySend
<1>18. ASSUME NEW d \in Devices, Frozen(d) PROVE OutcomeStep(e)
  BY <1>18, <1>0, <1>50 DEF Frozen, AfterFreeze, Freed, Pushing, Idle, deviceVars,
     authVars, OutcomeStep, KeepsOutcome, Call, Awaits, MaySend
<1>19. ASSUME NEW d \in Devices, WriteAhead(d) PROVE OutcomeStep(e)
  <2>1. CASE rows[d].here
    BY <1>19, <1>51, <2>1, WriteAheadPushes
  <2>2. CASE ~rows[d].here
    BY <1>19, <1>0, <1>50, <2>2 DEF WriteAhead, Done, Idle, OutcomeStep
  <2> QED
    BY <2>1, <2>2
<1>20. ASSUME NEW d \in Devices, WriteAheadFails(d) PROVE OutcomeStep(e)
  BY <1>20, <1>0, <1>50 DEF WriteAheadFails, Done, Idle, deviceVars, authVars,
     OutcomeStep, KeepsOutcome, Call, Awaits, MaySend
<1>21. ASSUME NEW d \in Devices, Published(d) PROVE OutcomeStep(e)
  BY <1>21, <1>0, <1>50 DEF Published, Done, Idle, deviceVars, authVars, OutcomeStep,
     KeepsOutcome, Call, Awaits, MaySend
<1>22. ASSUME NEW d \in Devices, Discarded(d) PROVE OutcomeStep(e)
  BY <1>22, <1>0, <1>50 DEF Discarded, Done, Idle, deviceVars, authVars, OutcomeStep,
     KeepsOutcome, Call, Awaits, MaySend
<1>23. ASSUME NEW d \in Devices, Rebase(d) PROVE OutcomeStep(e)
  BY <1>23, <1>0, <1>50 DEF Rebase, Answered, deviceVars, authVars, OutcomeStep,
     KeepsOutcome, Call, Awaits, MaySend
<1>24. ASSUME NEW d \in Devices, Kept(d) PROVE OutcomeStep(e)
  BY <1>24, <1>0, <1>50 DEF Kept, Done, Idle, deviceVars, authVars, OutcomeStep,
     KeepsOutcome, Call, Awaits, MaySend
<1>25. ASSUME NEW d \in Devices, Superseded(d) PROVE OutcomeStep(e)
  BY <1>25, <1>0, <1>50 DEF Superseded, Done, Idle, deviceVars, authVars, OutcomeStep,
     KeepsOutcome, Call, Awaits, MaySend
<1>26. ASSUME NEW d \in Devices, Remove(d) PROVE OutcomeStep(e)
  BY <1>26, <1>0, <1>50 DEF Remove, deviceVars, authVars, OutcomeStep, KeepsOutcome, Call,
     Awaits, MaySend
<1>27. ASSUME NEW d \in Devices, Crash(d) PROVE OutcomeStep(e)
  BY <1>27, <1>0, <1>50 DEF Crash, Idle, deviceVars, authVars, OutcomeStep, KeepsOutcome,
     Call, Awaits, MaySend
<1>28. ASSUME NEW d \in Devices, SignIn(d) PROVE OutcomeStep(e)
  BY <1>28, <1>51, SignInPushes
<1>29. ASSUME NEW s \in strays, ArriveLate(s) PROVE OutcomeStep(e)
  BY <1>29, <1>0, <1>50 DEF ArriveLate, Write, Result, deviceVars, authVars, OutcomeStep,
     KeepsOutcome, Call, Awaits, MaySend
<1>30. ASSUME Bury PROVE OutcomeStep(e)
  BY <1>30, <1>0, <1>50 DEF Bury, deviceVars, authVars, OutcomeStep, KeepsOutcome, Call,
     Awaits, MaySend
<1> QED
  BY <1>1, <1>2, <1>3, <1>4, <1>5, <1>6, <1>7, <1>8, <1>9, <1>10, <1>11, <1>12, <1>13,
     <1>14, <1>15, <1>16, <1>17, <1>18, <1>19, <1>20, <1>21, <1>22, <1>23, <1>24, <1>25,
     <1>26, <1>27, <1>28, <1>29, <1>30 DEF Next, Present, Settle

(* How a step makes d lose its pending pair.                                    *)
LosesPending(d) ==
  \/ rows'[d].pending = rows[d].pending
  \/ server'.gone \/ removing'
  \/ SignIn(d) \/ WriteAhead(d) \/ Published(d) \/ Discarded(d) \/ Superseded(d)

(* ... and no step makes it lose the pair otherwise.                            *)
LEMMA PendingSteps ==
  ASSUME GrantAssumption, TypeOK, Next, NEW e \in Devices
  PROVE  LosesPending(e)
<1>0. rows \in [Devices -> Row]
  BY DEF TypeOK
<1>50. (rows' = rows \/ rows'[e] = rows[e] \/ rows'[e].pending = rows[e].pending) => LosesPending(e)
  BY DEF LosesPending
<1>51. ASSUME NEW d \in Devices, NEW rev, NEW is, rows' = [rows EXCEPT ![d] = Adopted(@, rev, is)]
       PROVE  LosesPending(e)
  BY <1>0, <1>50, <1>51 DEF Adopted, Row
<1>1. ASSUME NEW d \in Devices, Serve(d) PROVE LosesPending(e)
  BY <1>1, <1>0, <1>50 DEF Serve, Write, Result, deviceVars, authVars, LosesPending, Row
<1>2. ASSUME NEW d \in Devices, LosePush(d) PROVE LosesPending(e)
  BY <1>2, <1>0, <1>50 DEF LosePush, deviceVars, authVars, LosesPending, Row
<1>3. ASSUME NEW d \in Devices, Pull(d) PROVE LosesPending(e)
  <2>1. CASE server.gone
    BY <1>3, <2>1 DEF Pull, LosesPending
  <2>2. CASE ~server.gone
    BY <1>3, <1>51, <2>2 DEF Pull
  <2> QED
    BY <2>1, <2>2
<1>4. ASSUME NEW d \in Devices, Publish(d) PROVE LosesPending(e)
  BY <1>4, <1>0, <1>50 DEF Publish, Pushing, Idle, deviceVars, authVars, LosesPending, Row
<1>5. ASSUME NEW d \in Devices, Watch(d) PROVE LosesPending(e)
  BY <1>5, <1>0, <1>50 DEF Watch, deviceVars, authVars, LosesPending, Row
<1>6. ASSUME NEW d \in Devices, LeaseOver(d) PROVE LosesPending(e)
  BY <1>6, <1>0, <1>50 DEF LeaseOver, deviceVars, authVars, LosesPending, Row
<1>7. ASSUME NEW d \in Devices, Claim(d) PROVE LosesPending(e)
  BY <1>7, <1>0, <1>50 DEF Claim, Pushing, Idle, deviceVars, authVars, LosesPending, Row
<1>8. ASSUME NEW d \in Devices, ClaimWon(d) PROVE LosesPending(e)
  BY <1>8, <1>51 DEF ClaimWon, Stored
<1>9. ASSUME NEW d \in Devices, Conflict(d) PROVE LosesPending(e)
  BY <1>9, <1>51 DEF Conflict, AdoptCurrent
<1>10. ASSUME NEW d \in Devices, Settled(d) PROVE LosesPending(e)
  BY <1>10, <1>51 DEF Settled, Stored
<1>11. ASSUME NEW d \in Devices, GiveUp(d) PROVE LosesPending(e)
  BY <1>11, <1>0, <1>50 DEF GiveUp, Done, Idle, deviceVars, authVars, LosesPending, Row
<1>12. ASSUME NEW d \in Devices, Freeze(d) PROVE LosesPending(e)
  BY <1>12, <1>0, <1>50 DEF Freeze, deviceVars, authVars, LosesPending, Row
<1>13. ASSUME NEW d \in Devices, PostLost(d) PROVE LosesPending(e)
  BY <1>13, <1>0, <1>50 DEF PostLost, deviceVars, authVars, LosesPending, Row
<1>14. ASSUME NEW d \in Devices, PostFails(d) PROVE LosesPending(e)
  BY <1>14, <1>0, <1>50 DEF PostFails, Freed, Pushing, Idle, deviceVars, authVars,
     LosesPending, Row
<1>15. ASSUME NEW d \in Devices, PostOk(d) PROVE LosesPending(e)
  BY <1>15, <1>0, <1>50 DEF PostOk, deviceVars, authVars, LosesPending, Row
<1>16. ASSUME NEW d \in Devices, PostInvalid(d) PROVE LosesPending(e)
  BY <1>16, <1>0, <1>50 DEF PostInvalid, Pushing, Idle, deviceVars, authVars,
     LosesPending, Row
<1>17. ASSUME NEW d \in Devices, InDoubt(d) PROVE LosesPending(e)
  BY <1>17, <1>0, <1>50 DEF InDoubt, Freed, Pushing, Idle, deviceVars, authVars,
     LosesPending, Row
<1>18. ASSUME NEW d \in Devices, Frozen(d) PROVE LosesPending(e)
  BY <1>18, <1>0, <1>50 DEF Frozen, AfterFreeze, Freed, Pushing, Idle, deviceVars,
     authVars, LosesPending, Row
<1>19. ASSUME NEW d \in Devices, WriteAhead(d) PROVE LosesPending(e)
  BY <1>19, <1>0, <1>50 DEF WriteAhead, Done, Pushing, Idle, deviceVars, authVars,
     LosesPending, Row
<1>20. ASSUME NEW d \in Devices, WriteAheadFails(d) PROVE LosesPending(e)
  BY <1>20, <1>0, <1>50 DEF WriteAheadFails, Done, Idle, deviceVars, authVars,
     LosesPending, Row
<1>21. ASSUME NEW d \in Devices, Published(d) PROVE LosesPending(e)
  BY <1>21, <1>0, <1>50 DEF Published, Done, Idle, deviceVars, authVars, LosesPending, Row
<1>22. ASSUME NEW d \in Devices, Discarded(d) PROVE LosesPending(e)
  BY <1>22, <1>0, <1>50 DEF Discarded, Done, Idle, deviceVars, authVars, LosesPending, Row
<1>23. ASSUME NEW d \in Devices, Rebase(d) PROVE LosesPending(e)
  BY <1>23, <1>0, <1>50 DEF Rebase, Answered, deviceVars, authVars, LosesPending, Row
<1>24. ASSUME NEW d \in Devices, Kept(d) PROVE LosesPending(e)
  BY <1>24, <1>0, <1>50 DEF Kept, Done, Idle, deviceVars, authVars, LosesPending, Row
<1>25. ASSUME NEW d \in Devices, Superseded(d) PROVE LosesPending(e)
  BY <1>25, <1>0, <1>50 DEF Superseded, Done, Idle, deviceVars, authVars, LosesPending,
     Row
<1>26. ASSUME NEW d \in Devices, Remove(d) PROVE LosesPending(e)
  BY <1>26, <1>0, <1>50 DEF Remove, deviceVars, authVars, LosesPending, Row
<1>27. ASSUME NEW d \in Devices, Crash(d) PROVE LosesPending(e)
  BY <1>27, <1>0, <1>50 DEF Crash, Idle, deviceVars, authVars, LosesPending, Row
<1>28. ASSUME NEW d \in Devices, SignIn(d) PROVE LosesPending(e)
  BY ZenonT(60), <1>28, <1>0, <1>50 DEF SignIn, Pushing, Idle, deviceVars, authVars,
     LosesPending, Row
<1>29. ASSUME NEW s \in strays, ArriveLate(s) PROVE LosesPending(e)
  BY <1>29, <1>0, <1>50 DEF ArriveLate, Write, Result, deviceVars, authVars, LosesPending,
     Row
<1>30. ASSUME Bury PROVE LosesPending(e)
  BY <1>30, <1>0, <1>50 DEF Bury, deviceVars, authVars, LosesPending, Row
<1> QED
  BY <1>1, <1>2, <1>3, <1>4, <1>5, <1>6, <1>7, <1>8, <1>9, <1>10, <1>11, <1>12, <1>13,
     <1>14, <1>15, <1>16, <1>17, <1>18, <1>19, <1>20, <1>21, <1>22, <1>23, <1>24, <1>25,
     <1>26, <1>27, <1>28, <1>29, <1>30 DEF Next, Present, Settle

(* The last pair of a sign-in is one: a rotation puts another in its place, and   *)
(* a new sign-in begins with one.                                              *)
LEMMA TipStep ==
  ASSUME GrantAssumption, IndInv, OneTip, Next
  PROVE  OneTip'
<1>1. AuthStep /\ TypeOK
  BY AuthSteps DEF IndInv
<1>2. CASE next' = next /\ family' = family
  BY <1>2 DEF OneTip, Issued
<1>3. ASSUME NEW d \in Devices, NEW p \in Pairs, Rotation(d, p)
      PROVE  OneTip'
  <2>1. /\ Token(d) \in Pairs /\ family[Token(d)] # 0 /\ p \notin Issued
        /\ next'[Token(d)] = p /\ \A x \in Pairs \ {Token(d)} : next'[x] = next[x]
        /\ family'[p] = family[Token(d)] /\ \A x \in Pairs \ {p} : family'[x] = family[x]
        /\ next[Token(d)] = 0 /\ p # 0
    BY <1>3, Rotates DEF Rotation, Pairs
  <2>2. SUFFICES ASSUME NEW x \in Issued', NEW y \in Issued', family'[x] = family'[y],
                        next'[x] = 0, next'[y] = 0, x # y
                 PROVE  FALSE
    BY DEF OneTip
  <2>3. x \in Pairs /\ y \in Pairs /\ family'[x] # 0 /\ family'[y] # 0
        /\ x # Token(d) /\ y # Token(d)
    BY <2>1, <2>2 DEF Issued
  <2>4. ASSUME NEW z \in Pairs, z # p, z # Token(d), next'[z] = 0, family'[z] = family'[p]
        PROVE  FALSE
    <3>1. z \in Issued /\ next[z] = 0 /\ family[z] = family[Token(d)]
      BY <2>1, <2>4 DEF Issued
    <3> QED
      BY <2>1, <2>4, <3>1 DEF OneTip, Issued
  <2>5. x # p /\ y # p
    BY <2>2, <2>3, <2>4
  <2>6. x \in Issued /\ y \in Issued /\ next[x] = 0 /\ next[y] = 0 /\ family[x] = family[y]
    BY <2>1, <2>2, <2>3, <2>5 DEF Issued
  <2> QED
    BY <2>2, <2>6 DEF OneTip
<1>4. ASSUME NEW p \in Pairs, SignsIn(p)
      PROVE  OneTip'
  <2>1. /\ p \notin Issued /\ family'[p] # 0 /\ \A x \in Pairs \ {p} : family'[x] = family[x]
        /\ \A x \in Issued : family[x] # family'[p]
        /\ next' = next
    BY <1>4, SignsInNew DEF SignsIn
  <2> QED
    BY <2>1 DEF OneTip, Issued
<1> QED
  BY <1>1, <1>2, <1>3, <1>4 DEF AuthStep

(* The record's family does not change while the record does not.               *)
LEMMA FamilyKept ==
  ASSUME GrantAssumption, IndInv, Next, NEW x \in Issued
  PROVE  family'[x] = family[x] /\ x \in Issued'
<1>1. AuthStep /\ x \in Pairs /\ family[x] # 0
  BY AuthSteps DEF IndInv, Issued
<1>2. ASSUME NEW d \in Devices, NEW p \in Pairs, Rotation(d, p)
      PROVE  family'[x] = family[x]
  BY <1>1, <1>2, Rotates
<1>3. ASSUME NEW p \in Pairs, SignsIn(p)
      PROVE  family'[x] = family[x]
  BY <1>1, <1>3, SignsInNew
<1> QED
  BY <1>1, <1>2, <1>3 DEF AuthStep, Issued

(* The token of the record was issued.                                         *)
LEMMA RecordIssued ==
  ASSUME IndInv, server.is.tokens # 0
  PROVE  server.is.tokens \in Issued /\ Shown(server.is.tokens)
<1>1. server.is.tokens \in Pairs
  BY DEF IndInv, TypeOK, Record, Content, Pairs
<1> QED
  BY <1>1 DEF Shown, IndInv, IssuedInOrder, Issued

(* A kill that is still in time is for a revoked sign-in, and stays so.           *)
LEMMA DeadlyKept ==
  ASSUME GrantAssumption, IndInv, Next, NEW at, NEW base \in Nat, base <= server.rev,
         Deadly(at, base)
  PROVE  Deadly(at, base)'
<1>1. Hardens /\ server.rev \in Nat
  BY Hardening DEF IndInv, TypeOK, Record
<1>2. CASE Quiet
  <2>1. SUFFICES ASSUME at = "kill", base = server'.rev, server'.is.tokens # 0
                 PROVE  family'[server'.is.tokens] \in revoked'
    BY DEF Deadly
  <2>2. server.is.tokens \in Issued /\ family[server.is.tokens] \in revoked
    BY <1>2, <2>1, RecordIssued DEF Quiet, Deadly
  <2> QED
    BY <1>1, <1>2, <2>2, FamilyKept DEF Quiet, Hardens
<1>3. ASSUME NEW o, NEW c, NEW is, Commits(o, c, is)
      PROVE  Deadly(at, base)'
  BY <1>1, <1>3 DEF Commits, Lands, Deadly
<1> QED
  BY <1>2, <1>3, StepIsQuietOrCommits

(* No kill is for a sign-in that lives.                                        *)
LEMMA KillStep ==
  ASSUME GrantAssumption, ~SignInsLost, IndInv, KillsOK, Next
  PROVE  KillsOK'
<1>0. TypeOK /\ calls \in [Devices -> Call] /\ server.rev \in Nat
  BY DEF IndInv, TypeOK, Record
<1>1. ASSUME NEW e \in Devices, Asks(e)'
      PROVE  Deadly(calls[e].at, calls[e].base)'
  <2>1. AskStep(e) /\ calls[e].base \in Nat /\ CallOK(e) /\ HolderOK(e)
    BY <1>0, AskSteps DEF IndInv, Call
  <2>2. CASE Asks(e) /\ calls'[e].at = calls[e].at /\ calls'[e].base = calls[e].base
    <3>1. PICK at, base : at = calls[e].at /\ base = calls[e].base
      OBVIOUS
    <3>2. Deadly(at, base) /\ base \in Nat /\ base <= server.rev
      BY <2>1, <2>2, <3>1 DEF KillsOK, CallOK
    <3>3. Deadly(at, base)'
      BY <3>2, DeadlyKept
    <3> QED
      BY <2>2, <3>1, <3>3
  <2>3. CASE calls'[e].at # "kill"
    BY <2>3 DEF Deadly
  <2>4. CASE AsksKill(e)
    <3>1. ~Holder(e)' /\ calls[e].at = "present" /\ Holder(e) /\ HeldAt(e) = calls[e].base
      BY <2>4 DEF AsksKill, Holder, HeldAt
    <3>2. SUFFICES ASSUME calls'[e].base = server'.rev, server'.is.tokens # 0
                   PROVE  family'[server'.is.tokens] \in revoked'
      BY DEF Deadly
    <3>3. ASSUME NEW o, NEW at, NEW is, Commits(o, at, is)
          PROVE  FALSE
      BY <2>4, <3>3 DEF Commits, AsksKill
    <3>4. Quiet
      BY <3>3, StepIsQuietOrCommits
    <3>5. HeldAt(e) = server.rev
      BY <2>4, <3>1, <3>2, <3>4 DEF AsksKill, Quiet
    <3>6. server.is.tokens = Token(e)
      BY <1>0, <2>1, <3>1, <3>5 DEF HolderOK
    <3> QED
      BY <2>4, <3>4, <3>6 DEF AsksKill, Quiet
  <2> QED
    BY <2>1, <1>1, <2>2, <2>3, <2>4 DEF AskStep, AsksClaim, AsksRelease
<1>2. ASSUME NEW s \in strays'
      PROVE  Deadly(s.at, s.base)'
  <2>1. PICK at, base : at = s.at /\ base = s.base
    OBVIOUS
  <2>2. Deadly(at, base) /\ base \in Nat /\ base <= server.rev
    <3>1. CASE s \in strays
      BY <1>0, <2>1, <3>1 DEF KillsOK, IndInv, TypeOK, StraysOK, Sound
    <3>2. CASE s \notin strays
      <4>1. PICK d \in Devices : Asks(d) /\ s = [at |-> calls[d].at, base |-> calls[d].base,
                                                 is |-> calls[d].is]
        BY <1>0, <3>2, StraySteps DEF StrayFrom
      <4>2. at = calls[d].at /\ base = calls[d].base
        BY <2>1, <4>1
      <4> QED
        BY <1>0, <4>1, <4>2 DEF KillsOK, IndInv, CallOK, Call
    <3> QED
      BY <3>1, <3>2
  <2>3. Deadly(at, base)'
    BY <2>2, DeadlyKept
  <2> QED
    BY <2>1, <2>3
<1> QED
  BY <1>1, <1>2 DEF KillsOK

(* What a publication was answered stays true: the record does not return to the *)
(* token it was rotated from.                                                  *)
LEMMA OutcomeKept ==
  ASSUME GrantAssumption, IndInv, Next, NEW e \in Devices, OutcomeOK(e)
  PROVE  OutcomeOK(e)'
<1>0. TypeOK /\ Hardens /\ OutcomeStep(e) /\ CallOK(e)
  BY Hardening, OutcomeSteps DEF IndInv
<1>1. SUFFICES ASSUME calls'[e].at = "publish", calls'[e].answer \notin {"none", "network"}
               PROVE  OutcomeOK(e)'
  BY DEF OutcomeOK
<1>2. CASE IsAnswered(e)
  BY <1>0, <1>2 DEF IsAnswered, OutcomeOK, CallOK, Hardens
<1>3. CASE KeepsOutcome(e)
  <2>1. ASSUME calls[e].answer = "conflict", ~calls[e].held.fresh,
               calls[e].is.tokens # calls[e].held.spent
        PROVE  server'.is.tokens # calls[e].held.spent
    <3>1. server.is.tokens # calls[e].held.spent
      BY <1>3, <2>1 DEF KeepsOutcome, OutcomeOK
    <3>2. /\ calls[e].held.spent # 0 /\ next[calls[e].held.spent] # 0
          /\ calls[e].held.spent \in Pairs
      BY <1>0, <1>3, <2>1 DEF KeepsOutcome, CallOK, SpentOK, TypeOK, Call, Pending, Pairs
    <3>3. Shown(calls[e].held.spent)
      BY <3>2 DEF Shown
    <3>4. ASSUME NEW o, NEW at, NEW is, Commits(o, at, is)
          PROVE  server'.is.tokens # calls[e].held.spent
      BY <3>1, <3>2, <3>3, <3>4 DEF Commits, Lands, Lawful, Settles, Awaits, Empty
    <3> QED
      BY <3>1, <3>4, StepIsQuietOrCommits DEF Quiet
  <2> QED
    BY <1>0, <1>3, <2>1 DEF KeepsOutcome, OutcomeOK, Hardens
<1> QED
  BY <1>0, <1>1, <1>2, <1>3 DEF OutcomeStep

(* KeepInv is kept by every step ...                                          *)
LEMMA KeepStep ==
  ASSUME GrantAssumption, ~SignInsLost, IndInv, KeepInv, [Next]_vars
  PROVE  KeepInv'
<1>1. CASE Next
  <2>1. OneTip' /\ KillsOK'
    BY <1>1, TipStep, KillStep DEF KeepInv
  <2>2. ASSUME NEW d \in Devices PROVE OutcomeOK(d)'
    BY <1>1, OutcomeKept DEF KeepInv
  <2> QED
    BY <2>1, <2>2 DEF KeepInv
<1>2. CASE UNCHANGED vars
  BY <1>2 DEF vars, deviceVars, authVars, KeepInv, OneTip, Issued, KillsOK, Asks, Deadly,
     OutcomeOK
<1> QED
  BY <1>1, <1>2

(* ... and holds at first.                                                   *)
LEMMA KeepInit ==
  ASSUME GrantAssumption, Init
  PROVE  KeepInv
<1>1. OneTip
  BY DEF Init, OneTip, Issued
<1>2. \A d \in Devices : calls[d].at = "idle" /\ calls[d].answer = "none"
  BY DEF Init, Idle
<1> QED
  BY <1>1, <1>2 DEF Init, KeepInv, KillsOK, Asks, Awaits, OutcomeOK

(* The last pair of the record's sign-in is the record's, or what its token was   *)
(* rotated into, which no one has seen.                                        *)
LEMMA RecordsTip ==
  ASSUME IndInv, OneTip, NEW p \in Issued, next[p] = 0, server.is.tokens # 0,
         family[server.is.tokens] = family[p]
  PROVE  server.is.tokens = p \/ (next[server.is.tokens] = p /\ ~Shown(p))
<1>1. server.is.tokens \in Issued /\ server.is.tokens \in Pairs
  BY RecordIssued DEF Issued
<1>2. CASE next[server.is.tokens] = 0
  BY <1>1, <1>2 DEF OneTip
<1>3. CASE next[server.is.tokens] # 0
  <2>1. next[server.is.tokens] \in Pairs
    BY <1>1, <1>3 DEF IndInv, TypeOK, Pairs
  <2>2. /\ family[next[server.is.tokens]] = family[p]
        /\ next[server.is.tokens] \in Issued
    BY <1>1, <1>3, <2>1 DEF IndInv, IssuedInOrder, Issued
  <2>3. ~Shown(next[server.is.tokens])
    BY <1>3 DEF IndInv, Unpublished
  <2>4. next[next[server.is.tokens]] = 0
    BY <2>3 DEF Shown
  <2> QED
    BY <2>2, <2>3, <2>4 DEF OneTip
<1> QED
  BY <1>2, <1>3

(* A pair the record is about to lose.                                         *)
LEMMA RecordKeeps ==
  ASSUME GrantAssumption, IndInv, KeepInv, Next, NEW p \in Issued, server.is.tokens = p
  PROVE  server'.is.tokens = p \/ Superfluous(p)'
<1>0. /\ TypeOK /\ Hardens /\ NextKept /\ p \in Pairs /\ p # 0 /\ Shown(p)
      /\ family'[p] = family[p]
  BY Hardening, NextStep, FamilyKept DEF IndInv, Issued, Pairs, Shown
<1>1. ASSUME NEW at, NEW is, Lawful(at, is), Lands(at, is), at = "kill" => Deadly(at, server.rev)
      PROVE  server'.is.tokens = p \/ Superfluous(p)'
  <2>1. server'.is = is
    BY <1>1 DEF Lands
  <2>2. CASE at = "claim" \/ at = "release"
    BY <1>1, <2>1, <2>2 DEF Lawful, Settles
  <2>3. CASE at = "kill"
    BY <1>0, <1>1, <2>3 DEF Deadly, Hardens, Superfluous
  <2>4. CASE at = "publish"
    <3>1. /\ is.tokens \in Pairs /\ is.tokens \in Issued /\ is.tokens # 0
          /\ ~Shown(is.tokens) /\ next[is.tokens] = 0
      BY <1>1, <2>4 DEF Lawful, Issued, Shown, Pairs
    <3>2. CASE next[p] # 0
      BY <1>0, <3>2 DEF NextKept, Superfluous
    <3>3. CASE next[p] = 0
      <4>1. family[is.tokens] # family[p]
        BY <1>0, <3>1, <3>3 DEF KeepInv, OneTip
      <4>2. family'[is.tokens] = family[is.tokens]
        BY <3>1, FamilyKept
      <4> QED
        BY <1>0, <2>1, <3>1, <4>1, <4>2 DEF Superfluous
    <3> QED
      BY <3>2, <3>3
  <2> QED
    BY <1>1, <2>2, <2>3, <2>4 DEF Lawful, Awaits
<1>2. ASSUME NEW d \in Devices, OwnCommit(d)
      PROVE  server'.is.tokens = p \/ Superfluous(p)'
  <2>1. Lawful(calls[d].at, calls[d].is) /\ Lands(calls[d].at, calls[d].is)
    BY <1>2, OwnLawful DEF OwnCommit
  <2>2. Deadly(calls[d].at, server.rev)
    BY <1>2 DEF OwnCommit, KeepInv, KillsOK
  <2> QED
    BY <1>1, <2>1, <2>2
<1>3. ASSUME NEW s \in strays, StrayCommit(s)
      PROVE  server'.is.tokens = p \/ Superfluous(p)'
  <2>1. Lawful(s.at, s.is) /\ Lands(s.at, s.is)
    BY <1>3, StrayLawful DEF StrayCommit
  <2>2. Deadly(s.at, server.rev)
    BY <1>3 DEF StrayCommit, KeepInv, KillsOK
  <2> QED
    BY <1>1, <2>1, <2>2
<1> QED
  BY <1>0, <1>2, <1>3, StepKinds DEF Kinds, Quiet

(* A pair a device is about to lose, when the record is not empty.               *)
LEMMA DeviceKeeps ==
  ASSUME GrantAssumption, IndInv, KeepInv, Next, NEW p \in Issued, server.is.tokens # 0,
         NEW d \in Devices, rows[d].pending.pair = p
  PROVE  server'.is.tokens = p \/ rows'[d].pending.pair = p \/ Superfluous(p)'
<1>0. /\ TypeOK /\ Hardens /\ NextKept /\ LosesPending(d) /\ p \in Pairs /\ p # 0
      /\ family'[p] = family[p] /\ PendingOK(d) /\ OutcomeOK(d)
  BY Hardening, NextStep, FamilyKept, PendingSteps DEF IndInv, Issued, Pairs, KeepInv
<1>1. CASE rows'[d].pending = rows[d].pending \/ server'.gone \/ removing'
  BY <1>1 DEF Superfluous
<1>2. CASE SignIn(d)
  <2>1. PICK q \in Pairs :
          /\ NewPair(q)
          /\ family' = [family EXCEPT ![q] = 1 + Cardinality({family[x] : x \in Issued})]
          /\ rows' = [rows EXCEPT ![d] = [rows[d] EXCEPT !.here = TRUE, !.is = Empty,
                                                         !.pending = NewSignIn(d, q)]]
    BY <1>0, <1>2, SignInPushes
  <2>2. next' = next
    BY <1>2 DEF SignIn
  <2>3. family[p] # family'[q]
    BY <2>1, <2>2, SignsInNew DEF SignsIn
  <2>4. rows'[d].pending = NewSignIn(d, q)
    BY <1>0, <2>1 DEF TypeOK, Row
  <2> QED
    BY <1>0, <2>3, <2>4 DEF Superfluous, NewSignIn
<1>3. CASE WriteAhead(d)
  BY <1>0, <1>3 DEF WriteAhead, PendingOK
<1>4. ASSUME Published(d) \/ Discarded(d) \/ Superseded(d), ~Superfluous(p)', server.is.tokens # p
      PROVE  FALSE
  <2>1. /\ server' = server /\ next' = next /\ family' = family
        /\ calls[d].at = "publish" /\ calls[d].held.pair = p /\ calls[d].held = rows[d].pending
    BY <1>0, <1>4 DEF Published, Discarded, Superseded, Answered, PendingOK, authVars
  <2>2. /\ next[p] = 0 /\ ~server.gone /\ family[server.is.tokens] = family[p]
    BY <1>4, <2>1 DEF Superfluous
  <2>3. next[server.is.tokens] = p /\ ~Shown(p)
    BY <1>4, <2>2, RecordsTip DEF KeepInv
  <2>4. CASE Published(d)
    <3>1. Token(d) = p /\ Reads(d)
      BY <1>0, <2>1, <2>4 DEF Published, Answered, OutcomeOK, Token, Reads
    <3> QED
      BY <2>3, <3>1 DEF Shown
  <2>5. CASE Discarded(d)
    BY <1>0, <2>2, <2>5 DEF Discarded, Answered, OutcomeOK
  <2>6. CASE Superseded(d)
    <3>1. /\ calls[d].answer = "conflict" /\ ~calls[d].held.fresh
          /\ calls[d].is.tokens # calls[d].held.spent
      BY <2>6 DEF Superseded, Answered, NothingNewer
    <3>2. server.is.tokens # calls[d].held.spent
      BY <1>0, <2>1, <3>1 DEF OutcomeOK
    <3>3. calls[d].held.spent \in Pairs /\ next[calls[d].held.spent] = p
      BY <1>0, <2>1, <3>1 DEF PendingOK, SpentOK, TypeOK, Call, Pending, Pairs
    <3>4. server.is.tokens \in Pairs
      BY <1>0, RecordIssued DEF Issued
    <3> QED
      BY <1>0, <2>3, <3>2, <3>3, <3>4 DEF IndInv, IssuedInOrder
  <2> QED
    BY <1>4, <2>4, <2>5, <2>6
<1>5. CASE Published(d) \/ Discarded(d) \/ Superseded(d)
  <2>1. server' = server
    BY <1>5 DEF Published, Discarded, Superseded
  <2> QED
    BY <1>4, <1>5, <2>1
<1> QED
  BY <1>0, <1>1, <1>2, <1>3, <1>5 DEF LosesPending

-----------------------------------------------------------------------------
(* The theorems.  Each is about the runs in which no answer to the publication  *)
(* of a sign-in is lost.                                                     *)

(* IndInv holds in every reachable state.                                     *)
THEOREM Invariance ==
  ASSUME ~SignInsLost
  PROVE  Spec => []IndInv
<1>1. Init => IndInv
  BY Started, GrantAssumption
<1>2. IndInv /\ [Next]_vars => IndInv'
  BY Preserved, GrantAssumption
<1> QED
  BY <1>1, <1>2, PTL DEF Spec

(* Every variable keeps its type.                                            *)
THEOREM TypeCorrect ==
  ASSUME ~SignInsLost
  PROVE  Spec => []TypeOK
<1>1. IndInv => TypeOK
  BY DEF IndInv
<1> QED
  BY <1>1, Invariance, PTL

(* No two devices are ever both about to present one refresh token: claims may  *)
(* be lost, arrive late or outlive their lease.                               *)
THEOREM TokensPresentedOnce ==
  ASSUME ~SignInsLost
  PROVE  Spec => []OnePresenter
<1>1. ASSUME IndInv PROVE OnePresenter
  <2>1. SUFFICES ASSUME NEW d \in Devices, NEW e \in Devices, d # e,
                        MaySend(d), MaySend(e)
                 PROVE  Token(d) # Token(e)
    BY DEF OnePresenter
  <2>2. Holder(d) /\ Holder(e) /\ ~calls[d].late /\ ~calls[e].late
    BY <2>1 DEF MaySend, Holder
  <2> QED
    BY <1>1, <2>1, <2>2 DEF IndInv, Apart
<1> QED
  BY <1>1, Invariance, PTL

(* A rotated token is presented again only by the call that lost the answer, or  *)
(* once it is doubted: freed after no answer or an error answer, or taken over. *)
THEOREM RotatedNotReplayed ==
  ASSUME ~SignInsLost
  PROVE  Spec => []NoReplay
<1>1. ASSUME IndInv PROVE NoReplay
  BY <1>1 DEF IndInv, NoReplay, HolderOK, Holder, MaySend
<1> QED
  BY <1>1, Invariance, PTL

(* Within one sign-in the row never goes back to an earlier pair.               *)
THEOREM TokensMoveOnward ==
  ASSUME ~SignInsLost
  PROVE  Spec => RowMovesOnward
<1>1. ASSUME IndInv, [Next]_vars
      PROVE  Onward(server.is.tokens, server.is.tokens')
  <2>1. server.is.tokens \in Nat
    BY <1>1 DEF IndInv, TypeOK, Record, Content
  <2>2. CASE server'.is = server.is
    BY <2>1, <2>2 DEF Onward
  <2>3. ASSUME NEW o, NEW at, NEW is, Commits(o, at, is)
        PROVE  Onward(server.is.tokens, server.is.tokens')
    <3>1. server'.is = is /\ Lawful(at, is)
      BY <2>3 DEF Commits, Lands
    <3>2. CASE at = "publish"
      BY <3>1, <3>2 DEF Lawful
    <3>3. CASE at # "publish"
      BY <2>1, <3>1, <3>3 DEF Onward, Lawful, Settles, Awaits, Empty
    <3> QED
      BY <3>2, <3>3
  <2> QED
    BY <1>1, <2>2, <2>3, StepIsQuietOrCommits, GrantAssumption DEF Quiet, vars
<1> QED
  BY <1>1, Invariance, PTL DEF Spec, RowMovesOnward

(* A pair is dropped only when it is of no more use.                           *)
THEOREM PairsAreKept ==
  ASSUME ~SignInsLost
  PROVE  Spec => PairNotDropped
<1>1. Init => IndInv /\ KeepInv
  BY Started, KeepInit, GrantAssumption
<1>2. IndInv /\ KeepInv /\ [Next]_vars => IndInv' /\ KeepInv'
  BY Preserved, KeepStep, GrantAssumption
<1>3. IndInv /\ KeepInv /\ [Next]_vars =>
        [\A p \in Issued : Held(p) =>
           Held(p)' \/ Superfluous(p)' \/ server.is.tokens = 0]_vars
  <2>1. SUFFICES ASSUME IndInv, KeepInv, Next, NEW p \in Issued, Held(p), server.is.tokens # 0
                 PROVE  Held(p)' \/ Superfluous(p)'
    OBVIOUS
  <2>2. CASE server.is.tokens = p
    BY <2>1, <2>2, RecordKeeps, GrantAssumption DEF Held
  <2>3. CASE server.is.tokens # p
    <3>1. PICK d \in Devices : rows[d].pending.pair = p
      BY <2>1, <2>3 DEF Held
    <3> QED
      BY <2>1, <3>1, DeviceKeeps, GrantAssumption DEF Held
  <2> QED
    BY <2>2, <2>3
<1> QED
  BY <1>1, <1>2, <1>3, PTL DEF Spec, PairNotDropped

=============================================================================
