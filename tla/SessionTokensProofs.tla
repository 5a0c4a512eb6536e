------------------------- MODULE SessionTokensProofs -------------------------
(***************************************************************************)
(* Proofs about the sessions of an account, for every number of tabs, browsers *)
(* and handlers and any bound: with or without locks, no family ever has two    *)
(* live refresh tokens and a family that an eviction found stays dead; with     *)
(* them, a refresh is refused only for a cause.                                *)
(*                                                                         *)
(* Steps that issue nothing, claim nothing and revoke nothing of a new eviction *)
(* are dealt with at once (Quiet): what remains is the claim, the mint and the  *)
(* eviction itself. The second part, on refusals, rests on CauseInv: a step is  *)
(* Tame when it moves requests and cookies only along a rotation, and all but   *)
(* the few that bring a token into new hands are.                              *)
(***************************************************************************)
EXTENDS SessionTokens, FiniteSetTheorems, SequenceTheorems, TLAPS

(* A free slot is a request.                                                 *)
LEMMA IdleType == Idle \in Handler
BY SessionAssumption DEF Idle, Handler, Steps, Roles

(* What an answer makes of a request.                                        *)
LEMMA AnsweredFacts ==
  ASSUME NEW h \in Handler, NEW answer \in {"ok", "refused", "failed"}
  PROVE  /\ Answered(h, answer) \in Handler
         /\ Answered(h, answer).at \in {"idle", "done"}
<1>1. [h EXCEPT !.at = "done", !.answer = answer] \in Handler
  BY DEF Handler, Steps
<1>2. [h EXCEPT !.at = "done", !.answer = answer].at = "done" /\ Idle.at = "idle"
  BY DEF Handler, Idle
<1> QED BY <1>1, <1>2, IdleType DEF Answered

(* What the loss of its tab makes of a request.                              *)
LEMMA UnheardFacts ==
  ASSUME NEW h \in Handler
  PROVE  /\ Unheard(h) \in Handler
         /\ Unheard(h).at = "mint" => /\ h.at = "mint"
                                      /\ Unheard(h).signIn = h.signIn
                                      /\ Unheard(h).token = h.token
<1> DEFINE unheard == [h EXCEPT !.tab = None]
<1>1. /\ unheard \in Handler /\ unheard.at = h.at
      /\ unheard.signIn = h.signIn /\ unheard.token = h.token
  BY DEF Handler
<1>2. Idle.at # "mint"
  BY DEF Idle
<1> HIDE DEF unheard
<1> QED BY <1>1, <1>2, IdleType DEF Unheard, unheard

(* A revocation changes nothing of a token but whether it lives.             *)
LEMMA RevokedFacts ==
  ASSUME RecordsTyped, NEW gone
  PROVE  /\ Revoked(gone) \in [Tokens -> Token]
         /\ \A t \in Tokens : /\ Revoked(gone)[t].family = tokens[t].family
                              /\ Revoked(gone)[t].live <=> tokens[t].live /\ t \notin gone
<1>1. \A t \in Tokens : /\ [tokens[t] EXCEPT !.live = FALSE] \in Token
                        /\ [tokens[t] EXCEPT !.live = FALSE].family = tokens[t].family
                        /\ [tokens[t] EXCEPT !.live = FALSE].live = FALSE
  BY DEF RecordsTyped, Token
<1>2. \A t \in Tokens : tokens[t] \in Token /\ tokens[t].live \in BOOLEAN
  BY DEF RecordsTyped, Token
<1> QED BY <1>1, <1>2 DEF Revoked

(* What a tab makes of an outcome keeps its type.                             *)
LEMMA AfterAnswerType ==
  ASSUME NEW tab \in Tab, NEW answer, NEW new \in 0 .. MaxTokens
  PROVE  AfterAnswer(tab, answer, new) \in Tab
<1>1. 0 \in 0 .. MaxTokens
  BY SessionAssumption
<1> QED BY <1>1 DEF AfterAnswer, Refused, Tab, Origins

-----------------------------------------------------------------------------
(* The tokens issued so far can be counted.                                  *)
LEMMA IssuedIsFinite == IsFiniteSet(Issued) /\ Cardinality(Issued) \in Nat
<1>1. IsFiniteSet(Issued)
  <2>1. IsFiniteSet(1 .. MaxTokens)
    BY SessionAssumption, FS_Interval
  <2>2. Issued \subseteq 1 .. MaxTokens
    BY DEF Issued, Tokens
  <2> QED BY <2>1, <2>2, FS_Subset
<1> QED BY <1>1, FS_CardinalityType

(* A handler moves to a step, or to its answer.                               *)
LEMMA GoesType ==
  ASSUME handlers \in [Slots -> Handler], NEW s \in Slots, NEW step \in Steps, Goes(s, step)
  PROVE  handlers' \in [Slots -> Handler]
<1>1. [handlers[s] EXCEPT !.at = step] \in Handler
  BY DEF Handler
<1> QED BY <1>1 DEF Goes

(* An answer leaves every request of its type.                               *)
LEMMA AnswersType ==
  ASSUME handlers \in [Slots -> Handler], NEW s \in Slots,
         NEW answer \in {"ok", "refused", "failed"}, Answers(s, answer)
  PROVE  /\ handlers' \in [Slots -> Handler]
         /\ handlers' = [handlers EXCEPT ![s] = Answered(handlers[s], answer)]
BY AnsweredFacts DEF Answers

(* Requests keep their type.                                                 *)
LEMMA HandlersTyped ==
  ASSUME RecordsTyped, [Next]_vars
  PROVE  handlers' \in [Slots -> Handler]
<1> USE SessionAssumption DEF RecordsTyped
<1>1. CASE UNCHANGED handlers
  BY <1>1
<1>2. ASSUME NEW s \in Slots, Look(s) PROVE handlers' \in [Slots -> Handler]
  <2>1. \/ \E step \in {"reused", "expired", "active"} : Goes(s, step)
        \/ Answers(s, "refused")
    BY <1>2 DEF Look
  <2> QED BY <2>1, GoesType, AnswersType DEF Steps
<1>3. ASSUME NEW s \in Slots,
             RevokeReused(s) \/ RevokeExpired(s) \/ LinkSuccessor(s) \/ Fail(s)
      PROVE  handlers' \in [Slots -> Handler]
  <2>1. \E answer \in {"ok", "refused", "failed"} : Answers(s, answer)
    BY <1>3 DEF RevokeReused, RevokeExpired, LinkSuccessor, Fail
  <2> QED BY <2>1, AnswersType
<1>4. ASSUME NEW s \in Slots, CheckUser(s) \/ Admit(s)
      PROVE  handlers' \in [Slots -> Handler]
  <2>1. \A step \in {"checked", "mint"} :
          [handlers[s] EXCEPT !.at = step, !.role = account.role] \in Handler
    <3>1. handlers[s] \in Handler /\ account.role \in Roles
      OBVIOUS
    <3> HIDE DEF RecordsTyped
    <3> QED BY <3>1 DEF Handler, Steps
  <2>2. \/ Answers(s, "refused")
        \/ \E step \in {"checked", "mint"} : handlers' = [handlers EXCEPT ![s] =
             [handlers[s] EXCEPT !.at = step, !.role = account.role]]
    BY <1>4 DEF CheckUser, Admit
  <2> QED BY <2>1, <2>2, AnswersType
<1>5. ASSUME NEW s \in Slots, Claim(s) PROVE handlers' \in [Slots -> Handler]
  <2>1. Goes(s, "mint") \/ Answers(s, "refused")
    BY <1>5 DEF Claim
  <2> QED BY <2>1, GoesType, AnswersType DEF Steps
<1>6. ASSUME NEW s \in Slots, Mint(s) PROVE handlers' \in [Slots -> Handler]
  <2> DEFINE new == Cardinality(Issued) + 1
             named == [handlers[s] EXCEPT !.new = new]
             minted == [handlers[s] EXCEPT !.at = "minted", !.new = new]
  <2>1. new \in 0 .. MaxTokens
    BY <1>6, IssuedIsFinite DEF Mint
  <2>2. named \in Handler /\ minted \in Handler
    <3>1. handlers[s] \in Handler
      OBVIOUS
    <3> HIDE DEF new, RecordsTyped
    <3>2. named \in Handler
      BY <2>1, <3>1 DEF Handler
    <3>3. minted \in Handler
      BY <2>1, <3>1 DEF Handler, Steps
    <3> QED BY <3>2, <3>3
  <2>3. Answered(named, "ok") \in Handler
    BY <2>2, AnsweredFacts
  <2>4. \/ handlers' = [handlers EXCEPT ![s] = Answered(named, "ok")]
        \/ handlers' = [handlers EXCEPT ![s] = minted]
    BY <1>6 DEF Mint
  <2> HIDE DEF named, minted
  <2> QED BY <2>2, <2>3, <2>4
<1>7. CASE Deny
  <2> DEFINE fresh == [Idle EXCEPT !.at = "mint", !.signIn = TRUE,
                         !.tab = eviction.tab, !.role = eviction.role]
  <2>1. fresh \in Handler
    BY IdleType DEF Handler, Steps, Eviction
  <2>2. \/ UNCHANGED handlers
        \/ \E s \in Slots : handlers' = [handlers EXCEPT ![s] = fresh]
    BY <1>7 DEF Deny
  <2> HIDE DEF fresh
  <2> QED BY <2>1, <2>2
<1>8. ASSUME NEW t \in Tabs, NEW s \in Slots, SignIn(t, s)
      PROVE  handlers' \in [Slots -> Handler]
  <2> DEFINE fresh == [Idle EXCEPT !.at = "arrived", !.tab = t, !.signIn = TRUE]
  <2>1. fresh \in Handler
    BY IdleType DEF Handler, Steps
  <2>2. handlers' = [handlers EXCEPT ![s] = fresh]
    BY <1>8 DEF SignIn
  <2> HIDE DEF fresh
  <2> QED BY <2>1, <2>2
<1>9. ASSUME NEW t \in Tabs, NEW s \in Slots, Send(t, s)
      PROVE  handlers' \in [Slots -> Handler]
  <2> DEFINE fresh == [Idle EXCEPT !.at = "arrived", !.tab = t, !.token = cookie[Home[t]]]
  <2>1. cookie[Home[t]] \in 0 .. MaxTokens
    OBVIOUS
  <2>2. fresh \in Handler
    BY <2>1, IdleType DEF Handler, Steps
  <2>3. handlers' = [handlers EXCEPT ![s] = fresh]
    BY <1>9 DEF Send
  <2> HIDE DEF fresh
  <2> QED BY <2>2, <2>3
<1>10. ASSUME NEW t \in Tabs, NEW s \in Slots, SignedIn(t, s) \/ Receive(t, s)
       PROVE  handlers' \in [Slots -> Handler]
  BY <1>10, IdleType DEF SignedIn, Receive
<1>11. ASSUME NEW t \in Tabs, NEW s \in Slots, LoseSignIn(t, s) \/ Lose(t, s)
       PROVE  handlers' \in [Slots -> Handler]
  <2>1. handlers' = [handlers EXCEPT ![s] = Unheard(handlers[s])]
    BY <1>11 DEF LoseSignIn, Lose
  <2> QED BY <2>1, UnheardFacts
<1>12. ASSUME NEW t \in Tabs, CloseTab(t) PROVE handlers' \in [Slots -> Handler]
  BY <1>12, UnheardFacts DEF CloseTab
<1>13. CASE \/ UNCHANGED vars \/ RevokeAll \/ Unsuspend \/ Tick
            \/ \E kind \in Kinds : Begin(kind)
            \/ \E t \in Tokens : Expire(t)
            \/ \E t \in Tabs : SignOut(t) \/ \E origin \in Origins : Refresh(t, origin)
  BY <1>1, <1>13 DEF vars, RevokeAll, Unsuspend, Tick, Begin, LogOut, Recover, Expire, SignOut, Refresh
<1> QED
  BY <1>2, <1>3, <1>4, <1>5, <1>6, <1>7, <1>8, <1>9, <1>10, <1>11, <1>12, <1>13
     DEF Next, Handle


(* The row a mint inserts, and its place in the table.                        *)
Minted(s) == [family |-> IF handlers[s].signIn THEN Cardinality(Issued) + 1
                         ELSE FamilyOf(handlers[s].token),
              live |-> TRUE, stale |-> FALSE, next |-> 0,
              role |-> handlers[s].role, iat |-> clock]

(* The token minted is the next one, within the bound.                       *)
LEMMA MintFacts ==
  ASSUME RecordsTyped, NEW s \in Slots, Mint(s)
  PROVE  /\ Cardinality(Issued) + 1 \in Tokens
         /\ Minted(s) \in Token
         /\ tokens' = [tokens EXCEPT ![Cardinality(Issued) + 1] = Minted(s)]
<1> USE SessionAssumption
<1>1. Cardinality(Issued) + 1 \in Tokens
  BY IssuedIsFinite DEF Mint, Tokens
<1>2. handlers[s].token \in 0 .. MaxTokens /\ handlers[s].role \in Roles
  BY DEF RecordsTyped, Handler
<1>3. \A t \in Tokens : tokens[t].family \in 0 .. MaxTokens
  BY DEF RecordsTyped, Token
<1>4. FamilyOf(handlers[s].token) \in 0 .. MaxTokens
  BY <1>2, <1>3 DEF FamilyOf, Tokens
<1>5. Cardinality(Issued) + 1 \in 0 .. MaxTokens /\ 0 \in 0 .. MaxTokens
  BY <1>1 DEF Tokens
<1>6. clock \in 0 .. MaxClock
  BY DEF RecordsTyped
<1>7. Minted(s) \in Token
  BY <1>2, <1>4, <1>5, <1>6 DEF Minted, Token
<1>8. tokens' = [tokens EXCEPT ![Cardinality(Issued) + 1] = Minted(s)]
  BY DEF Mint, Minted
<1> QED BY <1>1, <1>7, <1>8

(* The token table keeps its type.                                           *)
LEMMA TokensTyped ==
  ASSUME RecordsTyped, [Next]_vars
  PROVE  tokens' \in [Tokens -> Token]
<1>1. CASE UNCHANGED tokens
  BY <1>1 DEF RecordsTyped
<1>2. CASE \E gone : tokens' = Revoked(gone)
  BY <1>2, RevokedFacts
<1>3. ASSUME NEW s \in Slots, Mint(s) PROVE tokens' \in [Tokens -> Token]
  BY <1>3, MintFacts DEF RecordsTyped
<1>4. ASSUME NEW s \in Slots, LinkSuccessor(s) PROVE tokens' \in [Tokens -> Token]
  <2> DEFINE old == handlers[s].token
             linked == [tokens[old] EXCEPT !.next = handlers[s].new]
  <2>1. handlers[s].new \in 0 .. MaxTokens
    BY DEF RecordsTyped, Handler
  <2>2. old \in Tokens => linked \in Token
    <3> SUFFICES ASSUME old \in Tokens PROVE linked \in Token
      OBVIOUS
    <3>1. tokens[old] \in Token
      BY DEF RecordsTyped
    <3> HIDE DEF old
    <3> QED BY <2>1, <3>1 DEF Token
  <2>3. tokens' = [tokens EXCEPT ![old] = linked]
    BY <1>4 DEF LinkSuccessor
  <2> HIDE DEF old, linked
  <2> QED BY <2>2, <2>3 DEF RecordsTyped
<1>5. ASSUME NEW t \in Tokens, Expire(t) PROVE tokens' \in [Tokens -> Token]
  <2>1. [tokens[t] EXCEPT !.stale = TRUE] \in Token
    BY DEF RecordsTyped, Token
  <2> QED BY <1>5, <2>1 DEF Expire, RecordsTyped
<1>6. ASSUME NEW s \in Slots, Claim(s) \/ RevokeReused(s) \/ RevokeExpired(s)
      PROVE  tokens' \in [Tokens -> Token]
  BY <1>1, <1>2, <1>6 DEF Claim, RevokeReused, RevokeExpired
<1>7. CASE RevokeAll
  BY <1>2, <1>7 DEF RevokeAll
<1>8. CASE \/ UNCHANGED vars \/ Deny \/ Unsuspend \/ Tick
           \/ \E kind \in Kinds : Begin(kind)
           \/ \E s \in Slots : Look(s) \/ CheckUser(s) \/ Admit(s) \/ Fail(s)
  BY <1>1, <1>8 DEF vars, serverVars, Deny, Unsuspend, Tick, Begin, LogOut, Recover, Look, CheckUser, Admit, Fail
<1>9. CASE \/ \E t \in Tabs : \/ SignOut(t) \/ CloseTab(t)
                              \/ \E origin \in Origins : Refresh(t, origin)
           \/ \E t \in Tabs, s \in Slots : \/ SignIn(t, s) \/ SignedIn(t, s)
                \/ LoseSignIn(t, s) \/ Send(t, s) \/ Receive(t, s) \/ Lose(t, s)
  <2>1. ASSUME NEW t \in Tabs,
               SignOut(t) \/ CloseTab(t) \/ \E origin \in Origins : Refresh(t, origin)
        PROVE  UNCHANGED tokens
    BY <2>1 DEF serverVars, SignOut, CloseTab, Refresh
  <2>2. ASSUME NEW t \in Tabs, NEW s \in Slots, SignIn(t, s) \/ SignedIn(t, s) \/ LoseSignIn(t, s)
        PROVE  UNCHANGED tokens
    BY <2>2 DEF serverVars, SignIn, SignedIn, LoseSignIn
  <2>3. ASSUME NEW t \in Tabs, NEW s \in Slots, Send(t, s) \/ Receive(t, s) \/ Lose(t, s)
        PROVE  UNCHANGED tokens
    BY <2>3 DEF serverVars, Send, Receive, Lose
  <2> QED BY <1>1, <1>9, <2>1, <2>2, <2>3
<1> QED
  BY <1>3, <1>4, <1>5, <1>6, <1>7, <1>8, <1>9 DEF Next, Handle

(* Only an eviction, its start, and the two ends of a suspension move these.   *)
LEMMA EvictionTyped ==
  ASSUME RecordsTyped, [Next]_vars
  PROVE  /\ account' \in [role : Roles, suspended : BOOLEAN]
         /\ eviction' \in Eviction
         /\ cutoff' \in 0 .. MaxClock /\ clock' \in 0 .. MaxClock
<1> USE SessionAssumption
<1> DEFINE Same == UNCHANGED <<account, eviction, cutoff, clock>>
           Typed == /\ account' \in [role : Roles, suspended : BOOLEAN]
                    /\ eviction' \in Eviction
                    /\ cutoff' \in 0 .. MaxClock /\ clock' \in 0 .. MaxClock
<1>1. CASE Same
  BY <1>1 DEF RecordsTyped
<1>2. NoEviction \in Eviction
  BY DEF NoEviction, Eviction, Kinds, Roles
<1>3. ASSUME NEW kind \in Kinds, Begin(kind) PROVE Typed
  <2>1. account' \in [role : Roles, suspended : BOOLEAN]
    BY <1>3 DEF Begin, LogOut, Recover, RecordsTyped, Roles
  <2>2. \A t \in Tabs : tabs[t].access \in 0 .. MaxTokens
    BY DEF RecordsTyped, Tab
  <2>3. eviction' \in Eviction
    <3> DEFINE byAdmin == [NoEviction EXCEPT !.at = "revoke", !.kind = kind]
               byUser(t) == [NoEviction EXCEPT !.at = "revoke", !.kind = kind, !.tab = t,
                                               !.access = tabs[t].access]
               byRecovery(t) == [NoEviction EXCEPT !.at = "revoke", !.kind = kind, !.tab = t,
                                               !.role = account.role, !.second = clock]
    <3>1. byAdmin \in Eviction
      BY <1>2 DEF Eviction
    <3>2. \A t \in Tabs : byUser(t) \in Eviction
      BY <1>2, <2>2 DEF Eviction
    <3>3. \A t \in Tabs : byRecovery(t) \in Eviction
      BY <1>2 DEF Eviction, RecordsTyped
    <3>4. \/ eviction' = byAdmin
          \/ \E t \in Tabs : eviction' = byUser(t) \/ eviction' = byRecovery(t)
      BY <1>3 DEF Begin, LogOut, Recover
    <3> HIDE DEF byAdmin, byUser, byRecovery
    <3> QED BY <3>1, <3>2, <3>3, <3>4
  <2>4. UNCHANGED <<cutoff, clock>>
    BY <1>3 DEF Begin, LogOut, Recover
  <2> QED BY <2>1, <2>3, <2>4 DEF RecordsTyped
<1>4. CASE RevokeAll
  <2>1. [eviction EXCEPT !.at = "deny"] \in Eviction
    BY DEF RecordsTyped, Eviction
  <2> QED BY <1>4, <2>1 DEF RevokeAll, RecordsTyped
<1>5. CASE Deny
  <2>1. cutoff' \in 0 .. MaxClock
    BY <1>5 DEF Deny, RecordsTyped, Eviction
  <2> QED BY <1>2, <1>5, <2>1 DEF Deny, RecordsTyped
<1>6. CASE Unsuspend \/ Tick
  <2>1. CASE Unsuspend
    <3>1. [account EXCEPT !.suspended = FALSE] \in [role : Roles, suspended : BOOLEAN]
      BY DEF RecordsTyped
    <3> QED BY <2>1, <3>1 DEF Unsuspend, RecordsTyped
  <2>2. CASE Tick
    <3>1. clock' \in 0 .. MaxClock
      BY <2>2 DEF Tick, RecordsTyped
    <3> QED BY <2>2, <3>1 DEF Tick, serverVars, RecordsTyped
  <2> QED BY <1>6, <2>1, <2>2
<1>7. CASE \/ UNCHANGED vars
           \/ \E s \in Slots : Handle(s) \/ Fail(s)
           \/ \E t \in Tokens : Expire(t)
  <2>1. ASSUME NEW s \in Slots, Handle(s) PROVE Same
    BY <2>1 DEF serverVars, Handle, Look, RevokeReused, RevokeExpired, CheckUser, Claim,
                Admit, Mint, LinkSuccessor
  <2>2. ASSUME NEW s \in Slots, Fail(s) PROVE Same
    BY <2>2 DEF Fail, serverVars
  <2>3. ASSUME NEW t \in Tokens, Expire(t) PROVE Same
    BY <2>3 DEF Expire
  <2>4. ASSUME UNCHANGED vars PROVE Same
    BY <2>4 DEF vars, serverVars
  <2>5. Same
    <3> HIDE DEF Same
    <3> QED BY <1>7, <2>1, <2>2, <2>3, <2>4
  <2> QED BY <1>1, <2>5
<1>8. CASE \/ \E t \in Tabs : \/ SignOut(t) \/ CloseTab(t)
                              \/ \E origin \in Origins : Refresh(t, origin)
           \/ \E t \in Tabs, s \in Slots : \/ SignIn(t, s) \/ SignedIn(t, s)
                \/ LoseSignIn(t, s) \/ Send(t, s) \/ Receive(t, s) \/ Lose(t, s)
  <2>1. ASSUME NEW t \in Tabs,
               SignOut(t) \/ CloseTab(t) \/ \E origin \in Origins : Refresh(t, origin)
        PROVE  Same
    BY <2>1 DEF serverVars, SignOut, CloseTab, Refresh
  <2>2. ASSUME NEW t \in Tabs, NEW s \in Slots, SignIn(t, s) \/ SignedIn(t, s) \/ LoseSignIn(t, s)
        PROVE  Same
    BY <2>2 DEF serverVars, SignIn, SignedIn, LoseSignIn
  <2>3. ASSUME NEW t \in Tabs, NEW s \in Slots, Send(t, s) \/ Receive(t, s) \/ Lose(t, s)
        PROVE  Same
    BY <2>3 DEF serverVars, Send, Receive, Lose
  <2>4. Same
    <3> HIDE DEF Same
    <3> QED BY <1>8, <2>1, <2>2, <2>3
  <2> QED BY <1>1, <2>4
<1> QED
  BY <1>3, <1>4, <1>5, <1>6, <1>7, <1>8 DEF Next

(* A browser's cookie is a token the service sent, or none.                   *)
LEMMA CookieTyped ==
  ASSUME RecordsTyped, [Next]_vars
  PROVE  cookie' \in [Browsers -> 0 .. MaxTokens]
<1>0. 0 \in 0 .. MaxTokens
  BY SessionAssumption
<1>1. CASE UNCHANGED cookie
  BY <1>1 DEF RecordsTyped
<1>2. \A s \in Slots : handlers[s].new \in 0 .. MaxTokens
  BY DEF RecordsTyped, Handler
<1>3. CASE Deny
  BY <1>0, <1>3 DEF Deny, RecordsTyped
<1>4. CASE \E t \in Tabs, s \in Slots : SignedIn(t, s) \/ Receive(t, s)
  BY <1>2, <1>4 DEF SignedIn, Receive, RecordsTyped
<1>5. CASE \/ UNCHANGED vars \/ RevokeAll \/ Unsuspend \/ Tick
           \/ \E kind \in Kinds : Begin(kind)
           \/ \E s \in Slots : Handle(s) \/ Fail(s)
           \/ \E t \in Tokens : Expire(t)
  <2>1. UNCHANGED cookie
    BY <1>5 DEF vars, clientVars, RevokeAll, Unsuspend, Tick, Begin, LogOut, Recover, Handle, Fail, Expire,
                Look, RevokeReused, RevokeExpired, CheckUser, Claim, Admit, Mint, LinkSuccessor
  <2> QED BY <1>1, <2>1
<1>6. CASE \/ \E t \in Tabs : \/ SignOut(t) \/ CloseTab(t)
                              \/ \E origin \in Origins : Refresh(t, origin)
           \/ \E t \in Tabs, s \in Slots : \/ SignIn(t, s) \/ LoseSignIn(t, s)
                                           \/ Send(t, s) \/ Lose(t, s)
  <2>1. UNCHANGED cookie
    BY <1>6 DEF clientVars, SignOut, CloseTab, Refresh, SignIn, LoseSignIn, Send, Lose
  <2> QED BY <1>1, <2>1
<1> QED
  BY <1>3, <1>4, <1>5, <1>6 DEF Next

(* Tabs keep their type.                                                     *)
LEMMA TabsTyped ==
  ASSUME RecordsTyped, [Next]_vars
  PROVE  tabs' \in [Tabs -> Tab]
<1>0. 0 \in 0 .. MaxTokens
  BY SessionAssumption
<1>1. CASE UNCHANGED tabs
  BY <1>1 DEF RecordsTyped
<1>2. ASSUME NEW t \in Tabs, NEW access \in 0 .. MaxTokens, Unlocked(t, access)
      PROVE  tabs' \in [Tabs -> Tab]
  <2>1. [tabs[t] EXCEPT !.open = TRUE, !.degraded = FALSE, !.access = access] \in Tab
    BY DEF RecordsTyped, Tab
  <2> QED BY <1>2, <2>1 DEF Unlocked, RecordsTyped
<1>3. \A s \in Slots : handlers[s].new \in 0 .. MaxTokens
  BY DEF RecordsTyped, Handler
<1>4. ASSUME NEW t \in Tabs, NEW s \in Slots, SignedIn(t, s) \/ LoseSignIn(t, s)
      PROVE  tabs' \in [Tabs -> Tab]
  BY <1>0, <1>2, <1>3, <1>4 DEF SignedIn, LoseSignIn
<1>5. ASSUME NEW t \in Tabs, SignOut(t) PROVE tabs' \in [Tabs -> Tab]
  <2>1. [tabs[t] EXCEPT !.open = FALSE, !.access = 0] \in Tab
    BY <1>0 DEF RecordsTyped, Tab
  <2> QED BY <1>5, <2>1 DEF SignOut, RecordsTyped
<1>6. ASSUME NEW t \in Tabs, NEW origin \in Origins, Refresh(t, origin)
      PROVE  tabs' \in [Tabs -> Tab]
  <2> DEFINE joined == [tabs[t] EXCEPT !.askers = tabs[t].askers \cup {origin}]
             asks == [tabs[t] EXCEPT !.askers = {origin}, !.flight = "queued"]
  <2>1. tabs[t] \in Tab /\ tabs[t].askers \subseteq Origins
    BY DEF RecordsTyped, Tab
  <2>2. joined \in Tab /\ asks \in Tab
    BY <2>1 DEF Tab
  <2>3. tabs' = [tabs EXCEPT ![t] = joined] \/ tabs' = [tabs EXCEPT ![t] = asks]
    BY <1>6 DEF Refresh
  <2> HIDE DEF joined, asks
  <2> QED BY <2>2, <2>3 DEF RecordsTyped
<1>7. ASSUME NEW t \in Tabs, NEW s \in Slots, Send(t, s) PROVE tabs' \in [Tabs -> Tab]
  <2>1. [tabs[t] EXCEPT !.flight = "sent"] \in Tab
    BY DEF RecordsTyped, Tab
  <2> QED BY <1>7, <2>1 DEF Send, RecordsTyped
<1>8. ASSUME NEW t \in Tabs, NEW s \in Slots, Receive(t, s) \/ Lose(t, s)
      PROVE  tabs' \in [Tabs -> Tab]
  <2>1. tabs[t] \in Tab
    BY DEF RecordsTyped
  <2>2. \E answer : \E new \in 0 .. MaxTokens :
          tabs' = [tabs EXCEPT ![t] = AfterAnswer(tabs[t], answer, new)]
    BY <1>0, <1>3, <1>8 DEF Receive, Lose
  <2> QED BY <2>1, <2>2, AfterAnswerType DEF RecordsTyped
<1>9. ASSUME NEW t \in Tabs, CloseTab(t) PROVE tabs' \in [Tabs -> Tab]
  <2> DEFINE closed == [ClosedTab EXCEPT !.degraded = tabs[t].degraded]
  <2>1. closed \in Tab
    BY <1>0 DEF ClosedTab, RecordsTyped, Tab, Origins
  <2>2. tabs' = [tabs EXCEPT ![t] = closed]
    BY <1>9 DEF CloseTab
  <2> HIDE DEF closed
  <2> QED BY <2>1, <2>2 DEF RecordsTyped
<1>10. CASE \/ UNCHANGED vars \/ RevokeAll \/ Deny \/ Unsuspend \/ Tick
            \/ \E kind \in Kinds : Begin(kind)
            \/ \E s \in Slots : Handle(s) \/ Fail(s)
            \/ \E t \in Tokens : Expire(t)
            \/ \E t \in Tabs, s \in Slots : SignIn(t, s)
  <2>1. UNCHANGED tabs
    BY <1>10 DEF vars, clientVars, RevokeAll, Deny, Unsuspend, Tick, Begin, LogOut, Recover, Handle, Fail, Expire,
                 SignIn, Look, RevokeReused, RevokeExpired, CheckUser, Claim, Admit, Mint,
                 LinkSuccessor
  <2> QED BY <1>1, <2>1
<1> QED
  BY <1>4, <1>5, <1>6, <1>7, <1>8, <1>9, <1>10 DEF Next

(* Who gives up a place leaves the others theirs, and the first its turn.       *)
LEMMA WithoutFacts ==
  ASSUME NEW queue \in Seq(Tabs), NEW t \in Tabs
  PROVE  /\ Without(queue, t) \in Seq(Tabs)
         /\ \A u \in Tabs \ {t} : (\E i \in DOMAIN queue : queue[i] = u) =>
              /\ \E i \in DOMAIN Without(queue, t) : Without(queue, t)[i] = u
              /\ Head(queue) = u => Head(Without(queue, t)) = u
<1> DEFINE rest == Without(queue, t)
<1>1. CASE \A i \in DOMAIN queue : queue[i] # t
  BY <1>1 DEF Without
<1>2. CASE ~\A i \in DOMAIN queue : queue[i] # t
  <2> DEFINE place == CHOOSE i \in DOMAIN queue : queue[i] = t
             n == Len(queue) - 1
  <2>1. place \in DOMAIN queue /\ queue[place] = t
    BY <1>2
  <2>2. /\ n \in Nat /\ place \in 1 .. n + 1 /\ DOMAIN queue = 1 .. n + 1
        /\ \A i \in 1 .. n + 1 : queue[i] \in Tabs
    BY <2>1, LenProperties
  <2>3. rest = [i \in 1 .. n |-> queue[IF i < place THEN i ELSE i + 1]]
    BY <1>2 DEF Without
  <2> HIDE DEF place, n, rest
  <2>4. \A i \in 1 .. n : (IF i < place THEN i ELSE i + 1) \in 1 .. n + 1
    BY <2>2
  <2>5. rest \in [1 .. n -> Tabs]
    BY <2>2, <2>3, <2>4
  <2>6. rest \in Seq(Tabs) /\ DOMAIN rest = 1 .. n
    BY <2>2, <2>5, SeqDef
  <2>7. ASSUME NEW u \in Tabs \ {t}, NEW i \in DOMAIN queue, queue[i] = u
        PROVE  \E j \in DOMAIN rest : rest[j] = u
    <3>1. i # place
      BY <2>1, <2>7
    <3>2. CASE i < place
      <4>1. i \in 1 .. n
        BY <2>2, <3>2
      <4>2. rest[i] = u
        BY <2>3, <2>7, <3>2, <4>1
      <4> QED BY <2>6, <4>1, <4>2
    <3>3. CASE i > place
      <4>1. i - 1 \in 1 .. n /\ ~(i - 1 < place) /\ (i - 1) + 1 = i
        BY <2>2, <3>3
      <4>2. rest[i - 1] = u
        BY <2>3, <2>7, <4>1
      <4> QED BY <2>6, <4>1, <4>2
    <3> QED BY <2>2, <3>1, <3>2, <3>3
  <2>8. ASSUME NEW u \in Tabs \ {t}, Head(queue) = u PROVE Head(rest) = u
    <3>1. queue # <<>> /\ Head(queue) = queue[1]
      BY <2>2
    <3>2. place # 1
      BY <2>1, <2>8, <3>1
    <3>3. 1 \in 1 .. n /\ 1 < place
      BY <2>2, <3>2
    <3>4. rest[1] = u
      BY <2>3, <2>8, <3>1, <3>3
    <3>5. Head(rest) = rest[1]
      BY <2>6, <3>3
    <3> QED BY <3>4, <3>5
  <2> QED BY <2>6, <2>7, <2>8 DEF rest
<1> QED BY <1>1, <1>2

(* The queues hold tabs.                                                     *)
LEMMA TurnsTyped ==
  ASSUME RecordsTyped, [Next]_vars
  PROVE  turns' \in [Browsers -> Seq(Tabs)]
<1>0. \A t \in Tabs : Home[t] \in Browsers
  BY SessionAssumption
<1>1. CASE UNCHANGED turns
  BY <1>1 DEF RecordsTyped
<1>2. ASSUME NEW t \in Tabs, NEW queue \in Seq(Tabs), turns' = [turns EXCEPT ![Home[t]] = queue]
      PROVE  turns' \in [Browsers -> Seq(Tabs)]
  BY <1>0, <1>2 DEF RecordsTyped
<1>3. ASSUME NEW t \in Tabs,
             \/ CloseTab(t) \/ \E origin \in Origins : Refresh(t, origin)
             \/ \E s \in Slots : Receive(t, s) \/ Lose(t, s)
      PROVE  turns' \in [Browsers -> Seq(Tabs)]
  <2>1. turns[Home[t]] \in Seq(Tabs)
    BY <1>0 DEF RecordsTyped
  <2>2. /\ Append(turns[Home[t]], t) \in Seq(Tabs)
        /\ Without(turns[Home[t]], t) \in Seq(Tabs)
    BY <2>1, AppendProperties, WithoutFacts
  <2>3. \/ UNCHANGED turns
        \/ turns' = [turns EXCEPT ![Home[t]] = Append(turns[Home[t]], t)]
        \/ turns' = [turns EXCEPT ![Home[t]] = Without(turns[Home[t]], t)]
    BY <1>3 DEF CloseTab, Receive, Lose, Refresh
  <2> QED BY <1>1, <1>2, <2>2, <2>3
<1>4. CASE \/ UNCHANGED vars \/ RevokeAll \/ Deny \/ Unsuspend \/ Tick
           \/ \E kind \in Kinds : Begin(kind)
           \/ \E s \in Slots : Handle(s) \/ Fail(s)
           \/ \E t \in Tokens : Expire(t)
  <2>1. UNCHANGED turns
    BY <1>4 DEF vars, clientVars, RevokeAll, Deny, Unsuspend, Tick, Begin, LogOut, Recover, Handle, Fail, Expire,
                Look, RevokeReused, RevokeExpired, CheckUser, Claim, Admit, Mint, LinkSuccessor
  <2> QED BY <1>1, <2>1
<1>5. CASE \E t \in Tabs : \/ SignOut(t)
                           \/ \E s \in Slots : \/ SignIn(t, s) \/ SignedIn(t, s)
                                               \/ LoseSignIn(t, s) \/ Send(t, s)
  <2>1. UNCHANGED turns
    BY <1>5 DEF clientVars, SignOut, SignIn, SignedIn, LoseSignIn, Send
  <2> QED BY <1>1, <2>1
<1> QED
  BY <1>3, <1>4, <1>5 DEF Next

(* The bounds on upsets and evictions are kept.                               *)
LEMMA CountsTyped ==
  ASSUME RecordsTyped, [Next]_vars
  PROVE  upsets' \in 0 .. MaxUpsets /\ evictions' \in 0 .. MaxEvictions
<1> DEFINE Upset == upsets < MaxUpsets /\ upsets' = upsets + 1 /\ UNCHANGED evictions
           Calm == UNCHANGED <<upsets, evictions>>
<1>1. ASSUME NEW kind \in Kinds, Begin(kind)
      PROVE  evictions < MaxEvictions /\ evictions' = evictions + 1 /\ UNCHANGED upsets
  BY <1>1 DEF Begin, LogOut, Recover
<1>2. ASSUME NEW s \in Slots, Fail(s) PROVE Upset
  BY <1>2 DEF Fail
<1>3. ASSUME NEW t \in Tokens, Expire(t) PROVE Upset
  BY <1>3 DEF Expire
<1>4. ASSUME NEW t \in Tabs,
             SignOut(t) \/ CloseTab(t) \/ \E s \in Slots : LoseSignIn(t, s) \/ Lose(t, s)
      PROVE  Upset
  BY <1>4 DEF SignOut, CloseTab, LoseSignIn, Lose
<1>5. ASSUME NEW s \in Slots, Handle(s) PROVE Calm
  BY <1>5 DEF Handle, Look, RevokeReused, RevokeExpired, CheckUser, Claim, Admit, Mint,
              LinkSuccessor
<1>6. ASSUME UNCHANGED vars \/ RevokeAll \/ Deny \/ Unsuspend \/ Tick PROVE Calm
  BY <1>6 DEF vars, RevokeAll, Deny, Unsuspend, Tick
<1>7. ASSUME NEW t \in Tabs,
             \/ \E origin \in Origins : Refresh(t, origin)
             \/ \E s \in Slots : SignIn(t, s) \/ SignedIn(t, s) \/ Send(t, s) \/ Receive(t, s)
      PROVE  Calm
  BY <1>7 DEF Refresh, SignIn, SignedIn, Send, Receive
<1>8. \/ Upset \/ Calm \/ \E kind \in Kinds : Begin(kind)
  <2> HIDE DEF Upset, Calm
  <2> QED BY <1>2, <1>3, <1>4, <1>5, <1>6, <1>7 DEF Next
<1> QED BY <1>1, <1>8, SessionAssumption DEF RecordsTyped

(* The tables are typed at the start.                                        *)
LEMMA InitTyped ==
  ASSUME Init
  PROVE  RecordsTyped
<1>1. 0 \in 0 .. MaxTokens /\ 0 \in 0 .. MaxClock
  BY SessionAssumption
<1>2. NoToken \in Token /\ NoEviction \in Eviction /\ ClosedTab \in Tab
  BY <1>1 DEF NoToken, Token, NoEviction, Eviction, ClosedTab, Tab, Roles, Kinds, Origins
<1>3. account \in [role : Roles, suspended : BOOLEAN]
  BY DEF Init, Roles
<1>4. 0 \in 0 .. MaxUpsets /\ 0 \in 0 .. MaxEvictions /\ <<>> \in Seq(Tabs)
  BY SessionAssumption, EmptySeq
<1> QED BY <1>1, <1>2, <1>3, <1>4, IdleType DEF Init, RecordsTyped

(* Every step keeps the types.                                               *)
LEMMA TypeStep ==
  ASSUME RecordsTyped, [Next]_vars
  PROVE  RecordsTyped'
BY HandlersTyped, TokensTyped, EvictionTyped, CookieTyped, TabsTyped, TurnsTyped, CountsTyped
   DEF RecordsTyped

(* Every table, request and tab keeps its type: no successor is linked that was *)
(* not issued within the bound, and no handler answers from a step it is not at. *)
THEOREM TypeCorrect == Spec => []RecordsTyped
BY InitTyped, TypeStep, PTL DEF Spec

-----------------------------------------------------------------------------
(* A step that issues no token, starts no rotation and lets no eviction look:   *)
(* tokens may only die, and handlers may only leave the mint.                   *)
KeepsFamilies ==
  \A t \in Tokens : /\ tokens'[t].family = tokens[t].family
                    /\ tokens'[t].live => tokens[t].live
KeepsRotations ==
  \A s \in Slots : Rotating(s)' => Rotating(s) /\ handlers'[s].token = handlers[s].token
Quiet == KeepsFamilies /\ KeepsRotations /\ UNCHANGED <<shut, slipped>>

(* What a claim that finds its token live does.                                *)
Claims(s) ==
  /\ handlers[s].token \in Issued /\ tokens[handlers[s].token].live
  /\ tokens' = Revoked({handlers[s].token})
  /\ handlers' = [handlers EXCEPT ![s].at = "mint"]
  /\ UNCHANGED <<shut, slipped>>

(* A step that leaves the tokens alone keeps the families.                   *)
LEMMA SameTokens ==
  ASSUME UNCHANGED tokens
  PROVE  KeepsFamilies
BY DEF KeepsFamilies

(* A step that leaves the requests alone starts no rotation.                 *)
LEMMA SameHandlers ==
  ASSUME UNCHANGED handlers
  PROVE  KeepsRotations
BY DEF KeepsRotations, Rotating

(* A handler that moves anywhere but to the mint starts no rotation.            *)
LEMMA OneHandler ==
  ASSUME RecordsTyped, NEW s \in Slots, NEW h,
         handlers' = [handlers EXCEPT ![s] = h], h.at # "mint" \/ h.signIn
  PROVE  KeepsRotations
BY DEF KeepsRotations, Rotating, RecordsTyped

(* An answer starts no rotation.                                             *)
LEMMA AnswersRotations ==
  ASSUME RecordsTyped, NEW s \in Slots,
         NEW answer \in {"ok", "refused", "failed"}, Answers(s, answer)
  PROVE  KeepsRotations
<1>1. handlers[s] \in Handler
  BY DEF RecordsTyped
<1>2. Answered(handlers[s], answer).at # "mint"
  BY <1>1, AnsweredFacts
<1> QED BY <1>2, AnswersType, OneHandler DEF RecordsTyped

(* A step is quiet, or it is a claim, a mint or a revocation of everything.  *)
LEMMA StepKinds ==
  ASSUME RecordsTyped, [Next]_vars
  PROVE  \/ Quiet \/ RevokeAll
         \/ \E s \in Slots : Claims(s) \/ Mint(s)
<1>1. \A gone : tokens' = Revoked(gone) => KeepsFamilies
  BY RevokedFacts DEF KeepsFamilies
<1>2. \A s \in Slots : handlers[s] \in Handler
  BY DEF RecordsTyped
<1>3. ASSUME NEW s \in Slots, Look(s) PROVE Quiet
  <2>1. \A step \in {"reused", "expired", "active"} : Goes(s, step) => KeepsRotations
    <3> SUFFICES ASSUME NEW step \in {"reused", "expired", "active"}, Goes(s, step)
                 PROVE  KeepsRotations
      OBVIOUS
    <3>1. [handlers[s] EXCEPT !.at = step].at # "mint"
      BY <1>2 DEF Handler
    <3> QED BY <3>1, OneHandler DEF Goes
  <2>2. \/ \E step \in {"reused", "expired", "active"} : Goes(s, step)
        \/ Answers(s, "refused")
    BY <1>3 DEF Look
  <2>3. KeepsRotations
    BY <2>1, <2>2, AnswersRotations
  <2> QED BY <1>3, <2>3, SameTokens DEF Look, serverVars, historyVars, Quiet
<1>4. ASSUME NEW s \in Slots, RevokeReused(s) \/ RevokeExpired(s) PROVE Quiet
  BY <1>1, <1>4, AnswersRotations DEF RevokeReused, RevokeExpired, historyVars, Quiet
<1>5. ASSUME NEW s \in Slots, Fail(s) PROVE Quiet
  BY <1>5, SameTokens, AnswersRotations DEF Fail, serverVars, Quiet
<1>6. ASSUME NEW s \in Slots, CheckUser(s) PROVE Quiet
  <2>1. KeepsRotations
    <3>1. [handlers[s] EXCEPT !.at = "checked", !.role = account.role].at # "mint"
      BY <1>2 DEF Handler
    <3>2. \/ Answers(s, "refused")
          \/ handlers' = [handlers EXCEPT ![s] =
               [handlers[s] EXCEPT !.at = "checked", !.role = account.role]]
      BY <1>6 DEF CheckUser
    <3> QED BY <3>1, <3>2, OneHandler, AnswersRotations
  <2> QED BY <1>6, <2>1, SameTokens DEF CheckUser, serverVars, Quiet
<1>7. ASSUME NEW s \in Slots, Admit(s) PROVE Quiet
  <2>1. KeepsRotations
    <3>1. [handlers[s] EXCEPT !.at = "mint", !.role = account.role].signIn
      BY <1>2, <1>7 DEF Handler, Admit
    <3>2. \/ Answers(s, "refused")
          \/ handlers' = [handlers EXCEPT ![s] =
               [handlers[s] EXCEPT !.at = "mint", !.role = account.role]]
      BY <1>7 DEF Admit
    <3> QED BY <3>1, <3>2, OneHandler, AnswersRotations
  <2> QED BY <1>7, <2>1, SameTokens DEF Admit, serverVars, historyVars, Quiet
<1>8. ASSUME NEW s \in Slots, Claim(s) PROVE Quiet \/ Claims(s)
  <2>1. CASE Claimable(handlers[s].token)
    BY <1>8, <2>1 DEF Claim, Claimable, Claims, Goes, historyVars
  <2>2. CASE ~Claimable(handlers[s].token)
    BY <1>8, <2>2, SameTokens, AnswersRotations DEF Claim, historyVars, Quiet
  <2> QED BY <2>1, <2>2
<1>9. ASSUME NEW s \in Slots, LinkSuccessor(s) PROVE Quiet
  <2> DEFINE old == handlers[s].token
             linked == [tokens[old] EXCEPT !.next = handlers[s].new]
  <2>1. old \in Tokens => linked.family = tokens[old].family /\ linked.live = tokens[old].live
    BY DEF RecordsTyped, Token
  <2>2. tokens' = [tokens EXCEPT ![old] = linked]
    BY <1>9 DEF LinkSuccessor
  <2>3. KeepsFamilies
    <3> HIDE DEF old, linked
    <3> QED BY <2>1, <2>2 DEF KeepsFamilies, RecordsTyped
  <2> QED BY <1>9, <2>3, AnswersRotations DEF LinkSuccessor, historyVars, Quiet
<1>10. ASSUME NEW t \in Tokens, Expire(t) PROVE Quiet
  <2>1. /\ [tokens[t] EXCEPT !.stale = TRUE].family = tokens[t].family
        /\ [tokens[t] EXCEPT !.stale = TRUE].live = tokens[t].live
    BY DEF RecordsTyped, Token
  <2>2. KeepsFamilies
    BY <1>10, <2>1 DEF Expire, KeepsFamilies, RecordsTyped
  <2> QED BY <1>10, <2>2, SameHandlers DEF Expire, Quiet
<1>11. CASE Deny
  <2> DEFINE fresh == [Idle EXCEPT !.at = "mint", !.signIn = TRUE,
                         !.tab = eviction.tab, !.role = eviction.role]
  <2>1. fresh.signIn
    BY DEF Idle
  <2>2. \/ UNCHANGED handlers
        \/ \E s \in Slots : handlers' = [handlers EXCEPT ![s] = fresh]
    BY <1>11 DEF Deny
  <2>3. KeepsRotations
    <3> HIDE DEF fresh
    <3> QED BY <2>1, <2>2, SameHandlers, OneHandler
  <2> QED BY <1>11, <2>3, SameTokens DEF Deny, historyVars, Quiet
<1>12. ASSUME NEW t \in Tabs, NEW s \in Slots, SignIn(t, s) \/ Send(t, s) PROVE Quiet
  <2> DEFINE arrived(h) == /\ handlers' = [handlers EXCEPT ![s] = h]
                           /\ h.at # "mint"
  <2>1. \E h : arrived(h)
    <3>1. CASE SignIn(t, s)
      <4>1. arrived([Idle EXCEPT !.at = "arrived", !.tab = t, !.signIn = TRUE])
        BY <3>1 DEF SignIn, Idle
      <4> QED BY <4>1
    <3>2. CASE Send(t, s)
      <4>1. arrived([Idle EXCEPT !.at = "arrived", !.tab = t, !.token = cookie[Home[t]]])
        BY <3>2 DEF Send, Idle
      <4> QED BY <4>1
    <3> QED BY <1>12, <3>1, <3>2
  <2>2. KeepsRotations
    BY <2>1, OneHandler
  <2> QED BY <1>12, <2>2, SameTokens DEF SignIn, Send, serverVars, historyVars, Quiet
<1>13. ASSUME NEW t \in Tabs, NEW s \in Slots, SignedIn(t, s) \/ Receive(t, s) PROVE Quiet
  <2>1. handlers' = [handlers EXCEPT ![s] = Idle] /\ Idle.at # "mint"
    BY <1>13 DEF SignedIn, Receive, Idle
  <2>2. KeepsRotations
    BY <2>1, OneHandler
  <2> QED BY <1>13, <2>2, SameTokens DEF SignedIn, Receive, serverVars, historyVars, Quiet
<1>14. ASSUME NEW t \in Tabs,
              CloseTab(t) \/ \E s \in Slots : LoseSignIn(t, s) \/ Lose(t, s)
       PROVE  Quiet
  <2>1. \A s \in Slots : handlers'[s] \in {handlers[s], Unheard(handlers[s])}
    BY <1>14 DEF CloseTab, LoseSignIn, Lose, RecordsTyped
  <2>2. KeepsRotations
    <3> SUFFICES ASSUME NEW s \in Slots, Rotating(s)'
                 PROVE  Rotating(s) /\ handlers'[s].token = handlers[s].token
      BY DEF KeepsRotations
    <3>1. CASE handlers'[s] = handlers[s]
      BY <3>1 DEF Rotating
    <3>2. CASE handlers'[s] = Unheard(handlers[s])
      BY <1>2, <3>2, UnheardFacts DEF Rotating
    <3> QED BY <2>1, <3>1, <3>2
  <2> QED BY <1>14, <2>2, SameTokens DEF CloseTab, LoseSignIn, Lose, serverVars, historyVars, Quiet
<1>15. CASE \/ UNCHANGED vars \/ Unsuspend \/ Tick
            \/ \E kind \in Kinds : Begin(kind)
            \/ \E t \in Tabs : SignOut(t) \/ \E origin \in Origins : Refresh(t, origin)
  <2>1. UNCHANGED <<tokens, handlers, shut, slipped>>
    BY <1>15 DEF vars, serverVars, historyVars, Unsuspend, Tick, Begin, LogOut, Recover, SignOut, Refresh
  <2> QED BY <2>1, SameTokens, SameHandlers DEF Quiet
<1> QED
  BY <1>3, <1>4, <1>5, <1>6, <1>7, <1>8, <1>9, <1>10, <1>11, <1>12, <1>13, <1>14, <1>15
     DEF Next, Handle

-----------------------------------------------------------------------------
(* Fewer live tokens and fewer rotations: nothing the invariant says is lost.   *)
LEMMA QuietKeeps ==
  ASSUME IndInv, RecordsTyped', Quiet
  PROVE  (IssuedInOrder /\ ClaimedAlone /\ LiveAlone /\ EvictedStaysOut)'
<1>0. \A t \in Tokens : /\ tokens[t].live \in BOOLEAN /\ tokens'[t].live \in BOOLEAN
                        /\ tokens'[t].family = tokens[t].family
                        /\ tokens'[t].live => tokens[t].live
  <2> SUFFICES ASSUME NEW t \in Tokens
               PROVE  /\ tokens[t].live \in BOOLEAN /\ tokens'[t].live \in BOOLEAN
                      /\ tokens'[t].family = tokens[t].family
                      /\ tokens'[t].live => tokens[t].live
    OBVIOUS
  <2>1. tokens[t] \in Token /\ tokens'[t] \in Token
    BY DEF IndInv, RecordsTyped
  <2>2. tokens[t].live \in BOOLEAN /\ tokens'[t].live \in BOOLEAN
    BY <2>1 DEF Token
  <2>3. KeepsFamilies
    BY DEF Quiet
  <2>4. tokens'[t].family = tokens[t].family /\ (tokens'[t].live => tokens[t].live)
    BY <2>3 DEF KeepsFamilies
  <2> QED BY <2>2, <2>4
<1>1. Issued' = Issued
  BY <1>0 DEF Issued
<1>2. \A f : LiveIn(f)' \subseteq LiveIn(f)
  BY <1>0 DEF LiveIn
<1>3. ASSUME NEW s \in Slots, Rotating(s)'
      PROVE  /\ Rotating(s) /\ handlers'[s].token = handlers[s].token
             /\ handlers[s].token \in Issued
             /\ FamilyOf(handlers[s].token)' = FamilyOf(handlers[s].token)
  <2>1. Rotating(s) /\ handlers'[s].token = handlers[s].token
    BY <1>3 DEF Quiet, KeepsRotations
  <2>2. handlers[s].token \in Issued
    BY <2>1 DEF IndInv, ClaimedAlone
  <2>3. handlers[s].token \in Tokens
    BY <2>2 DEF Issued
  <2> QED BY <1>0, <2>1, <2>2, <2>3 DEF FamilyOf
<1>4. \A f : Minting(f)' \subseteq Minting(f)
  BY <1>3 DEF Minting
<1>5. IssuedInOrder'
  <2>1. Issued \subseteq Tokens
    BY DEF Issued
  <2> HIDE DEF Issued
  <2>2. Issued' = 1 .. Cardinality(Issued')
    BY <1>1 DEF IndInv, IssuedInOrder
  <2>3. \A t \in Issued' : tokens'[t].family \in Issued'
    BY <1>0, <1>1, <2>1 DEF IndInv, IssuedInOrder
  <2>4. \A t \in Tokens : tokens'[t].live => t \in Issued'
    BY <1>0, <1>1 DEF IndInv, IssuedInOrder
  <2>5. shut' \subseteq Issued'
    BY <1>1 DEF Quiet, IndInv, IssuedInOrder
  <2> QED BY <2>2, <2>3, <2>4, <2>5 DEF IssuedInOrder
<1>6. ClaimedAlone'
  <2> SUFFICES ASSUME NEW s \in Slots, Rotating(s)'
               PROVE  /\ handlers'[s].token \in Issued'
                      /\ LiveIn(FamilyOf(handlers[s].token))' = {}
                      /\ Minting(FamilyOf(handlers[s].token))' = {s}
    BY DEF ClaimedAlone
  <2> DEFINE f == FamilyOf(handlers[s].token)
  <2>1. Rotating(s) /\ handlers'[s].token \in Issued' /\ f' = f
    BY <1>1, <1>3
  <2>2. LiveIn(f) = {} /\ Minting(f) = {s}
    BY <2>1 DEF IndInv, ClaimedAlone
  <2>3. s \in Minting(f)'
    BY <2>1 DEF Minting
  <2>4. LiveIn(f)' = {} /\ Minting(f)' = {s}
    <3> HIDE DEF f
    <3>1. LiveIn(f)' = {}
      BY <1>2, <2>1, <2>2 DEF LiveIn
    <3>2. Minting(f)' \subseteq Minting(f)
      BY <1>4, <2>1 DEF Minting
    <3> QED BY <2>2, <2>3, <3>1, <3>2
  <2> QED BY <2>1, <2>4
<1>7. LiveAlone'
  BY <1>0 DEF IndInv, LiveAlone
<1>8. EvictedStaysOut'
  <2> SUFFICES ASSUME NEW f \in shut' \ slipped'
               PROVE  LiveIn(f)' = {} /\ Minting(f)' = {}
    BY DEF EvictedStaysOut, LiveIn, Minting
  <2>1. LiveIn(f) = {} /\ Minting(f) = {}
    BY DEF Quiet, IndInv, EvictedStaysOut
  <2> QED BY <1>2, <1>4, <2>1
<1> QED BY <1>5, <1>6, <1>7, <1>8

-----------------------------------------------------------------------------
(* The claim takes the only live token of its family, so no other rotation of   *)
(* that family is under way, and none can start before the successor is minted. *)
LEMMA ClaimKeeps ==
  ASSUME IndInv, RecordsTyped', NEW s \in Slots, Claims(s)
  PROVE  (IssuedInOrder /\ ClaimedAlone /\ LiveAlone /\ EvictedStaysOut)'
<1> DEFINE c == handlers[s].token
           fam == tokens[c].family
<1>0. ASSUME NEW t \in Tokens
      PROVE  /\ tokens[t].live \in BOOLEAN /\ tokens'[t].live \in BOOLEAN
             /\ tokens'[t].family = tokens[t].family
             /\ tokens'[t].live <=> tokens[t].live /\ t # c
  <2>1. tokens[t] \in Token /\ tokens'[t] \in Token
    BY DEF IndInv, RecordsTyped
  <2>2. tokens[t].live \in BOOLEAN /\ tokens'[t].live \in BOOLEAN
    BY <2>1 DEF Token
  <2> QED BY <2>2, RevokedFacts DEF Claims, IndInv
<1>1. c \in Issued /\ c \in Tokens /\ fam # 0 /\ tokens[c].live
  BY DEF Claims, Issued
<1>2. Issued' = Issued
  BY <1>0 DEF Issued
<1>3. /\ handlers'[s].token = c
      /\ \A r \in Slots \ {s} : handlers'[r] = handlers[r]
      /\ handlers'[s].signIn = handlers[s].signIn
  BY DEF Claims, IndInv, RecordsTyped, Handler
<1>4. LiveIn(fam) = {c}
  BY <1>0, <1>1 DEF LiveIn, IndInv, LiveAlone
<1>5. \A f : LiveIn(f)' \subseteq LiveIn(f)
  BY <1>0 DEF LiveIn
<1>f. fam' = fam
  BY <1>0, <1>1, <1>3
<1>6. LiveIn(fam)' = {}
  BY <1>0, <1>4, <1>f DEF LiveIn
<1>7. ASSUME NEW r \in Slots \ {s}, Rotating(r)'
      PROVE  /\ Rotating(r) /\ handlers'[r].token \in Issued
             /\ FamilyOf(handlers[r].token)' = FamilyOf(handlers[r].token)
             /\ FamilyOf(handlers[r].token) # fam
  <2>1. Rotating(r) /\ handlers'[r].token = handlers[r].token
    BY <1>3, <1>7 DEF Rotating
  <2>2. /\ handlers[r].token \in Issued
        /\ LiveIn(FamilyOf(handlers[r].token)) = {}
    BY <2>1 DEF IndInv, ClaimedAlone
  <2>3. handlers[r].token \in Tokens
    BY <2>2 DEF Issued
  <2> QED BY <1>0, <1>4, <2>1, <2>2, <2>3 DEF FamilyOf
<1>8. FamilyOf(handlers[s].token)' = fam
  BY <1>0, <1>1, <1>3 DEF FamilyOf, Tokens
<1>9. IssuedInOrder'
  <2>1. Issued \subseteq Tokens
    BY DEF Issued
  <2> HIDE DEF Issued
  <2>2. Issued' = 1 .. Cardinality(Issued')
    BY <1>2 DEF IndInv, IssuedInOrder
  <2>3. \A t \in Issued' : tokens'[t].family \in Issued'
    BY <1>0, <1>2, <2>1 DEF IndInv, IssuedInOrder
  <2>4. \A t \in Tokens : tokens'[t].live => t \in Issued'
    BY <1>0, <1>2 DEF IndInv, IssuedInOrder
  <2>5. shut' \subseteq Issued'
    BY <1>2 DEF Claims, IndInv, IssuedInOrder
  <2> QED BY <2>2, <2>3, <2>4, <2>5 DEF IssuedInOrder
<1>10. ClaimedAlone'
  <2> SUFFICES ASSUME NEW r \in Slots, Rotating(r)'
               PROVE  /\ handlers'[r].token \in Issued'
                      /\ LiveIn(FamilyOf(handlers[r].token))' = {}
                      /\ Minting(FamilyOf(handlers[r].token))' = {r}
    BY DEF ClaimedAlone
  <2>1. CASE r = s
    <3>1. Minting(fam)' = {s}
      <4>1. s \in Minting(fam)'
        BY <1>8, <1>f, <2>1 DEF Minting
      <4>2. \A q \in Slots \ {s} : q \notin Minting(fam)'
        BY <1>7, <1>f DEF Minting, Rotating, FamilyOf
      <4> QED BY <4>1, <4>2 DEF Minting
    <3> QED BY <1>1, <1>2, <1>3, <1>6, <1>8, <2>1, <3>1 DEF LiveIn, Minting
  <2>2. CASE r # s
    <3> DEFINE f == FamilyOf(handlers[r].token)
    <3>1. Rotating(r) /\ f' = f /\ f # fam /\ handlers'[r].token \in Issued'
      BY <1>2, <1>7, <2>2
    <3>2. LiveIn(f) = {} /\ Minting(f) = {r}
      BY <3>1 DEF IndInv, ClaimedAlone
    <3>3. LiveIn(f)' = {}
      BY <1>5, <3>1, <3>2 DEF LiveIn
    <3>4. \A q \in Slots : q \in Minting(f)' => q \in Minting(f)
      BY <1>7, <1>8, <3>1 DEF Minting
    <3>5. r \in Minting(f)' /\ Minting(f)' \subseteq Slots
      BY <3>1 DEF Minting
    <3>6. Minting(f)' = {r}
      BY <3>2, <3>4, <3>5
    <3> QED BY <3>1, <3>3, <3>6
  <2> QED BY <2>1, <2>2
<1>11. LiveAlone'
  BY <1>0 DEF IndInv, LiveAlone
<1>12. EvictedStaysOut'
  <2> SUFFICES ASSUME NEW f \in shut' \ slipped'
               PROVE  LiveIn(f)' = {} /\ Minting(f)' = {}
    BY DEF EvictedStaysOut, LiveIn, Minting
  <2>1. LiveIn(f) = {} /\ Minting(f) = {}
    BY DEF Claims, IndInv, EvictedStaysOut
  <2>2. f # fam
    BY <1>4, <2>1
  <2>3. Minting(f)' = {}
    BY <1>7, <1>8, <2>1, <2>2 DEF Minting
  <2> QED BY <1>5, <2>1, <2>3
<1> QED BY <1>9, <1>10, <1>11, <1>12

(* An eviction revokes every token; what is still at the mint it calls slipped. *)
LEMMA EvictionKeeps ==
  ASSUME IndInv, RecordsTyped', RevokeAll
  PROVE  (IssuedInOrder /\ ClaimedAlone /\ LiveAlone /\ EvictedStaysOut)'
<1>1. ASSUME NEW t \in Tokens
      PROVE  tokens'[t].family = tokens[t].family /\ ~tokens'[t].live
  BY RevokedFacts DEF RevokeAll, IndInv, IssuedInOrder
<1>2. Issued' = Issued /\ Issued \subseteq Tokens
  BY <1>1 DEF Issued
<1>3. \A f : LiveIn(f)' = {}
  BY <1>1 DEF LiveIn
<1>4. \A s \in Slots : Rotating(s)' <=> Rotating(s)
  BY DEF RevokeAll, Rotating
<1>5. ASSUME NEW s \in Slots, Rotating(s)
      PROVE  /\ handlers[s].token \in Issued /\ handlers'[s].token = handlers[s].token
             /\ FamilyOf(handlers[s].token)' = FamilyOf(handlers[s].token)
  <2>1. handlers[s].token \in Issued
    BY <1>5 DEF IndInv, ClaimedAlone
  <2>2. handlers[s].token \in Tokens
    BY <1>2, <2>1
  <2> QED BY <1>1, <2>1, <2>2 DEF RevokeAll, FamilyOf
<1>6. \A f : Minting(f)' = Minting(f)
  BY <1>4, <1>5 DEF Minting
<1>7. IssuedInOrder'
  <2> HIDE DEF Issued
  <2>1. Issued' = 1 .. Cardinality(Issued')
    BY <1>2 DEF IndInv, IssuedInOrder
  <2>2. \A t \in Issued' : tokens'[t].family \in Issued'
    BY <1>1, <1>2 DEF IndInv, IssuedInOrder
  <2>3. shut' \subseteq Issued'
    BY <1>2 DEF RevokeAll, IndInv, IssuedInOrder
  <2> QED BY <1>1, <2>1, <2>2, <2>3 DEF IssuedInOrder
<1>8. ClaimedAlone'
  <2> SUFFICES ASSUME NEW s \in Slots, Rotating(s)'
               PROVE  /\ handlers'[s].token \in Issued'
                      /\ LiveIn(FamilyOf(handlers[s].token))' = {}
                      /\ Minting(FamilyOf(handlers[s].token))' = {s}
    BY DEF ClaimedAlone
  <2> DEFINE f == FamilyOf(handlers[s].token)
  <2>1. Rotating(s) /\ f' = f /\ handlers'[s].token \in Issued'
    BY <1>2, <1>4, <1>5
  <2>2. Minting(f) = {s}
    BY <2>1 DEF IndInv, ClaimedAlone
  <2>3. LiveIn(f)' = {}
    BY <1>3, <2>1 DEF LiveIn
  <2>4. Minting(f)' = {s}
    BY <1>6, <2>1, <2>2 DEF Minting
  <2> QED BY <2>1, <2>3, <2>4
<1>9. LiveAlone'
  BY <1>1 DEF LiveAlone
<1>10. EvictedStaysOut'
  <2> SUFFICES ASSUME NEW f \in shut' \ slipped'
               PROVE  LiveIn(f)' = {} /\ Minting(f)' = {}
    BY DEF EvictedStaysOut, LiveIn, Minting
  <2>1. f \in Families
    BY <1>2 DEF RevokeAll, IndInv, IssuedInOrder, Families
  <2>2. Minting(f) = {}
    BY <2>1 DEF RevokeAll
  <2> QED BY <1>3, <1>6, <2>2
<1> QED BY <1>7, <1>8, <1>9, <1>10

(* What a mint leaves: one more token, the next in order and live, in a family  *)
(* of its own after a sign-in, or in the family whose live token was claimed.   *)
LEMMA MintKeeps ==
  ASSUME IndInv, NEW s \in Slots, Mint(s)
  PROVE  (IssuedInOrder /\ ClaimedAlone /\ LiveAlone /\ EvictedStaysOut)'
<1> DEFINE new == Cardinality(Issued) + 1
           c == handlers[s].token
           fam == Minted(s).family
<1>1. /\ new \in Tokens /\ Minted(s).live /\ Cardinality(Issued) \in Nat
      /\ tokens' = [tokens EXCEPT ![new] = Minted(s)]
  BY MintFacts, IssuedIsFinite DEF IndInv, Minted
<1>2. UNCHANGED <<shut, slipped>> /\ handlers[s].at = "mint"
  BY DEF Mint, historyVars
<1>3. new \notin Issued
  BY <1>1 DEF IndInv, IssuedInOrder
<1>4. \A t \in Tokens : /\ t # new => tokens'[t] = tokens[t]
                        /\ t = new => tokens'[t] = Minted(s)
  BY <1>1 DEF IndInv, RecordsTyped
<1>5. \A r \in Slots : Rotating(r)' => r # s /\ handlers'[r] = handlers[r] /\ Rotating(r)
  <2>1. [handlers[s] EXCEPT !.new = new] \in Handler
    <3>1. new \in 0 .. MaxTokens
      BY <1>1 DEF Tokens
    <3>2. handlers[s] \in Handler
      BY DEF IndInv, RecordsTyped
    <3> HIDE DEF new
    <3> QED BY <3>1, <3>2 DEF Handler
  <2>2. [handlers[s] EXCEPT !.at = "minted", !.new = new].at # "mint"
    BY DEF IndInv, RecordsTyped, Handler
  <2>3. Answered([handlers[s] EXCEPT !.new = new], "ok").at # "mint"
    BY <2>1, AnsweredFacts
  <2>4. handlers'[s].at # "mint"
    BY <2>2, <2>3 DEF Mint, IndInv, RecordsTyped
  <2>5. \A r \in Slots \ {s} : handlers'[r] = handlers[r]
    BY DEF Mint, IndInv, RecordsTyped
  <2> QED BY <2>4, <2>5 DEF Rotating
<1>7. /\ Rotating(s) => /\ c \in Issued /\ fam = FamilyOf(c) /\ fam \in Issued
                        /\ LiveIn(fam) = {} /\ Minting(fam) = {s}
      /\ ~Rotating(s) => fam = new
  <2>1. CASE Rotating(s)
    <3>1. c \in Issued /\ fam = FamilyOf(c)
      BY <2>1 DEF Rotating, Minted, IndInv, ClaimedAlone
    <3>2. LiveIn(fam) = {} /\ Minting(fam) = {s}
      BY <2>1, <3>1 DEF IndInv, ClaimedAlone
    <3>3. c # 0 /\ FamilyOf(c) = tokens[c].family
      BY <3>1, SessionAssumption DEF Issued, Tokens, FamilyOf
    <3>4. fam \in Issued
      BY <3>1, <3>3 DEF IndInv, IssuedInOrder
    <3> QED BY <2>1, <3>1, <3>2, <3>4
  <2>2. CASE ~Rotating(s)
    BY <1>2, <2>2 DEF Rotating, Minted
  <2> QED BY <2>1, <2>2
<1> HIDE DEF fam
<1>8. \A t \in Tokens : tokens[t].family = new => FALSE
  <2> SUFFICES ASSUME NEW t \in Tokens, tokens[t].family = new PROVE FALSE
    OBVIOUS
  <2>1. t \in Issued
    BY <1>1 DEF Issued
  <2> QED BY <1>3, <2>1 DEF IndInv, IssuedInOrder
<1>9. LiveIn(fam) = {}
  BY <1>7, <1>8 DEF LiveIn
<1>10. fam # 0 /\ fam \in Tokens /\ fam \in Issued \cup {new}
  BY <1>1, <1>7, SessionAssumption DEF Issued, Tokens
<1>11. Issued' = Issued \cup {new} /\ Issued \subseteq Tokens
  <2>1. \A t \in Tokens : t \in Issued' <=> t \in Issued \/ t = new
    BY <1>4, <1>10 DEF Issued, fam
  <2> QED BY <1>1, <2>1 DEF Issued
<1>12. IssuedInOrder'
  <2> HIDE DEF Issued
  <2>1. Cardinality(Issued') = new
    BY <1>3, <1>11, IssuedIsFinite, FS_AddElement
  <2>2. Issued' = 1 .. new
    BY <1>1, <1>11 DEF IndInv, IssuedInOrder
  <2>3. \A t \in Issued' : tokens'[t].family \in Issued'
    <3> SUFFICES ASSUME NEW t \in Issued' PROVE tokens'[t].family \in Issued'
      OBVIOUS
    <3>1. CASE t = new
      BY <1>1, <1>4, <1>10, <1>11, <3>1 DEF fam
    <3>2. CASE t # new
      BY <1>4, <1>11, <3>2 DEF IndInv, IssuedInOrder
    <3> QED BY <3>1, <3>2
  <2>4. \A t \in Tokens : tokens'[t].live => t \in Issued'
    BY <1>4, <1>11 DEF IndInv, IssuedInOrder
  <2>5. shut' \subseteq Issued'
    BY <1>2, <1>11 DEF IndInv, IssuedInOrder
  <2> QED BY <2>1, <2>2, <2>3, <2>4, <2>5 DEF IssuedInOrder
<1> HIDE DEF new
<1>13. \A f : LiveIn(f)' \subseteq LiveIn(f) \cup (IF f = fam THEN {new} ELSE {})
  BY <1>4 DEF LiveIn, fam
<1>14. ASSUME NEW r \in Slots, Rotating(r)'
       PROVE  /\ Rotating(r) /\ r # s /\ handlers'[r].token = handlers[r].token
              /\ handlers[r].token \in Issued
              /\ FamilyOf(handlers[r].token)' = FamilyOf(handlers[r].token)
              /\ FamilyOf(handlers[r].token) # fam
  <2>1. Rotating(r) /\ r # s /\ handlers'[r].token = handlers[r].token
    BY <1>5, <1>14
  <2>2. /\ handlers[r].token \in Issued
        /\ Minting(FamilyOf(handlers[r].token)) = {r}
    BY <2>1 DEF IndInv, ClaimedAlone
  <2>3. handlers[r].token \in Tokens /\ handlers[r].token # new
    BY <1>3, <1>11, <2>2
  <2>4. FamilyOf(handlers[r].token)' = FamilyOf(handlers[r].token)
    BY <1>4, <2>1, <2>3 DEF FamilyOf
  <2>5. FamilyOf(handlers[r].token) # fam
    <3>1. CASE Rotating(s)
      BY <1>7, <2>1, <2>2, <3>1
    <3>2. CASE ~Rotating(s)
      <4>1. FamilyOf(handlers[r].token) = tokens[handlers[r].token].family
        BY <2>3 DEF FamilyOf, Tokens
      <4> QED BY <1>7, <1>8, <2>3, <3>2, <4>1
    <3> QED BY <3>1, <3>2
  <2> QED BY <2>1, <2>2, <2>4, <2>5
<1>15. ClaimedAlone'
  <2> SUFFICES ASSUME NEW r \in Slots, Rotating(r)'
               PROVE  /\ handlers'[r].token \in Issued'
                      /\ LiveIn(FamilyOf(handlers[r].token))' = {}
                      /\ Minting(FamilyOf(handlers[r].token))' = {r}
    BY DEF ClaimedAlone
  <2> DEFINE f == FamilyOf(handlers[r].token)
  <2>1. Rotating(r) /\ f' = f /\ f # fam /\ handlers'[r].token \in Issued'
    BY <1>11, <1>14
  <2>2. LiveIn(f) = {} /\ Minting(f) = {r}
    BY <2>1 DEF IndInv, ClaimedAlone
  <2>3. LiveIn(f)' = {}
    BY <1>13, <2>1, <2>2 DEF LiveIn
  <2>4. \A q \in Slots : q \in Minting(f)' => q \in Minting(f)
    BY <1>14, <2>1 DEF Minting
  <2>5. r \in Minting(f)' /\ Minting(f)' \subseteq Slots
    BY <2>1 DEF Minting
  <2>6. Minting(f)' = {r}
    BY <2>2, <2>4, <2>5
  <2> QED BY <2>1, <2>3, <2>6
<1>16. LiveAlone'
  <2> SUFFICES ASSUME NEW t \in Tokens, NEW u \in Tokens, tokens'[t].live, tokens'[u].live,
                      tokens'[t].family = tokens'[u].family
               PROVE  t = u
    BY DEF LiveAlone
  <2>1. CASE t # new /\ u # new
    BY <1>4, <2>1 DEF IndInv, LiveAlone
  <2>2. CASE t = new /\ u # new
    BY <1>4, <1>9, <2>2 DEF LiveIn, fam
  <2>3. CASE t # new /\ u = new
    BY <1>4, <1>9, <2>3 DEF LiveIn, fam
  <2> QED BY <2>1, <2>2, <2>3
<1>17. EvictedStaysOut'
  <2> SUFFICES ASSUME NEW f \in shut' \ slipped'
               PROVE  LiveIn(f)' = {} /\ Minting(f)' = {}
    BY DEF EvictedStaysOut, LiveIn, Minting
  <2>1. LiveIn(f) = {} /\ Minting(f) = {} /\ f \in Issued
    BY <1>2 DEF IndInv, EvictedStaysOut, IssuedInOrder
  <2>2. f # fam
    BY <1>3, <1>7, <2>1
  <2>3. Minting(f)' = {}
    BY <1>14, <2>1 DEF Minting
  <2> QED BY <1>13, <2>1, <2>2, <2>3
<1> QED BY <1>12, <1>15, <1>16, <1>17

-----------------------------------------------------------------------------
(* The invariant holds in every reachable state.                              *)
THEOREM Invariance == Spec => []IndInv
<1>1. Init => IndInv
  <2> SUFFICES ASSUME Init PROVE IndInv
    OBVIOUS
  <2>1. RecordsTyped
    BY InitTyped
  <2>2. \A t \in Tokens : tokens[t].family = 0 /\ ~tokens[t].live
    BY DEF Init, NoToken
  <2>3. Issued = {} /\ shut = {}
    BY <2>2 DEF Init, Issued
  <2>4. IssuedInOrder
    <3>1. Issued = 1 .. Cardinality(Issued)
      BY <2>3, FS_EmptySet
    <3> QED BY <2>2, <2>3, <3>1 DEF IssuedInOrder
  <2>5. ClaimedAlone
    BY DEF Init, ClaimedAlone, Rotating, Idle
  <2>6. LiveAlone
    BY <2>2 DEF LiveAlone
  <2>7. EvictedStaysOut
    BY <2>3 DEF EvictedStaysOut
  <2> QED BY <2>1, <2>4, <2>5, <2>6, <2>7 DEF IndInv
<1>2. IndInv /\ [Next]_vars => IndInv'
  <2> SUFFICES ASSUME IndInv, [Next]_vars PROVE IndInv'
    OBVIOUS
  <2>1. RecordsTyped'
    BY TypeStep DEF IndInv
  <2>2. (IssuedInOrder /\ ClaimedAlone /\ LiveAlone /\ EvictedStaysOut)'
    BY <2>1, StepKinds, QuietKeeps, ClaimKeeps, MintKeeps, EvictionKeeps DEF IndInv
  <2> QED BY <2>1, <2>2 DEF IndInv
<1> QED BY <1>1, <1>2, PTL DEF Spec

(* The rotation of refresh tokens keeps its first promise whatever refreshes,   *)
(* replays, evictions, failures and tabs race: no family ever has two live       *)
(* tokens (jwt/refresh.ts:81-98).                                             *)
THEOREM FamiliesStayLinear == Spec => []OneLiveToken
<1>1. IndInv => OneLiveToken
  <2> SUFFICES ASSUME IndInv, NEW f \in Families PROVE Cardinality(LiveIn(f)) <= 1
    BY DEF OneLiveToken
  <2>1. CASE LiveIn(f) = {}
    BY <2>1, FS_EmptySet
  <2>2. ASSUME NEW t \in LiveIn(f) PROVE Cardinality(LiveIn(f)) <= 1
    <3>1. LiveIn(f) = {t}
      BY <2>2 DEF LiveIn, IndInv, LiveAlone
    <3> QED BY <3>1, FS_Singleton
  <2> QED BY <2>1, <2>2
<1> QED BY <1>1, Invariance, PTL

(* An eviction is final: but for a rotation it met between its claim and its    *)
(* mint, no refresh carries a family across it (jwt/refresh.ts:131-138).         *)
THEOREM EvictionIsFinal == Spec => []EvictedStaysOut
<1>1. IndInv => EvictedStaysOut
  BY DEF IndInv
<1> QED BY <1>1, Invariance, PTL

-----------------------------------------------------------------------------
(* The deny-list and the history name tokens and families that exist.           *)

(* A free slot presents nothing and answers nothing.                         *)
LEMMA IdleIs ==
  /\ Idle.at = "idle" /\ Idle.token = 0 /\ Idle.new = 0 /\ Idle.tab = None
  /\ ~Idle.signIn /\ Idle.answer = "none"
BY DEF Idle

(* An answered request keeps what it presented, if a tab still listens.      *)
LEMMA AnsweredIs ==
  ASSUME NEW h \in Handler, NEW answer
  PROVE  \/ Answered(h, answer) = Idle /\ h.tab = None
         \/ /\ h.tab # None /\ Answered(h, answer).at = "done"
            /\ Answered(h, answer).answer = answer /\ Answered(h, answer).tab = h.tab
            /\ Answered(h, answer).signIn = h.signIn
            /\ Answered(h, answer).token = h.token /\ Answered(h, answer).new = h.new
<1>1. CASE h.tab = None
  BY <1>1 DEF Answered
<1>2. CASE h.tab # None
  <2>1. Answered(h, answer) = [h EXCEPT !.at = "done", !.answer = answer]
    BY <1>2 DEF Answered
  <2> QED BY <1>2, <2>1 DEF Handler
<1> QED BY <1>1, <1>2

(* A request nobody listens to goes on, and frees its slot once answered.    *)
LEMMA UnheardIs ==
  ASSUME NEW h \in Handler
  PROVE  \/ Unheard(h) = Idle
         \/ /\ h.at # "done" /\ Unheard(h).at = h.at /\ Unheard(h).tab = None
            /\ Unheard(h).signIn = h.signIn /\ Unheard(h).token = h.token
            /\ Unheard(h).new = h.new /\ Unheard(h).answer = h.answer
<1>1. CASE h.at = "done"
  BY <1>1 DEF Unheard
<1>2. CASE h.at # "done"
  <2>1. Unheard(h) = [h EXCEPT !.tab = None]
    BY <1>2 DEF Unheard
  <2> QED BY <1>2, <2>1 DEF Handler
<1> QED BY <1>1, <1>2

(* What was issued stays issued.                                              *)
LEMMA IssuedStays ==
  ASSUME IndInv, [Next]_vars
  PROVE  Issued \subseteq Issued'
<1> USE DEF IndInv
<1>1. CASE Quiet
  BY <1>1 DEF Quiet, KeepsFamilies, Issued
<1>2. ASSUME NEW gone, tokens' = Revoked(gone) PROVE Issued \subseteq Issued'
  BY <1>2, RevokedFacts DEF Issued
<1>3. ASSUME NEW s \in Slots, Mint(s) PROVE Issued \subseteq Issued'
  <2> DEFINE new == Cardinality(Issued) + 1
  <2>1. PICK row : tokens' = [tokens EXCEPT ![new] = row]
    BY <1>3 DEF Mint
  <2>2. new \notin Issued
    BY IssuedIsFinite DEF IssuedInOrder
  <2>3. \A t \in Issued : tokens'[t] = tokens[t]
    <3> HIDE DEF new
    <3> QED BY <2>1, <2>2 DEF Issued, RecordsTyped
  <2> QED BY <2>3 DEF Issued
<1> QED BY <1>1, <1>2, <1>3, StepKinds DEF RevokeAll, Claims

(* A request comes to the check of the user only by finding its token live.     *)
LEMMA ActiveStep ==
  ASSUME IndInv, NamesInv, [Next]_vars, NEW s \in Slots, handlers'[s].at = "active"
  PROVE  handlers'[s].token \in Issued
<1> DEFINE Same(r) == handlers'[r].at = "active" =>
                        handlers[r].at = "active" /\ handlers'[r].token = handlers[r].token
<1>0. \A r \in Slots : handlers[r] \in Handler
  BY DEF IndInv, RecordsTyped
<1>1. ASSUME Same(s) PROVE handlers'[s].token \in Issued
  BY <1>1 DEF NamesInv
<1>2. ASSUME NEW r \in Slots, NEW h, handlers' = [handlers EXCEPT ![r] = h], h.at # "active"
      PROVE  Same(s)
  BY <1>2 DEF IndInv, RecordsTyped
<1>3. ASSUME NEW r \in Slots, NEW answer, Answers(r, answer) PROVE Same(s)
  <2>1. Answered(handlers[r], answer).at # "active"
    BY <1>0, AnsweredIs, IdleIs
  <2> QED BY <1>2, <1>3, <2>1 DEF Answers
<1>4. ASSUME NEW r \in Slots, handlers' = [handlers EXCEPT ![r] = Unheard(@)] PROVE Same(s)
  BY <1>0, <1>4, UnheardIs, IdleIs DEF IndInv, RecordsTyped
<1>5. ASSUME NEW r \in Slots, Look(r) PROVE handlers'[s].token \in Issued
  <2>1. CASE \E answer : Answers(r, answer)
    BY <1>1, <1>3, <2>1
  <2>2. CASE Goes(r, "reused") \/ Goes(r, "expired")
    <3>1. PICK step \in {"reused", "expired"} : handlers' = [handlers EXCEPT ![r].at = step]
      BY <2>2 DEF Goes
    <3>2. [handlers[r] EXCEPT !.at = step].at # "active"
      BY <1>0 DEF Handler
    <3> QED BY <1>1, <1>2, <3>1, <3>2
  <2>3. CASE /\ handlers[r].token # 0 /\ tokens[handlers[r].token].live
             /\ Goes(r, "active")
    <3>1. handlers[r].token \in Issued
      BY <1>0, <2>3, SessionAssumption DEF Handler, Tokens, IndInv, IssuedInOrder
    <3>2. [handlers[r] EXCEPT !.at = "active"].token = handlers[r].token
      BY <1>0 DEF Handler
    <3>3. handlers'[r].token = handlers[r].token
      BY <2>3, <3>2 DEF Goes, IndInv, RecordsTyped
    <3>4. s # r => handlers'[s] = handlers[s]
      BY <2>3 DEF Goes, IndInv, RecordsTyped
    <3> QED BY <1>1, <3>1, <3>3, <3>4
  <2> QED BY <1>5, <2>1, <2>2, <2>3 DEF Look
<1>6. ASSUME NEW r \in Slots, RevokeReused(r) \/ RevokeExpired(r) \/ LinkSuccessor(r) \/ Fail(r)
      PROVE  Same(s)
  <2>1. \E answer : Answers(r, answer)
    BY <1>6 DEF RevokeReused, RevokeExpired, LinkSuccessor, Fail
  <2> QED BY <1>3, <2>1
<1>7. ASSUME NEW r \in Slots, CheckUser(r) \/ Admit(r) PROVE Same(s)
  <2>1. \A step \in {"checked", "mint"} :
          [handlers[r] EXCEPT !.at = step, !.role = account.role].at # "active"
    BY <1>0 DEF Handler
  <2>2. \/ Answers(r, "refused")
        \/ \E step \in {"checked", "mint"} : handlers' = [handlers EXCEPT ![r] =
             [handlers[r] EXCEPT !.at = step, !.role = account.role]]
    BY <1>7 DEF CheckUser, Admit
  <2> QED BY <1>2, <1>3, <2>1, <2>2
<1>8. ASSUME NEW r \in Slots, Claim(r) PROVE Same(s)
  <2>1. [handlers[r] EXCEPT !.at = "mint"].at # "active"
    BY <1>0 DEF Handler
  <2>2. \/ Answers(r, "refused")
        \/ handlers' = [handlers EXCEPT ![r] = [handlers[r] EXCEPT !.at = "mint"]]
    BY <1>8 DEF Claim, Goes
  <2> QED BY <1>2, <1>3, <2>1, <2>2
<1>9. ASSUME NEW r \in Slots, Mint(r) PROVE Same(s)
  <2> DEFINE new == Cardinality(Issued) + 1
             h == handlers[r]
  <2>1. new \in 0 .. MaxTokens
    BY <1>9, IssuedIsFinite, SessionAssumption DEF Mint
  <2>2. [h EXCEPT !.new = new] \in Handler /\ [h EXCEPT !.at = "minted", !.new = new].at = "minted"
    BY <1>0, <2>1 DEF Handler
  <2>3. Answered([h EXCEPT !.new = new], "ok").at # "active"
    BY <2>2, AnsweredIs, IdleIs
  <2>4. \/ handlers' = [handlers EXCEPT ![r] = Answered([h EXCEPT !.new = new], "ok")]
        \/ handlers' = [handlers EXCEPT ![r] = [h EXCEPT !.at = "minted", !.new = new]]
    BY <1>9 DEF Mint
  <2> HIDE DEF new, h
  <2> QED BY <1>2, <2>2, <2>3, <2>4
<1>10. ASSUME UNCHANGED handlers PROVE Same(s)
  BY <1>10
<1>11. ASSUME Deny PROVE Same(s)
  <2>1. \A role : [Idle EXCEPT !.at = "mint", !.signIn = TRUE, !.tab = eviction.tab,
                               !.role = role].at = "mint"
    BY DEF Idle
  <2> QED BY <1>2, <1>10, <1>11, <2>1 DEF Deny
<1>12. ASSUME NEW t \in Tabs, NEW r \in Slots, SignIn(t, r) \/ Send(t, r) PROVE Same(s)
  <2>1. /\ [Idle EXCEPT !.at = "arrived", !.tab = t, !.signIn = TRUE].at = "arrived"
        /\ [Idle EXCEPT !.at = "arrived", !.tab = t, !.token = cookie[Home[t]]].at = "arrived"
    BY DEF Idle
  <2> QED BY <1>2, <1>12, <2>1 DEF SignIn, Send
<1>13. ASSUME NEW t \in Tabs, NEW r \in Slots, SignedIn(t, r) \/ Receive(t, r) PROVE Same(s)
  BY <1>2, <1>13, IdleIs DEF SignedIn, Receive
<1>14. ASSUME NEW t \in Tabs, NEW r \in Slots, LoseSignIn(t, r) \/ Lose(t, r) PROVE Same(s)
  BY <1>4, <1>14 DEF LoseSignIn, Lose
<1>15. ASSUME NEW t \in Tabs, CloseTab(t) PROVE Same(s)
  BY <1>0, <1>15, UnheardIs, IdleIs DEF CloseTab
<1>16. CASE \/ UNCHANGED vars \/ RevokeAll \/ Unsuspend \/ Tick
            \/ \E kind \in Kinds : Begin(kind)
            \/ \E t \in Tokens : Expire(t)
            \/ \E t \in Tabs : SignOut(t) \/ \E origin \in Origins : Refresh(t, origin)
  <2>1. UNCHANGED handlers
    BY <1>16 DEF vars, RevokeAll, Unsuspend, Tick, Begin, LogOut, Recover, Expire, SignOut, Refresh
  <2> QED BY <1>1, <1>10, <2>1
<1> HIDE DEF Same
<1> QED BY <1>1, <1>5, <1>6, <1>7, <1>8, <1>9, <1>11, <1>12, <1>13, <1>14, <1>15, <1>16
        DEF Next, Handle

(* The steps of requests, tabs and time: none of them is an eviction's.          *)
StepElsewhere ==
  \/ \E s \in Slots : Handle(s) \/ Fail(s)
  \/ \E t \in Tokens : Expire(t)
  \/ \E t \in Tabs : SignOut(t) \/ CloseTab(t) \/ \E origin \in Origins : Refresh(t, origin)
  \/ \E t \in Tabs, s \in Slots : \/ SignIn(t, s) \/ SignedIn(t, s) \/ LoseSignIn(t, s)
                                  \/ Send(t, s) \/ Receive(t, s) \/ Lose(t, s)

(* They leave the eviction, the deny-list and what an eviction met alone.        *)
LEMMA ElsewhereKeeps ==
  ASSUME StepElsewhere
  PROVE  UNCHANGED <<eviction, denied, slipped>>
<1> DEFINE Same == UNCHANGED <<eviction, denied, slipped>>
<1>1. ASSUME NEW s \in Slots, Look(s) \/ RevokeReused(s) \/ RevokeExpired(s) \/ CheckUser(s)
      PROVE  Same
  BY <1>1 DEF serverVars, historyVars, Look, RevokeReused, RevokeExpired, CheckUser
<1>2. ASSUME NEW s \in Slots, Claim(s) \/ Admit(s) \/ Mint(s) \/ LinkSuccessor(s)
      PROVE  Same
  BY <1>2 DEF serverVars, historyVars, Claim, Admit, Mint, LinkSuccessor
<1>3. ASSUME NEW s \in Slots, Fail(s) PROVE Same
  BY <1>3 DEF serverVars, Fail
<1>4. ASSUME NEW t \in Tokens, Expire(t) PROVE Same
  BY <1>4 DEF Expire
<1>5. ASSUME NEW t \in Tabs,
             SignOut(t) \/ CloseTab(t) \/ \E origin \in Origins : Refresh(t, origin)
      PROVE  Same
  BY <1>5 DEF serverVars, historyVars, SignOut, CloseTab, Refresh
<1>6. ASSUME NEW t \in Tabs, NEW s \in Slots, SignIn(t, s) \/ SignedIn(t, s) \/ LoseSignIn(t, s)
      PROVE  Same
  BY <1>6 DEF serverVars, historyVars, SignIn, SignedIn, LoseSignIn
<1>7. ASSUME NEW t \in Tabs, NEW s \in Slots, Send(t, s) \/ Receive(t, s) \/ Lose(t, s)
      PROVE  Same
  BY <1>7 DEF serverVars, historyVars, Send, Receive, Lose
<1> HIDE DEF Same
<1>8. ASSUME NEW s \in Slots, Handle(s) \/ Fail(s) PROVE Same
  BY <1>1, <1>2, <1>3, <1>8 DEF Handle
<1>9. Same
  BY <1>4, <1>5, <1>6, <1>7, <1>8 DEF StepElsewhere
<1> QED BY <1>9 DEF Same

(* A log-out names the token it was asked with.                                *)
LEMMA LogOutStep ==
  ASSUME IndInv, NamesInv, [Next]_vars, eviction'.at # "none", eviction'.kind = "logout"
  PROVE  eviction'.access \in Tokens
<1>1. CASE UNCHANGED eviction
  BY <1>1 DEF NamesInv
<1>2. ASSUME NEW kind \in Kinds, Begin(kind) PROVE eviction'.access \in Tokens
  <2>1. ASSUME NEW t \in Tabs, Serves(tabs[t].access),
               eviction' = [NoEviction EXCEPT !.at = "revoke", !.kind = kind, !.tab = t,
                                              !.access = tabs[t].access]
        PROVE  eviction'.access \in Tokens
    <3>1. eviction'.access = tabs[t].access
      BY <2>1 DEF NoEviction
    <3> QED BY <2>1, <3>1 DEF Serves, Issued
  <2>2. [NoEviction EXCEPT !.at = "revoke", !.kind = kind].kind = kind
    BY DEF NoEviction
  <2>3. CASE kind \in {"role", "suspend"}
    BY <1>2, <2>2, <2>3 DEF Begin, LogOut, Recover
  <2>4. CASE kind = "recover"
    <3>1. PICK t \in Tabs :
            eviction' = [NoEviction EXCEPT !.at = "revoke", !.kind = kind, !.tab = t,
                                           !.role = account.role, !.second = clock]
      BY <1>2, <2>4 DEF Begin, LogOut, Recover
    <3>2. eviction'.kind = "recover"
      BY <2>4, <3>1 DEF NoEviction
    <3> QED BY <3>2
  <2>5. CASE kind \in {"everywhere", "logout"}
    BY <1>2, <2>1, <2>5 DEF Begin, LogOut, Recover
  <2> QED BY <2>3, <2>4, <2>5 DEF Kinds
<1>3. CASE RevokeAll
  <2>1. /\ [eviction EXCEPT !.at = "deny"].kind = eviction.kind
        /\ [eviction EXCEPT !.at = "deny"].access = eviction.access
    BY DEF IndInv, RecordsTyped, Eviction
  <2> QED BY <1>3, <2>1 DEF RevokeAll, NamesInv
<1>4. CASE Deny
  BY <1>4 DEF Deny, NoEviction
<1>5. CASE UNCHANGED vars \/ Unsuspend \/ Tick
  BY <1>1, <1>5 DEF vars, serverVars, historyVars, Unsuspend, Tick
<1>6. CASE StepElsewhere
  BY <1>1, <1>6, ElsewhereKeeps
<1> QED BY <1>2, <1>3, <1>4, <1>5, <1>6 DEF Next, StepElsewhere

(* Every family that is spoiled is one: it was named for a token that went round. *)
LEMMA SpoiledTyped ==
  ASSUME IndInv, NamesInv, spoiled \subseteq Families, [Next]_vars
  PROVE  spoiled' \subseteq Families
<1> USE SessionAssumption DEF IndInv
<1>1. \A t \in 0 .. MaxTokens : FamilyOf(t) \in 0 .. MaxTokens
  BY DEF FamilyOf, RecordsTyped, Token, Tokens
<1>2. \A t \in Issued : t # 0 /\ tokens[t].family \in Families /\ FamilyOf(t) \in Families
  <2> SUFFICES ASSUME NEW t \in Issued
               PROVE  t # 0 /\ tokens[t].family \in Families /\ FamilyOf(t) \in Families
    OBVIOUS
  <2>1. t \in 1 .. MaxTokens /\ tokens[t].family # 0
    BY DEF Issued, Tokens
  <2>2. tokens[t].family \in 0 .. MaxTokens
    BY <2>1 DEF RecordsTyped, Token, Tokens
  <2> QED BY <2>1, <2>2 DEF FamilyOf, Families, Tokens
<1>3. \A s \in Slots : FamilyOf(handlers[s].token) \in 0 .. MaxTokens
  BY <1>1 DEF RecordsTyped, Handler
<1>4. \A s \in Slots : {FamilyOf(handlers[s].token)} \ {0} \subseteq Families
  BY <1>3 DEF Families, Tokens
<1>5. CASE UNCHANGED spoiled
  BY <1>5
<1>6. ASSUME NEW s \in Slots, CheckUser(s) PROVE spoiled' \subseteq Families
  BY <1>2, <1>6 DEF CheckUser, NamesInv
<1>7. ASSUME NEW s \in Slots, Fail(s) PROVE spoiled' \subseteq Families
  BY <1>4, <1>7 DEF Fail, FamilyAtRisk
<1>8. CASE RevokeAll
  BY <1>2, <1>8 DEF RevokeAll
<1>9. ASSUME NEW t \in Tokens, Expire(t) PROVE spoiled' \subseteq Families
  BY <1>2, <1>9 DEF Expire
<1>10. ASSUME NEW t \in Tabs, NEW s \in Slots, Lose(t, s) PROVE spoiled' \subseteq Families
  BY <1>4, <1>10 DEF Lose
<1>11. ASSUME NEW t \in Tabs, CloseTab(t) PROVE spoiled' \subseteq Families
  <2>1. \A s \in Asking(t) : s \in Slots
    BY DEF Asking
  <2> QED BY <1>4, <1>11, <2>1 DEF CloseTab
<1>12. CASE \/ UNCHANGED vars \/ Deny \/ Unsuspend \/ Tick
            \/ \E kind \in Kinds : Begin(kind)
            \/ \E s \in Slots : \/ Look(s) \/ RevokeReused(s) \/ RevokeExpired(s)
                                \/ Claim(s) \/ Admit(s) \/ Mint(s) \/ LinkSuccessor(s)
  <2>1. UNCHANGED spoiled
    BY <1>12 DEF vars, historyVars, Deny, Unsuspend, Tick, Begin, LogOut, Recover, Look, RevokeReused,
                 RevokeExpired, Claim, Admit, Mint, LinkSuccessor
  <2> QED BY <1>5, <2>1
<1>13. ASSUME NEW t \in Tabs, SignOut(t) \/ \E origin \in Origins : Refresh(t, origin)
       PROVE  spoiled' \subseteq Families
  BY <1>5, <1>13 DEF historyVars, SignOut, Refresh
<1>14. ASSUME NEW t \in Tabs, NEW s \in Slots,
              SignIn(t, s) \/ SignedIn(t, s) \/ LoseSignIn(t, s) \/ Send(t, s) \/ Receive(t, s)
       PROVE  spoiled' \subseteq Families
  BY <1>5, <1>14 DEF historyVars, SignIn, SignedIn, LoseSignIn, Send, Receive
<1> QED BY <1>6, <1>7, <1>8, <1>9, <1>10, <1>11, <1>12, <1>13, <1>14
        DEF Next, Handle

(* Only the token of a log-out is denied by name.                              *)
LEMMA DeniedTyped ==
  ASSUME NamesInv, denied \subseteq Tokens, [Next]_vars
  PROVE  denied' \subseteq Tokens
<1>1. CASE Deny
  BY <1>1 DEF Deny, NamesInv
<1>2. CASE UNCHANGED denied
  BY <1>2
<1>3. CASE \/ UNCHANGED vars \/ RevokeAll \/ Unsuspend \/ Tick
           \/ \E kind \in Kinds : Begin(kind)
  BY <1>2, <1>3 DEF vars, serverVars, historyVars, RevokeAll, Unsuspend, Tick, Begin, LogOut, Recover
<1>4. CASE StepElsewhere
  BY <1>2, <1>4, ElsewhereKeeps
<1> QED BY <1>1, <1>3, <1>4 DEF Next, StepElsewhere

(* What slipped past an eviction are families.                                 *)
LEMMA SlippedTyped ==
  ASSUME slipped \subseteq Families, [Next]_vars
  PROVE  slipped' \subseteq Families
<1>1. CASE UNCHANGED slipped
  BY <1>1
<1>2. CASE RevokeAll
  BY <1>2 DEF RevokeAll
<1>3. CASE \/ UNCHANGED vars \/ Deny \/ Unsuspend \/ Tick
           \/ \E kind \in Kinds : Begin(kind)
  BY <1>1, <1>3 DEF vars, serverVars, historyVars, Deny, Unsuspend, Tick, Begin, LogOut, Recover
<1>4. CASE StepElsewhere
  BY <1>1, <1>4, ElsewhereKeeps
<1> QED BY <1>2, <1>3, <1>4 DEF Next, StepElsewhere

(* The parts of TypeOK that are about the deny-list and the history.            *)
HistoryTyped == denied \subseteq Tokens /\ spoiled \subseteq Families /\ slipped \subseteq Families

(* The sessions keep all their types, with or without locks: a log-out denies a   *)
(* token that was issued, and what counts as evicted, expired or interrupted is  *)
(* a family that was started (auth/deny-list.ts, jwt/refresh.ts:34-105).          *)
THEOREM AllTyped == Spec => [](TypeOK /\ NamesInv)
<1>1. Init => NamesInv /\ HistoryTyped
  BY DEF Init, Idle, NoEviction, NamesInv, HistoryTyped
<1>2. IndInv /\ NamesInv /\ HistoryTyped /\ [Next]_vars => NamesInv' /\ HistoryTyped'
  <2> SUFFICES ASSUME IndInv, NamesInv, HistoryTyped, [Next]_vars
               PROVE  NamesInv' /\ HistoryTyped'
    OBVIOUS
  <2>1. NamesInv'
    BY ActiveStep, LogOutStep, IssuedStays DEF NamesInv, Tokens
  <2>2. HistoryTyped'
    BY SpoiledTyped, DeniedTyped, SlippedTyped DEF HistoryTyped
  <2> QED BY <2>1, <2>2
<1>3. IndInv /\ HistoryTyped => TypeOK
  BY DEF IndInv, IssuedInOrder, Issued, Families, HistoryTyped, TypeOK
<1> QED BY <1>1, <1>2, <1>3, Invariance, PTL DEF Spec

-----------------------------------------------------------------------------
(* The second part: where there are locks, nobody is refused without a cause.   *)

(* Families only ever come about, and history only adds to what it spoils.      *)
Grown ==
  /\ \A t \in Issued : /\ t \in Issued' /\ t \in Tokens /\ t # 0
                       /\ FamilyOf(t)' = FamilyOf(t)
                       /\ FamilyOf(t) \in Issued /\ FamilyOf(t) # 0
  /\ spoiled \subseteq spoiled'

(* A request whose family is spoiled by the step, or that presents nothing.      *)
Lost(h) == Presents(h) = 0 \/ FamilyOf(Presents(h)) \in spoiled'

(* What a request that is not lost must still be after a step, and how a step    *)
(* may change a request: it becomes another step of itself, or it is lost.       *)
Serving(k) ==
  /\ k.tab \in Tabs /\ k.at \notin {"reused", "expired"}
  /\ k.at = "done" => k.answer \in {"ok", "failed"}
  /\ ~Spent(k) => tokens'[k.token].live
  /\ HasNew(k) => tokens'[k.new].live
Asks(h) == h.at # "idle" /\ ~h.signIn
Follows(h, k) ==
  \/ k = h
  \/ /\ Grants(k) = 0
     /\ Asks(k) => Asks(h) /\ k.tab \in {h.tab, None}
     /\ \/ Lost(k) /\ Presents(k) \in {0, Presents(h)} /\ (Spent(h) => Lost(h))
        \/ Presents(k) = Presents(h) /\ k.tab = h.tab /\ (Spent(h) => Spent(k)) /\ Serving(k)

(* Only the claim of its own rotation takes a clean token out of service.        *)
Spared ==
  \A t \in Issued : tokens[t].live /\ FamilyOf(t) \notin spoiled' =>
    \/ tokens'[t].live
    \/ \E s \in Slots : /\ Presents(handlers[s]) = t /\ Presents(handlers'[s]) = t
                        /\ ~Spent(handlers[s]) /\ Spent(handlers'[s])

Tame ==
  /\ \A b \in Browsers : cookie'[b] \in {cookie[b], 0}
  /\ \A s \in Slots : Follows(handlers[s], handlers'[s])
  /\ \A s \in Slots : handlers'[s] = handlers[s] \/ Known(handlers'[s]) \/ Mint(s)
  /\ Spared

(* A request that ends unheard, or answered to nobody, grants nothing.       *)
LEMMA IdleFollows ==
  ASSUME NEW h
  PROVE  /\ Presents(Idle) = 0 /\ Grants(Idle) = 0 /\ ~Spent(Idle) /\ Known(Idle)
         /\ (Spent(h) => Lost(h)) => Follows(h, Idle)
BY IdleIs DEF Presents, Grants, Spent, HasNew, Known, Lost, Follows, Asks

(* A request that ends in a refusal was lost; one that fails before it spent its *)
(* token leaves that in service.                                               *)
LEMMA AnswerFollows ==
  ASSUME NEW h \in Handler, NEW answer \in {"refused", "failed"}, Grown,
         Known(h), RequestOK(h), h.at \notin {"idle", "done"},
         answer = "refused" \/ Spent(h) => Lost(h),
         ~Lost(h) => tokens'[h.token].live
  PROVE  Follows(h, Answered(h, answer)) /\ Known(Answered(h, answer))
<1> DEFINE k == Answered(h, answer)
<1>1. CASE k = Idle
  BY <1>1, IdleFollows
<1>2. CASE k # Idle
  <2>1. /\ h.tab # None /\ k.at = "done" /\ k.answer = answer /\ k.tab = h.tab
        /\ k.signIn = h.signIn /\ k.token = h.token /\ k.new = h.new
    BY <1>2, AnsweredIs
  <2> HIDE DEF k
  <2>2. Presents(k) = Presents(h) /\ Grants(k) = 0 /\ ~Spent(k) /\ ~HasNew(k)
    BY <2>1 DEF Presents, Grants, Spent, HasNew
  <2>3. Known(k)
    BY <2>1, <2>2 DEF Known
  <2>4. Asks(k) => Asks(h) /\ k.tab \in {h.tab, None}
    BY <2>1 DEF Asks
  <2>5. CASE Lost(h)
    BY <2>2, <2>3, <2>4, <2>5 DEF Follows, Lost, k
  <2>6. CASE ~Lost(h)
    <3>1. Clean(Presents(h))
      BY <2>6 DEF Lost, Clean, Grown
    <3>2. Serving(k)
      BY <2>1, <2>2, <2>6, <3>1 DEF Serving, RequestOK
    <3> QED BY <2>1, <2>2, <2>3, <2>4, <2>6, <3>2 DEF Follows, k
  <2> QED BY <2>5, <2>6
<1> QED BY <1>1, <1>2

(* A refresh that moves on, and presents the same token.                       *)
LEMMA StepFollows ==
  ASSUME NEW h \in Handler, NEW k, Grown,
         k.tab = h.tab, k.token = h.token, k.signIn = h.signIn,
         Known(h), RequestOK(h), h.at \notin {"idle", "done"}, ~h.signIn, h.token # 0, ~Spent(h),
         k.at \in {"reused", "expired", "active", "checked", "mint"},
         k.at \in {"reused", "expired"} => Lost(h),
         ~Lost(h) /\ k.at # "mint" => tokens'[h.token].live
  PROVE  Follows(h, k) /\ Known(k)
<1>1. Presents(k) = Presents(h) /\ Grants(k) = 0 /\ ~HasNew(k)
  BY DEF Presents, Grants, HasNew
<1>2. Known(k)
  BY <1>1 DEF Known
<1>3. Asks(k) => Asks(h) /\ k.tab \in {h.tab, None}
  BY DEF Asks
<1>4. CASE Lost(h)
  BY <1>1, <1>2, <1>3, <1>4 DEF Follows, Lost
<1>5. CASE ~Lost(h)
  <2>1. Clean(Presents(h))
    BY <1>5 DEF Lost, Clean, Grown
  <2>2. Serving(k)
    BY <1>1, <1>5, <2>1 DEF Serving, RequestOK, Spent
  <2> QED BY <1>1, <1>2, <1>3, <2>2 DEF Follows
<1> QED BY <1>4, <1>5

(* A sign-in holds no token until it is answered.                              *)
LEMMA SignInFollows ==
  ASSUME NEW h, NEW k, Presents(h) = 0, k.signIn, k.at \in {"arrived", "mint"}, k.token \in Issued \cup {0}
  PROVE  Follows(h, k) /\ Known(k)
<1>1. Presents(k) = 0 /\ Grants(k) = 0 /\ ~HasNew(k) /\ ~Asks(k)
  BY DEF Presents, Grants, HasNew, Asks
<1> QED BY <1>1 DEF Follows, Lost, Known

(* A request nobody waits for any more is lost, unless it holds nothing.         *)
LEMMA UnheardFollows ==
  ASSUME NEW h \in Handler, Known(h), Lost(h)
  PROVE  Follows(h, Unheard(h)) /\ Known(Unheard(h))
<1> DEFINE k == Unheard(h)
<1>1. CASE k = Idle
  BY <1>1, IdleFollows
<1>2. CASE k # Idle
  <2>1. /\ h.at # "done" /\ k.at = h.at /\ k.tab = None
        /\ k.signIn = h.signIn /\ k.token = h.token /\ k.new = h.new /\ k.answer = h.answer
    BY <1>2, UnheardIs
  <2> HIDE DEF k
  <2>2. /\ Presents(k) = Presents(h) /\ Grants(k) = 0 /\ (HasNew(k) <=> HasNew(h))
        /\ Asks(k) => Asks(h)
    BY <2>1 DEF Presents, Grants, HasNew, Asks
  <2> QED BY <2>1, <2>2 DEF Follows, Lost, Known, k
<1> QED BY <1>1, <1>2

-----------------------------------------------------------------------------
(* A step that leaves the tokens alone takes none out of service.            *)
LEMMA SparedIfUnchanged ==
  ASSUME UNCHANGED tokens
  PROVE  Spared
BY DEF Spared

(* Nor does one that revokes only in families it spoils.                     *)
LEMMA SparedIfSpoiled ==
  ASSUME RecordsTyped, NEW gone, tokens' = Revoked(gone),
         \A t \in gone \cap Issued : FamilyOf(t) \in spoiled'
  PROVE  Spared
<1>1. \A t \in Tokens : tokens[t].live /\ t \notin gone => tokens'[t].live
  BY RevokedFacts
<1> QED BY <1>1 DEF Spared, Issued

(* One request changes and the others stay.                                  *)
LEMMA OneChanges ==
  ASSUME RecordsTyped, NEW s \in Slots, NEW k, handlers' = [handlers EXCEPT ![s] = k]
  PROVE  handlers'[s] = k /\ \A r \in Slots \ {s} : handlers'[r] = handlers[r]
BY DEF RecordsTyped

(* One request moves, and no cookie changes.                                   *)
LEMMA OneTame ==
  ASSUME RecordsTyped, NEW s \in Slots, NEW k, handlers' = [handlers EXCEPT ![s] = k],
         Follows(handlers[s], k) /\ Known(k), Spared, UNCHANGED cookie
  PROVE  Tame
BY OneChanges DEF Tame, Follows

(* A step that moves no request and no cookie is tame.                       *)
LEMMA NoneTame ==
  ASSUME UNCHANGED <<handlers, cookie>>, Spared
  PROVE  Tame
BY DEF Tame, Follows

(* Refusing or failing a request is tame when its family is spoiled by it.   *)
LEMMA AnswerTame ==
  ASSUME RecordsTyped, NEW s \in Slots, NEW answer \in {"refused", "failed"}, Grown,
         Answers(s, answer), Known(handlers[s]), RequestOK(handlers[s]),
         handlers[s].at \notin {"idle", "done"},
         answer = "refused" \/ Spent(handlers[s]) => Lost(handlers[s]),
         ~Lost(handlers[s]) => tokens'[handlers[s].token].live, Spared, UNCHANGED cookie
  PROVE  Tame
<1> DEFINE h == handlers[s]
<1>1. h \in Handler
  BY DEF RecordsTyped
<1>2. /\ Known(h) /\ RequestOK(h) /\ h.at \notin {"idle", "done"}
      /\ answer = "refused" \/ Spent(h) => Lost(h)
      /\ ~Lost(h) => tokens'[h.token].live
  OBVIOUS
<1>3. handlers' = [handlers EXCEPT ![s] = Answered(h, answer)]
  BY DEF Answers
<1> HIDE DEF h
<1>4. Follows(h, Answered(h, answer)) /\ Known(Answered(h, answer))
  BY <1>1, <1>2, AnswerFollows
<1> QED BY <1>3, <1>4, OneTame DEF h

(* What a request that is not lost has now.                                    *)
LEMMA Unlost ==
  ASSUME Grown, NEW h, Known(h), RequestOK(h), ~Lost(h)
  PROVE  /\ Presents(h) = h.token /\ h.token \in Issued /\ ~h.signIn /\ h.at # "idle"
         /\ FamilyOf(h.token) \notin spoiled /\ FamilyOf(h.token) \notin spoiled'
         /\ h.tab \in Tabs /\ h.at \notin {"reused", "expired"}
         /\ ~Spent(h) => tokens[h.token].live
         /\ HasNew(h) => tokens[h.new].live
<1>1. /\ Presents(h) # 0 /\ FamilyOf(Presents(h)) \notin spoiled'
      /\ FamilyOf(Presents(h)) \notin spoiled
  BY DEF Lost, Grown
<1>2. Presents(h) = h.token /\ ~h.signIn /\ h.at # "idle"
  BY <1>1 DEF Presents
<1>3. Clean(Presents(h))
  BY <1>1 DEF Clean
<1> QED BY <1>1, <1>2, <1>3 DEF Known, RequestOK

(* The lookup of the presented token (jwt/refresh.ts:67).                    *)
LEMMA LookTame ==
  ASSUME IndInv, KnownInv, ServesInv, Grown, NEW s \in Slots, Look(s)
  PROVE  Tame
<1> DEFINE h == handlers[s]
<1>1. /\ RecordsTyped /\ h \in Handler /\ Known(h) /\ RequestOK(h)
      /\ h.at = "arrived" /\ ~h.signIn /\ UNCHANGED <<tokens, cookie>>
  BY DEF IndInv, RecordsTyped, KnownInv, ServesInv, Look, serverVars, clientVars
<1>2. Spared
  BY <1>1, SparedIfUnchanged
<1>3. ~Spent(h) /\ (~Lost(h) => tokens'[h.token].live)
  BY <1>1, Unlost DEF Spent, HasNew
<1>4. ASSUME NEW step \in {"reused", "expired", "active"}, Goes(s, step), h.token # 0,
             step \in {"reused", "expired"} => Lost(h)
      PROVE  Tame
  <2> DEFINE k == [h EXCEPT !.at = step]
  <2>1. k.at = step /\ k.tab = h.tab /\ k.token = h.token /\ k.signIn = h.signIn
    BY <1>1 DEF Handler
  <2>2. handlers' = [handlers EXCEPT ![s] = k]
    BY <1>4 DEF Goes
  <2> HIDE DEF k
  <2>3. Follows(h, k) /\ Known(k)
    <3> HIDE DEF h
    <3> QED BY <1>1, <1>3, <1>4, <2>1, StepFollows
  <2> QED BY <1>1, <1>2, <2>2, <2>3, OneTame
<1>5. CASE Answers(s, "refused") /\ Lost(h)
  BY <1>1, <1>2, <1>3, <1>5, AnswerTame
<1>6. \/ Answers(s, "refused") /\ (h.token = 0 \/ ~tokens[h.token].live)
      \/ Goes(s, "reused") /\ h.token # 0 /\ ~tokens[h.token].live
      \/ Goes(s, "expired") /\ h.token # 0 /\ tokens[h.token].stale
      \/ Goes(s, "active") /\ h.token # 0
  BY DEF Look
<1>7. h.token = 0 \/ ~tokens[h.token].live => Lost(h)
  BY <1>1, <1>3, Unlost DEF Lost, Presents
<1>8. h.token # 0 /\ tokens[h.token].stale => Lost(h)
  <2> SUFFICES ASSUME h.token # 0, tokens[h.token].stale PROVE Lost(h)
    OBVIOUS
  <2>1. h.token \in Issued /\ h.token \in Tokens
    BY <1>1 DEF Known, Issued
  <2>2. FamilyOf(h.token) \in spoiled
    BY <2>1 DEF KnownInv, FamilyOf
  <2>3. Presents(h) = h.token
    BY <1>1 DEF Presents
  <2> QED BY <2>2, <2>3 DEF Lost, Grown
<1> QED BY <1>4, <1>5, <1>6, <1>7, <1>8

(* The two refusals that revoke: of a reused token and of an expired one.    *)
LEMMA RevokeReusedTame ==
  ASSUME IndInv, KnownInv, ServesInv, Grown, NEW s \in Slots, RevokeReused(s) \/ RevokeExpired(s)
  PROVE  Tame
<1> DEFINE h == handlers[s]
<1>1. /\ RecordsTyped /\ h \in Handler /\ Known(h) /\ RequestOK(h) /\ Grown
      /\ h.at \in {"reused", "expired"} /\ UNCHANGED cookie /\ Answers(s, "refused")
  BY DEF IndInv, RecordsTyped, KnownInv, ServesInv, RevokeReused, RevokeExpired, clientVars
<1>2. Lost(h)
  BY <1>1, Unlost
<1>3. h.token \in Issued /\ ~h.signIn /\ FamilyOf(h.token) \in spoiled'
  <2>1. h.token \in Issued /\ ~h.signIn /\ h.token # 0
    BY <1>1 DEF Known
  <2> QED BY <1>1, <1>2, <2>1 DEF Lost, Presents
<1>4. Spared
  <2>1. \E gone : /\ tokens' = Revoked(gone)
                  /\ \A t \in gone \cap Issued : FamilyOf(t) = FamilyOf(h.token)
    <3>1. CASE RevokeReused(s)
      <4>1. tokens' = Revoked(LiveIn(FamilyOf(h.token)))
        BY <3>1 DEF RevokeReused
      <4>2. \A t \in LiveIn(FamilyOf(h.token)) \cap Issued : FamilyOf(t) = FamilyOf(h.token)
        BY SessionAssumption DEF LiveIn, FamilyOf, Issued, Tokens
      <4> QED BY <4>1, <4>2
    <3>2. CASE RevokeExpired(s)
      BY <3>2 DEF RevokeExpired
    <3> QED BY <3>1, <3>2
  <2> QED BY <1>1, <1>3, <2>1, SparedIfSpoiled
<1> QED BY <1>1, <1>2, <1>4, AnswerTame

(* The check of the account and its role.                                    *)
LEMMA CheckUserTame ==
  ASSUME IndInv, KnownInv, ServesInv, Grown, NEW s \in Slots, CheckUser(s)
  PROVE  Tame
<1> DEFINE h == handlers[s]
           k == [h EXCEPT !.at = "checked", !.role = account.role]
<1>1. /\ RecordsTyped /\ h \in Handler /\ Known(h) /\ RequestOK(h)
      /\ h.at = "active" /\ UNCHANGED <<tokens, cookie>>
  BY DEF IndInv, RecordsTyped, KnownInv, ServesInv, CheckUser, serverVars, clientVars
<1>2. Spared /\ ~Spent(h) /\ (~Lost(h) => tokens'[h.token].live) /\ ~h.signIn /\ h.token # 0
  BY <1>1, SparedIfUnchanged, Unlost DEF Spent, HasNew, Known
<1>3. \/ Answers(s, "refused") /\ FamilyOf(h.token) \in spoiled'
      \/ handlers' = [handlers EXCEPT ![s] = k]
  BY DEF CheckUser
<1>4. CASE Answers(s, "refused") /\ FamilyOf(h.token) \in spoiled'
  <2>1. Lost(h)
    BY <1>1, <1>2, <1>4 DEF Lost, Presents
  <2> QED BY <1>1, <1>2, <1>4, <2>1, AnswerTame
<1>5. CASE handlers' = [handlers EXCEPT ![s] = k]
  <2>1. k.at = "checked" /\ k.tab = h.tab /\ k.token = h.token /\ k.signIn = h.signIn
    BY <1>1 DEF Handler
  <2> HIDE DEF k
  <2>2. Follows(h, k) /\ Known(k)
    <3> HIDE DEF h
    <3> QED BY <1>1, <1>2, <2>1, StepFollows
  <2> QED BY <1>1, <1>2, <1>5, <2>2, OneTame
<1> QED BY <1>3, <1>4, <1>5

(* The claim: a rotation takes out of service the token it presents itself.  *)
LEMMA ClaimTame ==
  ASSUME IndInv, KnownInv, ServesInv, Grown, NEW s \in Slots, Claim(s)
  PROVE  Tame
<1> DEFINE h == handlers[s]
           k == [h EXCEPT !.at = "mint"]
<1>1. /\ RecordsTyped /\ h \in Handler /\ Known(h) /\ RequestOK(h)
      /\ h.at = "checked" /\ UNCHANGED cookie
  BY DEF IndInv, RecordsTyped, KnownInv, ServesInv, Claim, clientVars
<1>2. ~Spent(h) /\ (~Lost(h) => Claimable(h.token)) /\ ~h.signIn /\ h.token # 0
  BY <1>1, Unlost DEF Spent, HasNew, Known, Claimable
<1>3. \/ Claimable(h.token) /\ tokens' = Revoked({h.token}) /\ handlers' = [handlers EXCEPT ![s] = k]
      \/ Answers(s, "refused") /\ ~Claimable(h.token) /\ UNCHANGED tokens
  BY DEF Claim, Goes
<1>4. CASE Answers(s, "refused") /\ ~Claimable(h.token) /\ UNCHANGED tokens
  <2>1. Lost(h)
    BY <1>2, <1>4
  <2> QED BY <1>1, <1>2, <1>4, <2>1, AnswerTame, SparedIfUnchanged
<1>5. CASE tokens' = Revoked({h.token}) /\ handlers' = [handlers EXCEPT ![s] = k]
  <2>1. k.at = "mint" /\ k.tab = h.tab /\ k.token = h.token /\ k.signIn = h.signIn
    BY <1>1 DEF Handler
  <2> HIDE DEF k
  <2>2. Follows(h, k) /\ Known(k)
    <3> HIDE DEF h
    <3> QED BY <1>1, <1>2, <2>1, StepFollows
  <2>3. Presents(h) = h.token /\ Presents(k) = h.token /\ Spent(k)
    BY <1>1, <1>2, <2>1 DEF Presents, Spent
  <2>4. handlers'[s] = k
    BY <1>1, <1>5, OneChanges
  <2>5. \A t \in Tokens \ {h.token} : tokens[t].live => tokens'[t].live
    BY <1>1, <1>5, RevokedFacts
  <2>6. Spared
    BY <1>2, <2>3, <2>4, <2>5 DEF Spared, Issued
  <2> QED BY <1>1, <1>5, <2>2, <2>6, OneTame
<1> QED BY <1>3, <1>4, <1>5

(* A sign-in that passes the check of the account.                           *)
LEMMA AdmitTame ==
  ASSUME IndInv, KnownInv, ServesInv, Grown, NEW s \in Slots, Admit(s)
  PROVE  Tame
<1> DEFINE h == handlers[s]
           k == [h EXCEPT !.at = "mint", !.role = account.role]
<1>1. /\ RecordsTyped /\ h \in Handler /\ Known(h) /\ RequestOK(h)
      /\ h.at = "arrived" /\ h.signIn /\ UNCHANGED <<tokens, cookie>>
  BY DEF IndInv, RecordsTyped, KnownInv, ServesInv, Admit, serverVars, clientVars
<1>2. Spared /\ Presents(h) = 0 /\ Lost(h)
  BY <1>1, SparedIfUnchanged DEF Lost, Presents
<1>3. Answers(s, "refused") \/ handlers' = [handlers EXCEPT ![s] = k]
  BY DEF Admit
<1>4. CASE Answers(s, "refused")
  BY <1>1, <1>2, <1>4, AnswerTame
<1>5. CASE handlers' = [handlers EXCEPT ![s] = k]
  <2>1. k.at = "mint" /\ k.token = h.token /\ k.signIn
    BY <1>1 DEF Handler
  <2> HIDE DEF k
  <2>2. Follows(h, k) /\ Known(k)
    <3> HIDE DEF h
    <3> QED BY <1>1, <1>2, <2>1, SignInFollows DEF Known
  <2> QED BY <1>1, <1>2, <1>5, <2>2, OneTame
<1> QED BY <1>3, <1>4, <1>5

(* The rotation is linked to its new token and answered.                     *)
LEMMA LinkTame ==
  ASSUME IndInv, KnownInv, ServesInv, Grown, NEW s \in Slots, LinkSuccessor(s)
  PROVE  Tame
<1> DEFINE h == handlers[s]
           k == Answered(h, "ok")
           linked == [tokens[h.token] EXCEPT !.next = h.new]
<1>1. /\ RecordsTyped /\ h \in Handler /\ Known(h) /\ RequestOK(h)
      /\ h.at = "minted" /\ UNCHANGED cookie /\ handlers' = [handlers EXCEPT ![s] = k]
      /\ tokens' = [tokens EXCEPT ![h.token] = linked]
  BY DEF IndInv, RecordsTyped, KnownInv, ServesInv, LinkSuccessor, clientVars, Answers
<1>2. ~h.signIn /\ h.token \in Issued /\ h.token \in Tokens
  BY <1>1 DEF Known, Issued
<1>3. \A t \in Tokens : tokens'[t].live = tokens[t].live
  <2>1. linked.live = tokens[h.token].live
    BY <1>1, <1>2 DEF RecordsTyped, Token
  <2> HIDE DEF linked, h
  <2> QED BY <1>1, <2>1 DEF RecordsTyped
<1>4. Spared
  BY <1>3 DEF Spared, Issued
<1>5. Follows(h, k) /\ Known(k)
  <2> HIDE DEF h
  <2>0. k = Answered(h, "ok")
    OBVIOUS
  <2>1. CASE k = Idle
    <3>1. Lost(h)
      BY <1>1, <2>1, AnsweredIs, Unlost, IdleIs, SessionAssumption
    <3> QED BY <2>1, <3>1, IdleFollows
  <2>2. CASE k # Idle
    <3>1. /\ k.at = "done" /\ k.answer = "ok" /\ k.tab = h.tab
          /\ k.signIn = h.signIn /\ k.token = h.token /\ k.new = h.new
      BY <1>1, <2>2, AnsweredIs
    <3> HIDE DEF k
    <3>2. /\ Presents(k) = Presents(h) /\ Grants(k) = 0 /\ Spent(h) /\ Spent(k)
          /\ HasNew(k) /\ HasNew(h) /\ Asks(h)
      BY <1>1, <1>2, <3>1 DEF Presents, Grants, Spent, HasNew, Asks
    <3>3. Known(k)
      BY <1>1, <3>1, <3>2 DEF Known
    <3>4. CASE Lost(h)
      BY <3>1, <3>2, <3>3, <3>4 DEF Follows, Lost
    <3>5. CASE ~Lost(h)
      <4>1. h.tab \in Tabs /\ tokens[h.new].live /\ h.new \in Tokens
        BY <1>1, <3>2, <3>5, Unlost DEF Known, Issued
      <4>2. Serving(k)
        BY <1>3, <3>1, <3>2, <4>1 DEF Serving
      <4> QED BY <3>1, <3>2, <3>3, <4>2 DEF Follows
    <3> QED BY <3>4, <3>5
  <2> QED BY <2>1, <2>2
<1> HIDE DEF k
<1> QED BY <1>1, <1>4, <1>5, OneTame

(* A handler that fails part way spoils the family it held.                  *)
LEMMA FailTame ==
  ASSUME IndInv, KnownInv, ServesInv, Grown, NEW s \in Slots, Fail(s)
  PROVE  Tame
<1> DEFINE h == handlers[s]
<1>1. /\ RecordsTyped /\ h \in Handler /\ Known(h) /\ RequestOK(h)
      /\ h.at \notin {"idle", "done"} /\ UNCHANGED <<tokens, cookie>> /\ Answers(s, "failed")
      /\ spoiled' = spoiled \cup FamilyAtRisk(s)
  BY DEF IndInv, RecordsTyped, KnownInv, ServesInv, Fail, serverVars, clientVars
<1>2. Spent(h) => Lost(h)
  <2> SUFFICES ASSUME Spent(h), h.token \in Issued, Presents(h) = h.token
               PROVE  FamilyOf(h.token) \in spoiled'
    BY <1>1 DEF Lost, Presents, Known
  <2>1. FamilyAtRisk(s) = {FamilyOf(h.token)} \ {0}
    BY <1>1 DEF FamilyAtRisk, Spent, HasNew
  <2> QED BY <1>1, <2>1 DEF Grown
<1>3. ~Lost(h) => tokens'[h.token].live
  BY <1>1, <1>2, Unlost
<1> QED BY <1>1, <1>2, <1>3, AnswerTame, SparedIfUnchanged

(* A rotation gets its new token, in the family of the one it spent.           *)
LEMMA RotationTame ==
  ASSUME IndInv, KnownInv, ServesInv, Grown, NEW s \in Slots, Mint(s), ~handlers[s].signIn
  PROVE  Tame
<1> DEFINE h == handlers[s]
           new == Cardinality(Issued) + 1
           k == [h EXCEPT !.at = "minted", !.new = new]
<1>1. /\ RecordsTyped /\ h \in Handler /\ Known(h) /\ RequestOK(h)
      /\ h.at = "mint" /\ ~h.signIn /\ UNCHANGED cookie /\ handlers' = [handlers EXCEPT ![s] = k]
  BY DEF IndInv, RecordsTyped, KnownInv, ServesInv, Mint, clientVars
<1>2. new \in Tokens /\ tokens' = [tokens EXCEPT ![new] = Minted(s)] /\ Minted(s).live
  BY <1>1, MintFacts DEF Minted
<1>3. tokens'[new].live /\ \A t \in Tokens : tokens[t].live => tokens'[t].live
  <2> HIDE DEF new
  <2> QED BY <1>1, <1>2 DEF RecordsTyped
<1>4. Spared
  BY <1>3 DEF Spared, Issued
<1>5. /\ k.at = "minted" /\ k.new = new /\ k.tab = h.tab /\ k.token = h.token
      /\ k.signIn = h.signIn
  BY <1>1 DEF Handler
<1>6. Follows(h, k)
  <2> HIDE DEF h, k, new
  <2>1. /\ Presents(k) = Presents(h) /\ Grants(k) = 0 /\ Spent(h) /\ Spent(k) /\ Asks(h)
    BY <1>1, <1>5 DEF Presents, Grants, Spent, HasNew, Asks
  <2>2. CASE Lost(h)
    BY <1>5, <2>1, <2>2 DEF Follows, Lost
  <2>3. CASE ~Lost(h)
    <3>1. h.tab \in Tabs
      BY <1>1, <2>3, Unlost
    <3>2. Serving(k)
      BY <1>3, <1>5, <2>1, <3>1 DEF Serving
    <3> QED BY <1>5, <2>1, <3>2 DEF Follows
  <2> QED BY <2>2, <2>3
<1>7. handlers'[s] = k /\ \A r \in Slots \ {s} : handlers'[r] = handlers[r]
  BY <1>1, OneChanges
<1> HIDE DEF k
<1> QED BY <1>1, <1>4, <1>6, <1>7 DEF Tame, Follows

(* The deny list entry of an eviction, and the session it starts anew.       *)
LEMMA DenyTame ==
  ASSUME IndInv, KnownInv, Grown, Deny
  PROVE  Tame
<1> DEFINE fresh == [Idle EXCEPT !.at = "mint", !.signIn = TRUE,
                       !.tab = eviction.tab, !.role = eviction.role]
<1>1. fresh.at = "mint" /\ fresh.signIn /\ fresh.token = 0
  BY DEF Idle
<1>2. Spared /\ RecordsTyped
  BY SparedIfUnchanged DEF Deny, IndInv
<1>3. \A b \in Browsers : cookie'[b] \in {cookie[b], 0}
  BY <1>2 DEF Deny, RecordsTyped
<1>4. \/ UNCHANGED handlers
      \/ \E s \in Slots : handlers[s].at = "idle" /\ handlers' = [handlers EXCEPT ![s] = fresh]
  BY DEF Deny, FreeSlot
<1> HIDE DEF fresh
<1>5. CASE UNCHANGED handlers
  BY <1>2, <1>3, <1>5 DEF Tame, Follows
<1>6. ASSUME NEW s \in Slots, handlers[s].at = "idle", handlers' = [handlers EXCEPT ![s] = fresh]
      PROVE  Tame
  <2>1. Presents(handlers[s]) = 0
    BY <1>6 DEF Presents
  <2>2. Follows(handlers[s], fresh) /\ Known(fresh)
    BY <1>1, <2>1, SignInFollows
  <2>3. handlers'[s] = fresh /\ \A r \in Slots \ {s} : handlers'[r] = handlers[r]
    BY <1>2, <1>6, OneChanges
  <2> QED BY <1>2, <1>3, <2>2, <2>3 DEF Tame, Follows
<1> QED BY <1>4, <1>5, <1>6

(* A tab signs in.                                                           *)
LEMMA SignInTame ==
  ASSUME IndInv, KnownInv, Grown, NEW t \in Tabs, NEW s \in Slots, SignIn(t, s)
  PROVE  Tame
<1> DEFINE fresh == [Idle EXCEPT !.at = "arrived", !.tab = t, !.signIn = TRUE]
<1>1. fresh.at = "arrived" /\ fresh.signIn /\ fresh.token = 0
  BY DEF Idle
<1>2. /\ Spared /\ RecordsTyped /\ UNCHANGED cookie /\ handlers[s].at = "idle"
      /\ handlers' = [handlers EXCEPT ![s] = fresh]
  BY SparedIfUnchanged DEF SignIn, IndInv, serverVars, clientVars, FreeSlot
<1> HIDE DEF fresh
<1>3. Presents(handlers[s]) = 0
  BY <1>2 DEF Presents
<1>4. Follows(handlers[s], fresh) /\ Known(fresh)
  BY <1>1, <1>3, SignInFollows
<1> QED BY <1>2, <1>4, OneTame

(* An answer that brings no token, or a broken connection.                     *)
LEMMA AnsweredTame ==
  ASSUME IndInv, KnownInv, Grown, NEW t \in Tabs, NEW s \in Slots,
         SignedIn(t, s) \/ Receive(t, s), handlers[s].answer # "ok"
  PROVE  Tame
<1>1. /\ Spared /\ RecordsTyped /\ UNCHANGED cookie /\ handlers[s].at = "done"
      /\ handlers' = [handlers EXCEPT ![s] = Idle]
  BY SparedIfUnchanged DEF SignedIn, Receive, IndInv, serverVars
<1>2. ~Spent(handlers[s])
  BY <1>1 DEF Spent, HasNew
<1> QED BY <1>1, <1>2, IdleFollows, OneTame

(* A tab loses its connection.                                               *)
LEMMA LostTame ==
  ASSUME IndInv, KnownInv, Grown, NEW t \in Tabs, NEW s \in Slots, LoseSignIn(t, s) \/ Lose(t, s)
  PROVE  Tame
<1> DEFINE h == handlers[s]
<1>1. /\ Spared /\ RecordsTyped /\ UNCHANGED cookie /\ h \in Handler /\ Known(h)
      /\ handlers' = [handlers EXCEPT ![s] = Unheard(h)]
  BY SparedIfUnchanged DEF LoseSignIn, Lose, IndInv, KnownInv, RecordsTyped, serverVars
<1>2. Lost(h)
  <2>1. CASE LoseSignIn(t, s)
    BY <2>1 DEF LoseSignIn, Lost, Presents
  <2>2. CASE Lose(t, s)
    <3>1. spoiled' = spoiled \cup ({FamilyOf(h.token)} \ {0})
      BY <2>2 DEF Lose
    <3> QED BY <1>1, <3>1 DEF Known, Lost, Presents, Grown
  <2> QED BY <2>1, <2>2
<1> HIDE DEF h
<1>3. Follows(h, Unheard(h)) /\ Known(Unheard(h))
  BY <1>1, <1>2, UnheardFollows
<1> QED BY <1>1, <1>3, OneTame DEF h

(* A tab is closed.                                                          *)
LEMMA CloseTame ==
  ASSUME IndInv, KnownInv, Grown, NEW t \in Tabs, CloseTab(t)
  PROVE  Tame
<1>1. /\ Spared /\ RecordsTyped /\ UNCHANGED cookie
      /\ handlers' = [s \in Slots |-> IF handlers[s].tab = t
                                      THEN Unheard(handlers[s]) ELSE handlers[s]]
      /\ spoiled' = spoiled \cup ({FamilyOf(handlers[s].token) : s \in Asking(t)} \ {0})
  BY SparedIfUnchanged DEF CloseTab, IndInv, serverVars
<1>2. ASSUME NEW s \in Slots, handlers[s].tab = t
      PROVE  Follows(handlers[s], Unheard(handlers[s])) /\ Known(Unheard(handlers[s]))
  <2> DEFINE h == handlers[s]
  <2>1. h \in Handler /\ Known(h)
    BY <1>1 DEF RecordsTyped, KnownInv
  <2>2. Lost(h)
    <3>1. CASE s \in Asking(t)
      BY <1>1, <2>1, <3>1 DEF Known, Lost, Presents, Grown
    <3>2. CASE s \notin Asking(t)
      BY <1>2, <3>2 DEF Asking, Lost, Presents
    <3> QED BY <3>1, <3>2
  <2> HIDE DEF h
  <2>3. Follows(h, Unheard(h)) /\ Known(Unheard(h))
    BY <2>1, <2>2, UnheardFollows
  <2> QED BY <2>3 DEF h
<1>3. ASSUME NEW s \in Slots
      PROVE  /\ Follows(handlers[s], handlers'[s])
             /\ handlers'[s] = handlers[s] \/ Known(handlers'[s])
  <2>1. CASE handlers[s].tab = t
    <3>1. handlers'[s] = Unheard(handlers[s])
      BY <1>1, <2>1
    <3> QED BY <1>2, <2>1, <3>1
  <2>2. CASE handlers[s].tab # t
    <3>1. handlers'[s] = handlers[s]
      BY <1>1, <2>2
    <3> QED BY <3>1 DEF Follows
  <2> QED BY <2>1, <2>2
<1> QED BY <1>1, <1>3 DEF Tame

(* An eviction spoils every family there is, an expiry the one it meets.        *)
LEMMA EvictTame ==
  ASSUME IndInv, Grown, RevokeAll
  PROVE  Tame
<1>1. /\ RecordsTyped /\ tokens' = Revoked(Issued) /\ UNCHANGED <<handlers, cookie>>
      /\ spoiled' = spoiled \cup {tokens[t].family : t \in Issued}
  BY DEF IndInv, RevokeAll, clientVars
<1>2. \A t \in Issued \cap Issued : FamilyOf(t) \in spoiled'
  BY <1>1 DEF FamilyOf, Grown
<1>3. Spared
  BY <1>1, <1>2, SparedIfSpoiled
<1> QED BY <1>1, <1>3, NoneTame

(* A token passes its end of life.                                           *)
LEMMA ExpireTame ==
  ASSUME IndInv, Grown, NEW t \in Tokens, Expire(t)
  PROVE  Tame
<1>1. /\ RecordsTyped /\ tokens' = [tokens EXCEPT ![t].stale = TRUE]
      /\ UNCHANGED <<handlers, cookie>>
  BY DEF IndInv, Expire, clientVars
<1>2. [tokens[t] EXCEPT !.stale = TRUE].live = tokens[t].live
  BY <1>1 DEF RecordsTyped, Token
<1>3. \A u \in Tokens : tokens'[u].live = tokens[u].live
  BY <1>1, <1>2 DEF RecordsTyped
<1>4. Spared
  BY <1>3 DEF Spared, Issued
<1> QED BY <1>1, <1>4, NoneTame

-----------------------------------------------------------------------------
(* Every step adds to the families and to what is spoiled, and takes nothing away.*)
LEMMA GrownStep ==
  ASSUME IndInv, [Next]_vars
  PROVE  Grown
<1>1. \A t \in Issued : t \in Tokens /\ t # 0 /\ FamilyOf(t) \in Issued /\ FamilyOf(t) # 0
  BY SessionAssumption DEF IndInv, IssuedInOrder, Issued, Tokens, FamilyOf
<1>2. \A t \in Issued : tokens'[t].family = tokens[t].family
  <2>0. RecordsTyped
    BY DEF IndInv
  <2>1. CASE Quiet
    BY <1>1, <2>1 DEF Quiet, KeepsFamilies
  <2>2. CASE RevokeAll
    BY <1>1, <2>0, <2>2, RevokedFacts DEF RevokeAll
  <2>3. ASSUME NEW s \in Slots, Claims(s) PROVE \A t \in Issued : tokens'[t].family = tokens[t].family
    BY <1>1, <2>0, <2>3, RevokedFacts DEF Claims
  <2>4. ASSUME NEW s \in Slots, Mint(s) PROVE \A t \in Issued : tokens'[t].family = tokens[t].family
    <3>1. Cardinality(Issued) + 1 \notin Issued
      BY IssuedIsFinite DEF IndInv, IssuedInOrder
    <3>2. tokens' = [tokens EXCEPT ![Cardinality(Issued) + 1] = Minted(s)]
      BY <2>0, <2>4, MintFacts
    <3> QED BY <1>1, <2>0, <3>1, <3>2 DEF RecordsTyped
  <2> QED BY <2>0, <2>1, <2>2, <2>3, <2>4, StepKinds
<1>3. spoiled \subseteq spoiled'
  <2>1. ASSUME NEW s \in Slots, Handle(s) \/ Fail(s) PROVE spoiled \subseteq spoiled'
    BY <2>1 DEF historyVars, Handle, Fail, Look, RevokeReused, RevokeExpired, CheckUser, Claim,
                Admit, Mint, LinkSuccessor
  <2>2. ASSUME NEW t \in Tabs, NEW s \in Slots,
               \/ SignIn(t, s) \/ SignedIn(t, s) \/ LoseSignIn(t, s)
               \/ Send(t, s) \/ Receive(t, s) \/ Lose(t, s)
        PROVE  spoiled \subseteq spoiled'
    BY <2>2 DEF historyVars, SignIn, SignedIn, LoseSignIn, Send, Receive, Lose
  <2>3. ASSUME NEW t \in Tabs, SignOut(t) \/ CloseTab(t) \/ \E origin \in Origins : Refresh(t, origin)
        PROVE  spoiled \subseteq spoiled'
    BY <2>3 DEF historyVars, SignOut, CloseTab, Refresh
  <2>4. CASE \/ UNCHANGED vars \/ RevokeAll \/ Deny \/ Unsuspend \/ Tick
             \/ \E kind \in Kinds : Begin(kind)
             \/ \E t \in Tokens : Expire(t)
    BY <2>4 DEF vars, historyVars, RevokeAll, Deny, Unsuspend, Tick, Begin, LogOut, Recover, Expire
  <2> QED BY <2>1, <2>2, <2>3, <2>4 DEF Next
<1> QED BY <1>1, <1>2, <1>3 DEF Grown, Issued, FamilyOf

(* Every step is tame but four: a sign-in is granted a token, a refresh is sent,  *)
(* and a new token arrives at its tab.                                         *)
LEMMA CauseKinds ==
  ASSUME IndInv, KnownInv, ServesInv, Grown, [Next]_vars
  PROVE  \/ Tame
         \/ \E s \in Slots : Mint(s) /\ handlers[s].signIn
         \/ \E t \in Tabs, s \in Slots :
              Send(t, s) \/ ((SignedIn(t, s) \/ Receive(t, s)) /\ handlers[s].answer = "ok")
<1>1. ASSUME NEW s \in Slots, Handle(s) \/ Fail(s)
      PROVE  Tame \/ (Mint(s) /\ handlers[s].signIn)
  BY <1>1, LookTame, RevokeReusedTame, CheckUserTame, ClaimTame, AdmitTame, RotationTame,
     LinkTame, FailTame DEF Handle
<1>2. ASSUME NEW t \in Tabs, NEW s \in Slots,
             \/ SignIn(t, s) \/ SignedIn(t, s) \/ LoseSignIn(t, s)
             \/ Send(t, s) \/ Receive(t, s) \/ Lose(t, s)
      PROVE  \/ Tame \/ Send(t, s)
             \/ (SignedIn(t, s) \/ Receive(t, s)) /\ handlers[s].answer = "ok"
  BY <1>2, SignInTame, AnsweredTame, LostTame
<1>3. CASE \/ UNCHANGED vars \/ Unsuspend \/ Tick
           \/ \E kind \in Kinds : Begin(kind)
           \/ \E t \in Tabs : SignOut(t) \/ \E origin \in Origins : Refresh(t, origin)
  <2>1. UNCHANGED <<tokens, handlers, cookie>>
    BY <1>3 DEF vars, serverVars, clientVars, Unsuspend, Tick, Begin, LogOut, Recover, SignOut, Refresh
  <2> QED BY <2>1, SparedIfUnchanged, NoneTame
<1> QED BY <1>1, <1>2, <1>3, DenyTame, CloseTame, EvictTame, ExpireTame DEF Next

-----------------------------------------------------------------------------
(* An expired token stays accounted for, and no token is issued expired.        *)
LEMMA StaleStep ==
  ASSUME IndInv, KnownInv, Grown, [Next]_vars, NEW t \in Tokens, tokens'[t].stale
  PROVE  tokens'[t].family \in spoiled'
<1> USE DEF RecordsTyped
<1>0. RecordsTyped /\ tokens[t] \in Token
  BY DEF IndInv
<1>1. SUFFICES ASSUME ~(tokens[t].stale /\ tokens'[t].family = tokens[t].family)
               PROVE  tokens'[t].family \in spoiled'
  BY <1>0 DEF KnownInv, Grown
<1>2. CASE UNCHANGED tokens
  BY <1>1, <1>2
<1>3. CASE \E gone : tokens' = Revoked(gone)
  <2>1. tokens'[t] = tokens[t] \/ tokens'[t] = [tokens[t] EXCEPT !.live = FALSE]
    BY <1>3 DEF Revoked
  <2> QED BY <1>0, <1>1, <2>1 DEF Token
<1>4. ASSUME NEW s \in Slots, Mint(s) PROVE FALSE
  <2>1. tokens' = [tokens EXCEPT ![Cardinality(Issued) + 1] = Minted(s)] /\ ~Minted(s).stale
    BY <1>0, <1>4, MintFacts DEF Minted
  <2> QED BY <1>0, <1>1, <2>1
<1>5. ASSUME NEW s \in Slots, LinkSuccessor(s) PROVE FALSE
  <2>1. tokens'[t] = tokens[t] \/ tokens'[t] = [tokens[t] EXCEPT !.next = handlers[s].new]
    BY <1>0, <1>5 DEF LinkSuccessor
  <2> QED BY <1>0, <1>1, <2>1 DEF Token
<1>6. ASSUME NEW u \in Tokens, Expire(u) PROVE tokens'[t].family \in spoiled'
  <2>1. CASE t # u
    BY <1>0, <1>1, <1>6, <2>1 DEF Expire
  <2>2. CASE t = u
    <3>1. tokens'[t] = [tokens[t] EXCEPT !.stale = TRUE]
      BY <1>0, <1>6, <2>2 DEF Expire
    <3>2. tokens'[t].family = tokens[t].family
      BY <1>0, <3>1 DEF Token
    <3> QED BY <1>6, <2>2, <3>2 DEF Expire
  <2> QED BY <2>1, <2>2
<1>7. ASSUME NEW s \in Slots, Handle(s) \/ Fail(s) PROVE tokens'[t].family \in spoiled'
  <2>1. \/ UNCHANGED tokens \/ \E gone : tokens' = Revoked(gone) \/ Mint(s) \/ LinkSuccessor(s)
    BY <1>7 DEF Handle, Fail, serverVars, Look, RevokeReused, RevokeExpired, CheckUser, Claim, Admit
  <2> QED BY <1>2, <1>3, <1>4, <1>5, <2>1
<1>8. ASSUME NEW u \in Tabs, NEW s \in Slots,
             \/ SignIn(u, s) \/ SignedIn(u, s) \/ LoseSignIn(u, s)
             \/ Send(u, s) \/ Receive(u, s) \/ Lose(u, s)
      PROVE  UNCHANGED tokens
  BY <1>8 DEF serverVars, SignIn, SignedIn, LoseSignIn, Send, Receive, Lose
<1>9. CASE \/ UNCHANGED vars \/ Deny \/ Unsuspend \/ Tick
           \/ \E kind \in Kinds : Begin(kind)
           \/ \E u \in Tabs : SignOut(u) \/ CloseTab(u) \/ \E origin \in Origins : Refresh(u, origin)
  <2>1. UNCHANGED tokens
    BY <1>9 DEF vars, serverVars, Deny, Unsuspend, Tick, Begin, LogOut, Recover, SignOut, CloseTab, Refresh
  <2> QED BY <1>2, <2>1
<1>10. CASE RevokeAll
  BY <1>3, <1>10 DEF RevokeAll
<1> QED BY <1>2, <1>6, <1>7, <1>8, <1>9, <1>10 DEF Next

(* What is known stays known.                                                  *)
LEMMA KnownKeeps ==
  ASSUME Grown, NEW h, Known(h), NEW s \in Slots, handlers'[s] = h
  PROVE  Known(handlers[s])'
BY DEF Grown, Known, HasNew, FamilyOf

(* What a mint leaves of its request.                                          *)
LEMMA MintIs ==
  ASSUME IndInv, KnownInv, NEW s \in Slots, Mint(s)
  PROVE  LET h == handlers[s]
             k == handlers'[s]
             new == Cardinality(Issued) + 1
         IN /\ new \in Tokens \ Issued /\ tokens' = [tokens EXCEPT ![new] = Minted(s)]
            /\ Minted(s).live /\ ~Minted(s).stale /\ h.at = "mint"
            /\ Minted(s).family = IF h.signIn THEN new ELSE FamilyOf(h.token)
            /\ \A r \in Slots \ {s} : handlers'[r] = handlers[r]
            /\ \/ k = Idle
               \/ /\ k.at = (IF h.signIn THEN "done" ELSE "minted") /\ k.new = new
                  /\ k.tab = h.tab /\ k.token = h.token /\ k.signIn = h.signIn
<1> DEFINE h == handlers[s]
           new == Cardinality(Issued) + 1
           named == [h EXCEPT !.new = new]
           minted == [h EXCEPT !.at = "minted", !.new = new]
           k == IF h.signIn THEN Answered(named, "ok") ELSE minted
<1>1. RecordsTyped /\ h \in Handler
  BY DEF IndInv, RecordsTyped
<1>2. new \in Tokens /\ tokens' = [tokens EXCEPT ![new] = Minted(s)]
  BY <1>1, MintFacts
<1>3. new \notin Issued
  BY IssuedIsFinite DEF IndInv, IssuedInOrder
<1>4. handlers' = [handlers EXCEPT ![s] = k] /\ h.at = "mint"
  BY DEF Mint
<1>5. /\ named \in Handler /\ named.tab = h.tab /\ named.token = h.token
      /\ named.signIn = h.signIn /\ named.new = new
      /\ minted.tab = h.tab /\ minted.token = h.token
      /\ minted.signIn = h.signIn /\ minted.new = new /\ minted.at = "minted"
  <2>1. new \in 0 .. MaxTokens
    BY <1>2 DEF Tokens
  <2> HIDE DEF new, h
  <2> QED BY <1>1, <2>1 DEF Handler
<1>6. \/ k = Idle
      \/ /\ k.at = (IF h.signIn THEN "done" ELSE "minted") /\ k.new = new
         /\ k.tab = h.tab /\ k.token = h.token /\ k.signIn = h.signIn
  <2>0. k = IF h.signIn THEN Answered(named, "ok") ELSE minted
    OBVIOUS
  <2> HIDE DEF k, named, minted, h, new
  <2> QED BY <1>5, <2>0, AnsweredIs
<1> HIDE DEF k
<1>7. handlers'[s] = k /\ \A r \in Slots \ {s} : handlers'[r] = handlers[r]
  BY <1>1, <1>4, OneChanges
<1> QED BY <1>2, <1>3, <1>4, <1>6, <1>7 DEF Minted

(* What a refresh carries when it is sent.                                     *)
LEMMA SendIs ==
  ASSUME IndInv, NEW t \in Tabs, NEW s \in Slots, Send(t, s)
  PROVE  LET k == handlers'[s]
         IN /\ k.at = "arrived" /\ k.tab = t /\ k.token = cookie[Home[t]] /\ ~k.signIn
            /\ handlers[s].at = "idle" /\ UNCHANGED <<tokens, cookie, spoiled, turns>>
            /\ tabs[t].flight = "queued" /\ (HasLocks => Head(turns[Home[t]]) = t)
            /\ \A r \in Slots \ {s} : handlers'[r] = handlers[r]
<1> DEFINE k == [Idle EXCEPT !.at = "arrived", !.tab = t, !.token = cookie[Home[t]]]
<1>1. k.at = "arrived" /\ k.tab = t /\ k.token = cookie[Home[t]] /\ ~k.signIn
  BY DEF Idle
<1>2. RecordsTyped /\ handlers' = [handlers EXCEPT ![s] = k]
  BY DEF Send, IndInv
<1> HIDE DEF k
<1>3. handlers'[s] = k /\ \A r \in Slots \ {s} : handlers'[r] = handlers[r]
  BY <1>2, OneChanges
<1> QED BY <1>1, <1>3 DEF Send, HasTurn, FreeSlot, serverVars, historyVars

(* What the arrival of a new token leaves.                                     *)
LEMMA ArrivalIs ==
  ASSUME IndInv, NEW t \in Tabs, NEW s \in Slots,
         SignedIn(t, s) \/ Receive(t, s), handlers[s].answer = "ok"
  PROVE  /\ handlers'[s] = Idle /\ \A r \in Slots \ {s} : handlers'[r] = handlers[r]
         /\ handlers[s].at = "done" /\ handlers[s].tab = t /\ HasNew(handlers[s])
         /\ UNCHANGED <<tokens, spoiled>> /\ Home[t] \in Browsers
         /\ \A b \in Browsers : cookie'[b] = IF b = Home[t] THEN handlers[s].new ELSE cookie[b]
<1>1. RecordsTyped /\ handlers' = [handlers EXCEPT ![s] = Idle]
  BY DEF SignedIn, Receive, IndInv
<1>2. handlers'[s] = Idle /\ \A r \in Slots \ {s} : handlers'[r] = handlers[r]
  BY <1>1, OneChanges
<1>3. Home[t] \in Browsers
  BY SessionAssumption
<1>4. \A b \in Browsers : cookie'[b] = IF b = Home[t] THEN handlers[s].new ELSE cookie[b]
  BY <1>1, <1>3 DEF SignedIn, Receive, RecordsTyped
<1> QED BY <1>2, <1>3, <1>4 DEF SignedIn, Receive, Asking, HasNew, serverVars, historyVars

(* Every token that goes round after a step was issued.                      *)
LEMMA KnownStep ==
  ASSUME IndInv, KnownInv, ServesInv, Grown, [Next]_vars
  PROVE  KnownInv'
<1>1. \A t \in Tokens : tokens'[t].stale => tokens'[t].family \in spoiled'
  BY StaleStep
<1>2. ASSUME NEW s \in Slots, handlers'[s] = handlers[s] \/ Known(handlers'[s])
      PROVE  Known(handlers[s])'
  <2>1. PICK k : k = handlers'[s]
    OBVIOUS
  <2>2. Known(k)
    BY <1>2, <2>1 DEF KnownInv
  <2> QED BY <2>1, <2>2, KnownKeeps
<1>3. ASSUME NEW s \in Slots, Mint(s) PROVE Known(handlers[s])'
  <2> DEFINE h == handlers[s]
             new == Cardinality(Issued) + 1
  <2>1. /\ new \in Tokens \ Issued /\ tokens' = [tokens EXCEPT ![new] = Minted(s)]
        /\ h.at = "mint" /\ RecordsTyped
        /\ Minted(s).family = IF h.signIn THEN new ELSE FamilyOf(h.token)
        /\ \/ handlers'[s] = Idle
           \/ /\ handlers'[s].at = (IF h.signIn THEN "done" ELSE "minted") /\ handlers'[s].new = new
              /\ handlers'[s].tab = h.tab /\ handlers'[s].token = h.token
              /\ handlers'[s].signIn = h.signIn
    BY <1>3, MintIs DEF IndInv
  <2>2. tokens'[new].family = Minted(s).family
    BY <2>1 DEF RecordsTyped
  <2>3. ~h.signIn => h.token \in Issued
    BY <1>3, <2>1 DEF IndInv, ClaimedAlone, Rotating
  <2>4. Known(h)
    BY DEF KnownInv
  <2>5. CASE handlers'[s] = Idle
    BY <2>5, IdleIs DEF Known, HasNew
  <2>6. CASE handlers'[s] # Idle
    <3>1. /\ new # 0 /\ Minted(s).family # 0 /\ \A t \in Issued : t # 0
      BY <2>1, <2>3, SessionAssumption DEF Tokens, Grown
    <3>2. new \in Issued'
      BY <2>1, <2>2, <3>1 DEF Issued
    <3>3. h.token \in Issued' \cup {0}
      BY <2>4 DEF Known, Grown
    <3>4. ~h.signIn => /\ h.token # 0
                       /\ tokens'[h.token].family = FamilyOf(h.token)
                       /\ tokens'[new].family = FamilyOf(h.token)
      BY <2>1, <2>2, <2>3 DEF Grown, FamilyOf
    <3> HIDE DEF new
    <3>5. /\ handlers'[s].token \in Issued' \cup {0}
          /\ handlers'[s].at \in {"reused", "expired", "active", "checked", "minted"} =>
               ~handlers'[s].signIn /\ handlers'[s].token # 0
          /\ handlers'[s].new \in Issued'
          /\ ~handlers'[s].signIn => /\ handlers'[s].token # 0
                                     /\ FamilyOf(handlers[s].new)' = FamilyOf(handlers[s].token)'
      <4>1. ~h.signIn => FamilyOf(handlers[s].new)' = FamilyOf(handlers[s].token)'
        BY <2>1, <2>6, <3>1, <3>4 DEF FamilyOf
      <4> QED BY <2>1, <2>6, <3>2, <3>3, <3>4, <4>1
    <3> QED BY <3>5 DEF Known
  <2> QED BY <2>5, <2>6
<1>4. \A s \in Slots : handlers'[s] = handlers[s] \/ Known(handlers'[s]) \/ Mint(s)
  <2>1. CASE Tame
    BY <2>1 DEF Tame
  <2>2. ASSUME NEW s \in Slots, Mint(s) PROVE \A r \in Slots \ {s} : handlers'[r] = handlers[r]
    BY <2>2, MintIs
  <2>3. ASSUME NEW t \in Tabs, NEW s \in Slots, Send(t, s)
        PROVE  \A r \in Slots : handlers'[r] = handlers[r] \/ Known(handlers'[r])
    <3>1. /\ \A r \in Slots \ {s} : handlers'[r] = handlers[r]
          /\ handlers'[s].at = "arrived" /\ handlers'[s].token = cookie[Home[t]]
      BY <2>3, SendIs
    <3>2. cookie[Home[t]] \in Issued \cup {0}
      BY SessionAssumption DEF KnownInv
    <3> QED BY <3>1, <3>2 DEF Known, HasNew
  <2>4. ASSUME NEW t \in Tabs, NEW s \in Slots,
               SignedIn(t, s) \/ Receive(t, s), handlers[s].answer = "ok"
        PROVE  \A r \in Slots : handlers'[r] = handlers[r] \/ Known(handlers'[r])
    BY <2>4, ArrivalIs, IdleFollows
  <2> QED BY <2>1, <2>2, <2>3, <2>4, CauseKinds
<1>5. \A b \in Browsers : cookie'[b] \in Issued \cup {0}
  <2>1. CASE Tame
    BY <2>1 DEF Tame, KnownInv
  <2>2. CASE UNCHANGED cookie
    BY <2>2 DEF KnownInv
  <2>3. ASSUME NEW t \in Tabs, NEW s \in Slots,
               SignedIn(t, s) \/ Receive(t, s), handlers[s].answer = "ok"
        PROVE  \A b \in Browsers : cookie'[b] \in Issued \cup {0}
    BY <2>3, ArrivalIs DEF KnownInv, Known
  <2>4. \A s \in Slots : Mint(s) => UNCHANGED cookie
    BY DEF Mint, clientVars
  <2> QED BY <2>1, <2>2, <2>3, <2>4, SendIs, CauseKinds
<1> QED BY <1>1, <1>2, <1>3, <1>4, <1>5 DEF KnownInv, Grown

-----------------------------------------------------------------------------
(* The tokens that go round.                                                   *)
LEMMA RoundIssued ==
  ASSUME KnownInv
  PROVE  /\ \A s \in Slots : /\ Presents(handlers[s]) \in Issued \cup {0}
                             /\ Grants(handlers[s]) \in Issued \cup {0}
         /\ \A b \in Browsers : cookie[b] \in Issued \cup {0}
BY DEF KnownInv, Known, Presents, Grants, HasNew

(* Two tokens of a clean family were that before the step too.                 *)
LEMMA KinBefore ==
  ASSUME Grown, NEW t \in Issued \cup {0}, NEW u \in Issued \cup {0}, Kin(t, u)'
  PROVE  /\ Kin(t, u) /\ t \in Issued /\ u \in Issued
         /\ FamilyOf(t) \notin spoiled' /\ FamilyOf(u) \notin spoiled'
BY DEF Kin, Clean, Grown

(* A family that is clean after a step was clean before it.                  *)
LEMMA CleanBefore ==
  ASSUME Grown, NEW t \in Issued \cup {0}, Clean(t)'
  PROVE  Clean(t) /\ t \in Issued /\ FamilyOf(t) \notin spoiled'
BY DEF Clean, Grown

(* A tame step keeps every clean family in the hands of one browser.         *)
LEMMA TamePlaces ==
  ASSUME IndInv, KnownInv, PlaceInv, Grown, Tame
  PROVE  PlaceInv'
<1>1. /\ \A s \in Slots : /\ Presents(handlers[s]) \in Issued \cup {0}
                          /\ Grants(handlers[s]) \in Issued \cup {0}
      /\ \A b \in Browsers : cookie[b] \in Issued \cup {0}
  BY RoundIssued
<1>2. ASSUME NEW s \in Slots
      PROVE  /\ Presents(handlers'[s]) \in {0, Presents(handlers[s])}
             /\ Grants(handlers'[s]) \in {0, Grants(handlers[s])}
             /\ \/ Lost(handlers'[s]) \/ handlers'[s].tab = handlers[s].tab
  BY DEF Tame, Follows
<1>3. \A b \in Browsers : cookie'[b] \in {0, cookie[b]}
  BY DEF Tame
<1>4. ASSUME NEW t, NEW u, NEW x \in Issued \cup {0}, NEW y \in Issued \cup {0},
             t \in {0, x}, u \in {0, y}, Kin(t, u)'
      PROVE  t = x /\ u = y /\ Kin(x, y) /\ t # 0 /\ FamilyOf(t) \notin spoiled'
  <2>1. t # 0 /\ u # 0
    BY <1>4 DEF Kin, Clean
  <2> QED BY <1>4, <2>1, KinBefore
<1>5. \A b, c \in Browsers : Kin(cookie[b], cookie[c])' => b = c
  BY <1>1, <1>3, <1>4 DEF PlaceInv
<1>6. \A r, s \in Slots : Kin(Presents(handlers[r]), Presents(handlers[s]))' => r = s
  BY <1>1, <1>2, <1>4 DEF PlaceInv
<1>7. ASSUME NEW s \in Slots, NEW b \in Browsers, Kin(Presents(handlers[s]), cookie[b])'
      PROVE  /\ Presents(handlers'[s]) = cookie'[b]
             /\ handlers'[s].tab \in Tabs /\ Home[handlers'[s].tab] = b
  <2>1. /\ Presents(handlers'[s]) = Presents(handlers[s]) /\ cookie'[b] = cookie[b]
        /\ Kin(Presents(handlers[s]), cookie[b]) /\ ~Lost(handlers'[s])
    BY <1>1, <1>2, <1>3, <1>4, <1>7 DEF Lost
  <2> QED BY <1>2, <2>1 DEF PlaceInv
<1>8. \A s \in Slots, b \in Browsers : ~Kin(Grants(handlers[s]), cookie[b])'
  BY <1>1, <1>2, <1>3, <1>4 DEF PlaceInv
<1>9. \A r, s \in Slots : ~Kin(Grants(handlers[s]), Presents(handlers[r]))'
  BY <1>1, <1>2, <1>4 DEF PlaceInv
<1>10. \A r, s \in Slots : Kin(Grants(handlers[s]), Grants(handlers[r]))' => r = s
  BY <1>1, <1>2, <1>4 DEF PlaceInv
<1> QED BY <1>5, <1>6, <1>7, <1>8, <1>9, <1>10 DEF PlaceInv

(* A tame step keeps what is in those hands in service.                      *)
LEMMA TameServes ==
  ASSUME IndInv, KnownInv, PlaceInv, ServesInv, Grown, Tame
  PROVE  ServesInv'
<1>1. /\ \A s \in Slots : /\ Presents(handlers[s]) \in Issued \cup {0}
                          /\ Grants(handlers[s]) \in Issued \cup {0}
                          /\ Known(handlers[s])
      /\ \A b \in Browsers : cookie[b] \in Issued \cup {0}
  BY RoundIssued DEF KnownInv
<1>2. ASSUME NEW s \in Slots, Clean(Presents(handlers[s]))'
      PROVE  RequestOK(handlers[s])'
  <2> DEFINE h == handlers[s]
             k == handlers'[s]
  <2>1. Presents(k) # 0 /\ ~Lost(k) /\ Presents(k) = Presents(h)
    <3>1. Presents(k) # 0 /\ Presents(k) \in {0, Presents(h)}
      BY <1>2 DEF Tame, Follows, Clean
    <3>2. FamilyOf(Presents(k)) \notin spoiled'
      BY <1>1, <1>2, <3>1, CleanBefore
    <3> QED BY <3>1, <3>2 DEF Lost
  <2>2. Serving(k)
    <3>1. CASE k # h
      BY <2>1, <3>1 DEF Tame, Follows
    <3>2. CASE k = h
      <4>1. /\ Known(h) /\ RequestOK(h) /\ ~Lost(h)
        BY <1>1, <2>1, <3>2 DEF ServesInv, Lost
      <4>2. /\ Presents(h) = h.token /\ h.token \in Issued /\ h.tab \in Tabs
            /\ FamilyOf(h.token) \notin spoiled' /\ FamilyOf(h.token) \notin spoiled
            /\ h.at \notin {"reused", "expired"} /\ ~h.signIn
            /\ ~Spent(h) => tokens[h.token].live
            /\ HasNew(h) => tokens[h.new].live
        BY <4>1, Unlost
      <4>3. h.at = "done" => h.answer \in {"ok", "failed"}
        BY <4>1, <4>2 DEF RequestOK, Clean, Grown
      <4>4. ASSUME NEW r \in Slots, Presents(handlers[r]) \in Issued,
                   FamilyOf(Presents(handlers[r])) = FamilyOf(h.token)
            PROVE  r = s
        BY <4>2, <4>4 DEF PlaceInv, Kin, Clean, Grown
      <4>5. ~Spent(h) => tokens'[h.token].live
        BY <3>2, <4>2, <4>4 DEF Tame, Spared
      <4>6. HasNew(h) => tokens'[h.new].live
        <5>1. SUFFICES ASSUME HasNew(h) PROVE tokens'[h.new].live
          OBVIOUS
        <5>2. h.new \in Issued /\ FamilyOf(h.new) = FamilyOf(h.token) /\ Spent(h)
          BY <4>1, <4>2, <5>1 DEF Known, Spent
        <5> QED BY <4>2, <4>4, <5>1, <5>2 DEF Tame, Spared
      <4> HIDE DEF h
      <4> QED BY <3>2, <4>2, <4>3, <4>5, <4>6 DEF Serving
    <3> QED BY <3>1, <3>2
  <2> QED BY <2>2 DEF Serving, RequestOK, Presents
<1>3. ASSUME NEW s \in Slots, Clean(Grants(handlers[s]))'
      PROVE  tokens'[Grants(handlers'[s])].live
  <2> DEFINE g == Grants(handlers[s])
  <2>1. Grants(handlers'[s]) = g /\ g # 0
    BY <1>3 DEF Tame, Follows, Clean
  <2>2. Clean(g) /\ g \in Issued /\ FamilyOf(g) \notin spoiled'
    BY <1>1, <1>3, <2>1, CleanBefore
  <2>3. tokens[g].live
    BY <2>2 DEF ServesInv, GrantOK
  <2>4. \A r \in Slots : Presents(handlers[r]) # g
    BY <2>2 DEF PlaceInv, Kin
  <2> QED BY <2>1, <2>2, <2>3, <2>4 DEF Tame, Spared
<1>4. ASSUME NEW b \in Browsers, Clean(cookie[b])'
      PROVE  \/ tokens'[cookie'[b]].live
             \/ \E s \in Slots : Presents(handlers'[s]) = cookie'[b] /\ Spent(handlers'[s])
  <2> DEFINE c == cookie[b]
  <2>1. cookie'[b] = c /\ c # 0
    BY <1>4 DEF Tame, Clean
  <2>2. Clean(c) /\ c \in Issued /\ FamilyOf(c) \notin spoiled'
    BY <1>1, <1>4, <2>1, CleanBefore
  <2>3. CASE tokens[c].live
    BY <2>1, <2>2, <2>3 DEF Tame, Spared
  <2>4. ASSUME NEW s \in Slots, Presents(handlers[s]) = c, Spent(handlers[s])
        PROVE  Presents(handlers'[s]) = c /\ Spent(handlers'[s])
    <3>1. ~Lost(handlers[s])
      BY <2>1, <2>2, <2>4 DEF Lost
    <3> QED BY <2>4, <3>1 DEF Tame, Follows
  <2> QED BY <2>1, <2>2, <2>3, <2>4 DEF ServesInv, CookieOK
<1> QED BY <1>2, <1>3, <1>4 DEF ServesInv, RequestOK, GrantOK, CookieOK

(* A refresh is sent: no other request carries the cookie of the browser, since  *)
(* its tab would have the turn.                                                *)
LEMMA SendKeeps ==
  ASSUME IndInv, CauseInv, HasLocks, Grown, NEW t \in Tabs, NEW s \in Slots, Send(t, s)
  PROVE  (PlaceInv /\ ServesInv)'
<1> DEFINE c == cookie[Home[t]]
<1>1. /\ handlers'[s].at = "arrived" /\ handlers'[s].tab = t /\ handlers'[s].token = c
      /\ ~handlers'[s].signIn /\ handlers[s].at = "idle"
      /\ UNCHANGED <<tokens, cookie, spoiled>>
      /\ tabs[t].flight = "queued" /\ Head(turns[Home[t]]) = t
      /\ \A r \in Slots \ {s} : handlers'[r] = handlers[r]
  BY SendIs
<1>2. /\ Presents(handlers'[s]) = c /\ Grants(handlers'[s]) = 0 /\ ~Spent(handlers'[s])
      /\ ~HasNew(handlers'[s]) /\ Presents(handlers[s]) = 0 /\ Grants(handlers[s]) = 0
  BY <1>1 DEF Presents, Grants, Spent, HasNew
<1>3. Home[t] \in Browsers
  BY SessionAssumption
<1>4. ASSUME NEW r \in Slots, Kin(Presents(handlers[r]), c) PROVE FALSE
  <2>1. /\ Presents(handlers[r]) = c /\ handlers[r].tab \in Tabs
        /\ Home[handlers[r].tab] = Home[t]
    BY <1>3, <1>4 DEF CauseInv, PlaceInv
  <2>2. r \in Asking(handlers[r].tab)
    BY <1>4, <2>1 DEF Kin, Clean, Presents, Asking
  <2>3. tabs[handlers[r].tab].flight = "sent" /\ Head(turns[Home[handlers[r].tab]]) = handlers[r].tab
    BY <2>1, <2>2 DEF CauseInv, TurnInv
  <2> QED BY <1>1, <2>1, <2>3
<1>5. \A x, y : Kin(x, y)' <=> Kin(x, y)
  BY <1>1 DEF Kin, Clean, FamilyOf
<1>6. \A x, y : Kin(x, y) => Kin(y, x) /\ x # 0 /\ y # 0
  BY DEF Kin, Clean
<1>7. PlaceInv'
  <2>1. \A b, d \in Browsers : Kin(cookie[b], cookie[d])' => b = d
    BY <1>1, <1>5 DEF CauseInv, PlaceInv
  <2>2. \A q, r \in Slots : Kin(Presents(handlers[q]), Presents(handlers[r]))' => q = r
    BY <1>1, <1>2, <1>4, <1>5, <1>6 DEF CauseInv, PlaceInv
  <2>3. ASSUME NEW r \in Slots, NEW b \in Browsers, Kin(Presents(handlers[r]), cookie[b])'
        PROVE  /\ Presents(handlers'[r]) = cookie'[b]
               /\ handlers'[r].tab \in Tabs /\ Home[handlers'[r].tab] = b
    <3>1. CASE r = s
      BY <1>1, <1>2, <1>3, <1>5, <2>3, <3>1 DEF CauseInv, PlaceInv
    <3>2. CASE r # s
      BY <1>1, <1>5, <2>3, <3>2 DEF CauseInv, PlaceInv
    <3> QED BY <3>1, <3>2
  <2>4. \A r \in Slots, b \in Browsers : ~Kin(Grants(handlers[r]), cookie[b])'
    BY <1>1, <1>2, <1>5, <1>6 DEF CauseInv, PlaceInv
  <2>5. \A q, r \in Slots : ~Kin(Grants(handlers[r]), Presents(handlers[q]))'
    BY <1>1, <1>2, <1>3, <1>5, <1>6 DEF CauseInv, PlaceInv
  <2>6. \A q, r \in Slots : Kin(Grants(handlers[r]), Grants(handlers[q]))' => q = r
    BY <1>1, <1>2, <1>5, <1>6 DEF CauseInv, PlaceInv
  <2> QED BY <2>1, <2>2, <2>3, <2>4, <2>5, <2>6 DEF PlaceInv
<1>8. \A x : Clean(x)' <=> Clean(x)
  BY <1>1 DEF Clean, FamilyOf
<1>9. ASSUME NEW b \in Browsers, NEW r \in Slots, Clean(cookie[b]),
             Presents(handlers[r]) = cookie[b], Spent(handlers[r])
      PROVE  Presents(handlers'[r]) = cookie'[b] /\ Spent(handlers'[r])
  BY <1>1, <1>2, <1>9 DEF Clean
<1>10. Clean(c) => tokens[c].live
  BY <1>3, <1>4 DEF CauseInv, ServesInv, CookieOK, Kin
<1>11. ASSUME NEW r \in Slots PROVE RequestOK(handlers[r])' /\ GrantOK(handlers[r])'
  <2>1. CASE r = s
    BY <1>1, <1>2, <1>8, <1>10, <2>1 DEF RequestOK, GrantOK, Clean
  <2>2. CASE r # s
    BY <1>1, <1>8, <2>2 DEF CauseInv, ServesInv, RequestOK, GrantOK
  <2> QED BY <2>1, <2>2
<1>12. \A b \in Browsers : CookieOK(b)'
  BY <1>1, <1>8, <1>9 DEF CauseInv, ServesInv, CookieOK
<1> QED BY <1>7, <1>11, <1>12 DEF ServesInv

(* A new token arrives: it takes the place of the request or the grant.         *)
LEMMA ArrivalKeeps ==
  ASSUME IndInv, CauseInv, Grown, NEW t \in Tabs, NEW s \in Slots,
         SignedIn(t, s) \/ Receive(t, s), handlers[s].answer = "ok"
  PROVE  (PlaceInv /\ ServesInv)'
<1> DEFINE n == handlers[s].new
<1>1. /\ handlers'[s] = Idle /\ \A r \in Slots \ {s} : handlers'[r] = handlers[r]
      /\ handlers[s].at = "done" /\ handlers[s].tab = t /\ HasNew(handlers[s])
      /\ UNCHANGED <<tokens, spoiled>> /\ Home[t] \in Browsers
      /\ \A b \in Browsers : cookie'[b] = IF b = Home[t] THEN n ELSE cookie[b]
  BY ArrivalIs
<1>2. Presents(Idle) = 0 /\ Grants(Idle) = 0 /\ ~Spent(Idle)
  BY IdleFollows
<1>3. \A x, y : Kin(x, y)' <=> Kin(x, y)
  BY <1>1 DEF Kin, Clean, FamilyOf
<1>4. \A x, y, z : Kin(x, y) => /\ Kin(y, x) /\ x # 0 /\ y # 0
                                /\ Kin(y, z) => Kin(x, z)
  BY DEF Kin, Clean
<1>5. \A x : Clean(x)' <=> Clean(x)
  BY <1>1 DEF Clean, FamilyOf
<1>6. /\ Known(handlers[s]) /\ RequestOK(handlers[s]) /\ GrantOK(handlers[s])
      /\ n \in Issued /\ n # 0
  BY <1>1 DEF CauseInv, KnownInv, ServesInv, Known, Grown
<1>7. /\ Clean(n) => tokens[n].live
      /\ \A b \in Browsers \ {Home[t]} : ~Kin(n, cookie[b])
      /\ \A r \in Slots \ {s} : ~Kin(n, Presents(handlers[r])) /\ ~Kin(n, Grants(handlers[r]))
      /\ \A b \in Browsers \ {Home[t]} : Presents(handlers[s]) = cookie[b] => ~Clean(cookie[b])
  <2>1. CASE handlers[s].signIn
    <3>1. Grants(handlers[s]) = n /\ Presents(handlers[s]) = 0
      BY <1>1, <2>1 DEF Grants, Presents, SignedIn, Receive, Asking
    <3>2. Clean(n) => tokens[n].live
      BY <1>6, <3>1 DEF GrantOK
    <3> QED BY <3>1, <3>2 DEF CauseInv, PlaceInv, Clean
  <2>2. CASE ~handlers[s].signIn
    <3>1. /\ Presents(handlers[s]) = handlers[s].token /\ handlers[s].token # 0
          /\ FamilyOf(n) = FamilyOf(handlers[s].token)
      BY <1>1, <1>6, <2>2 DEF Presents, Known
    <3>2. \A x : Kin(n, x) <=> Kin(Presents(handlers[s]), x)
      BY <1>6, <3>1 DEF Kin, Clean
    <3>3. Clean(n) => tokens[n].live
      BY <1>1, <1>6, <3>1 DEF RequestOK, Clean
    <3>4. \A b \in Browsers : Kin(Presents(handlers[s]), cookie[b]) => b = Home[t]
      BY <1>1 DEF CauseInv, PlaceInv
    <3>5. \A r \in Slots \ {s} : /\ ~Kin(Presents(handlers[s]), Presents(handlers[r]))
                                 /\ ~Kin(Presents(handlers[s]), Grants(handlers[r]))
      BY <1>4 DEF CauseInv, PlaceInv
    <3>6. \A x : Clean(x) => Kin(x, x)
      BY DEF Kin
    <3> QED BY <3>2, <3>3, <3>4, <3>5, <3>6
  <2> QED BY <2>1, <2>2
<1> HIDE DEF n
<1>8. PlaceInv'
  <2>1. \A b, d \in Browsers : Kin(cookie[b], cookie[d])' => b = d
    BY <1>1, <1>3, <1>4, <1>7 DEF CauseInv, PlaceInv
  <2>2. \A q, r \in Slots : Kin(Presents(handlers[q]), Presents(handlers[r]))' => q = r
    BY <1>1, <1>2, <1>3, <1>4 DEF CauseInv, PlaceInv
  <2>3. ASSUME NEW r \in Slots, NEW b \in Browsers, Kin(Presents(handlers[r]), cookie[b])'
        PROVE  /\ Presents(handlers'[r]) = cookie'[b]
               /\ handlers'[r].tab \in Tabs /\ Home[handlers'[r].tab] = b
    <3>1. r # s
      BY <1>1, <1>2, <1>3, <1>4, <2>3
    <3>2. b # Home[t]
      BY <1>1, <1>3, <1>4, <1>7, <2>3, <3>1
    <3> QED BY <1>1, <1>3, <2>3, <3>1, <3>2 DEF CauseInv, PlaceInv
  <2>4. \A r \in Slots, b \in Browsers : ~Kin(Grants(handlers[r]), cookie[b])'
    BY <1>1, <1>2, <1>3, <1>4, <1>7 DEF CauseInv, PlaceInv
  <2>5. \A q, r \in Slots : ~Kin(Grants(handlers[r]), Presents(handlers[q]))'
    BY <1>1, <1>2, <1>3, <1>4 DEF CauseInv, PlaceInv
  <2>6. \A q, r \in Slots : Kin(Grants(handlers[r]), Grants(handlers[q]))' => q = r
    BY <1>1, <1>2, <1>3, <1>4 DEF CauseInv, PlaceInv
  <2> QED BY <2>1, <2>2, <2>3, <2>4, <2>5, <2>6 DEF PlaceInv
<1>9. ASSUME NEW r \in Slots PROVE RequestOK(handlers[r])' /\ GrantOK(handlers[r])'
  <2>1. CASE r = s
    BY <1>1, <1>2, <2>1 DEF RequestOK, GrantOK, Clean
  <2>2. CASE r # s
    BY <1>1, <1>5, <2>2 DEF CauseInv, ServesInv, RequestOK, GrantOK
  <2> QED BY <2>1, <2>2
<1>10. ASSUME NEW b \in Browsers PROVE CookieOK(b)'
  <2>1. CASE b = Home[t]
    BY <1>1, <1>5, <1>7, <2>1 DEF CookieOK
  <2>2. CASE b # Home[t]
    BY <1>1, <1>5, <1>7, <2>2 DEF CauseInv, ServesInv, CookieOK
  <2> QED BY <2>1, <2>2
<1> QED BY <1>8, <1>9, <1>10 DEF ServesInv

(* A sign-in is granted the first token of a family nobody has seen.            *)
LEMMA GrantKeeps ==
  ASSUME IndInv, CauseInv, Grown, NEW s \in Slots, Mint(s), handlers[s].signIn
  PROVE  (PlaceInv /\ ServesInv)'
<1>0. PICK new : new = Cardinality(Issued) + 1
  OBVIOUS
<1>1. /\ new \in Tokens /\ new \notin Issued /\ tokens' = [tokens EXCEPT ![new] = Minted(s)]
      /\ Minted(s).live /\ Minted(s).family = new /\ handlers[s].at = "mint"
      /\ \A r \in Slots \ {s} : handlers'[r] = handlers[r]
      /\ \/ handlers'[s] = Idle
         \/ handlers'[s].at = "done" /\ handlers'[s].new = new /\ handlers'[s].signIn
  BY <1>0, MintIs DEF CauseInv
<1>2. UNCHANGED <<cookie, spoiled>> /\ RecordsTyped
  BY DEF Mint, clientVars, historyVars, IndInv
<1>3. /\ Presents(handlers[s]) = 0 /\ Presents(handlers'[s]) = 0
      /\ Grants(handlers'[s]) \in {0, new} /\ Grants(handlers[s]) = 0
  BY <1>1, IdleFollows DEF Presents, Grants
<1>4. /\ \A r \in Slots : /\ Presents(handlers[r]) \in Issued \cup {0}
                          /\ Grants(handlers[r]) \in Issued \cup {0}
                          /\ Known(handlers[r])
      /\ \A b \in Browsers : cookie[b] \in Issued \cup {0}
  BY RoundIssued DEF CauseInv, KnownInv
<1>5. tokens'[new] = Minted(s) /\ \A t \in Issued : tokens'[t] = tokens[t]
  BY <1>1, <1>2 DEF RecordsTyped, Issued
<1>6. FamilyOf(new)' = new /\ new # 0 /\ \A t \in Issued : FamilyOf(t)' # new
  BY <1>1, <1>5, SessionAssumption DEF FamilyOf, Tokens, Grown
<1>7. \A x, y \in Issued \cup {0} : (Kin(x, y)' <=> Kin(x, y)) /\ (Clean(x)' <=> Clean(x))
  BY <1>2, <1>5, SessionAssumption DEF Kin, Clean, FamilyOf
<1>8. \A x \in Issued \cup {0} : ~Kin(x, new)' /\ ~Kin(new, x)'
  BY <1>6 DEF Kin, Clean
<1>9. PlaceInv'
  <2>1. \A b, d \in Browsers : Kin(cookie[b], cookie[d])' => b = d
    BY <1>2, <1>4, <1>7 DEF CauseInv, PlaceInv
  <2>2. ASSUME NEW r \in Slots
        PROVE  /\ Presents(handlers'[r]) = Presents(handlers[r])
               /\ Presents(handlers[r]) # 0 => handlers'[r] = handlers[r]
               /\ r # s => Grants(handlers'[r]) = Grants(handlers[r])
    BY <1>1, <1>3
  <2>3. \A q, r \in Slots : Kin(Presents(handlers[q]), Presents(handlers[r]))' => q = r
    BY <1>4, <1>7, <2>2 DEF CauseInv, PlaceInv
  <2>4. ASSUME NEW r \in Slots, NEW b \in Browsers, Kin(Presents(handlers[r]), cookie[b])'
        PROVE  /\ Presents(handlers'[r]) = cookie'[b]
               /\ handlers'[r].tab \in Tabs /\ Home[handlers'[r].tab] = b
    <3>1. Kin(Presents(handlers[r]), cookie[b]) /\ Presents(handlers[r]) # 0
      BY <1>2, <1>4, <1>7, <2>2, <2>4 DEF Kin, Clean
    <3> QED BY <1>2, <2>2, <3>1 DEF CauseInv, PlaceInv
  <2>5. \A r \in Slots, b \in Browsers : ~Kin(Grants(handlers[r]), cookie[b])'
    BY <1>2, <1>3, <1>4, <1>7, <1>8, <2>2 DEF CauseInv, PlaceInv
  <2>6. \A q, r \in Slots : ~Kin(Grants(handlers[r]), Presents(handlers[q]))'
    BY <1>3, <1>4, <1>7, <1>8, <2>2 DEF CauseInv, PlaceInv
  <2>7. \A q, r \in Slots : Kin(Grants(handlers[r]), Grants(handlers[q]))' => q = r
    BY <1>3, <1>4, <1>7, <1>8, <2>2 DEF CauseInv, PlaceInv
  <2> QED BY <2>1, <2>3, <2>4, <2>5, <2>6, <2>7 DEF PlaceInv
<1>10. ASSUME NEW r \in Slots PROVE RequestOK(handlers[r])' /\ GrantOK(handlers[r])'
  <2>1. CASE r = s
    BY <1>1, <1>3, <1>5, <2>1 DEF RequestOK, GrantOK, Clean
  <2>2. CASE r # s
    <3>1. handlers'[r] = handlers[r] /\ RequestOK(handlers[r]) /\ GrantOK(handlers[r])
      BY <1>1, <2>2 DEF CauseInv, ServesInv
    <3>2. GrantOK(handlers[r])'
      BY <1>4, <1>5, <1>7, <3>1 DEF GrantOK, Clean
    <3>3. RequestOK(handlers[r])'
      <4>1. SUFFICES ASSUME Clean(Presents(handlers[r])) PROVE RequestOK(handlers[r])'
        BY <1>4, <1>7, <3>1 DEF RequestOK
      <4>2. /\ handlers[r].token \in Issued
            /\ HasNew(handlers[r]) => handlers[r].new \in Issued
        BY <1>4, <4>1 DEF Clean, Presents, Known
      <4> QED BY <1>5, <3>1, <4>1, <4>2 DEF RequestOK
    <3> QED BY <3>2, <3>3
  <2> QED BY <2>1, <2>2
<1>11. ASSUME NEW b \in Browsers PROVE CookieOK(b)'
  <2>1. SUFFICES ASSUME Clean(cookie[b]) PROVE CookieOK(b)'
    BY <1>2, <1>4, <1>7 DEF CookieOK
  <2>2. cookie[b] \in Issued /\ cookie'[b] = cookie[b]
    BY <1>2, <1>4, <2>1 DEF Clean
  <2>3. CASE tokens[cookie[b]].live
    BY <1>5, <2>2, <2>3 DEF CookieOK
  <2>4. ASSUME NEW r \in Slots, Presents(handlers[r]) = cookie[b], Spent(handlers[r])
        PROVE  CookieOK(b)'
    <3>1. r # s
      BY <1>3, <2>1, <2>4 DEF Clean
    <3> QED BY <1>1, <2>2, <2>4, <3>1 DEF CookieOK
  <2> QED BY <2>1, <2>3, <2>4 DEF CauseInv, ServesInv, CookieOK
<1> QED BY <1>9, <1>10, <1>11 DEF ServesInv

-----------------------------------------------------------------------------
(* Only a refresh that is sent starts to ask.                                  *)
LEMMA AskingStep ==
  ASSUME IndInv, KnownInv, ServesInv, Grown, [Next]_vars
  PROVE  \/ \A t \in Tabs : Asking(t)' \subseteq Asking(t)
         \/ \E t \in Tabs, s \in Slots : Send(t, s)
<1> DEFINE Less(s) == Asks(handlers'[s]) =>
                        Asks(handlers[s]) /\ handlers'[s].tab \in {handlers[s].tab, None}
<1>1. (\A s \in Slots : Less(s)) => \A t \in Tabs : Asking(t)' \subseteq Asking(t)
  BY SessionAssumption DEF Asking, Asks
<1>2. CASE Tame
  <2>1. \A s \in Slots : Less(s)
    BY <1>2 DEF Tame, Follows
  <2> QED BY <1>1, <2>1
<1>3. ASSUME NEW s \in Slots, Mint(s), handlers[s].signIn
      PROVE  \A r \in Slots : Less(r)
  BY <1>3, MintIs, IdleIs DEF Asks
<1>4. ASSUME NEW t \in Tabs, NEW s \in Slots,
             SignedIn(t, s) \/ Receive(t, s), handlers[s].answer = "ok"
      PROVE  \A r \in Slots : Less(r)
  BY <1>4, ArrivalIs, IdleIs DEF Asks
<1> HIDE DEF Less
<1> QED BY <1>1, <1>2, <1>3, <1>4, CauseKinds

(* Steps that touch no queue and no round trip.                                *)
LEMMA FlightsStay ==
  ASSUME TurnInv, UNCHANGED turns, \A t \in Tabs : tabs'[t].flight = tabs[t].flight,
         \A t \in Tabs : Asking(t)' \subseteq Asking(t)
  PROVE  TurnInv'
BY DEF TurnInv

(* A tab that wants a refresh joins the queue, or its own refresh under way. *)
LEMMA RefreshTurns ==
  ASSUME RecordsTyped, TurnInv, NEW t \in Tabs, NEW origin \in Origins, Refresh(t, origin)
  PROVE  TurnInv'
<1> DEFINE queue == turns[Home[t]]
<1>0. /\ tabs[t] \in Tab /\ Home[t] \in Browsers /\ queue \in Seq(Tabs)
      /\ \A u \in Tabs : Asking(u)' = Asking(u)
  BY SessionAssumption DEF RecordsTyped, Refresh, Asking
<1>1. CASE tabs[t].flight # "none"
  <2>1. [tabs[t] EXCEPT !.askers = tabs[t].askers \cup {origin}].flight = tabs[t].flight
    BY <1>0 DEF Tab
  <2>2. UNCHANGED turns /\ \A u \in Tabs : tabs'[u].flight = tabs[u].flight
    BY <1>1, <2>1 DEF Refresh, RecordsTyped
  <2> QED BY <1>0, <2>2, FlightsStay
<1>2. CASE tabs[t].flight = "none"
  <2>1. [tabs[t] EXCEPT !.askers = {origin}, !.flight = "queued"].flight = "queued"
    BY <1>0 DEF Tab
  <2>2. /\ tabs'[t].flight = "queued" /\ \A u \in Tabs \ {t} : tabs'[u] = tabs[u]
        /\ turns' = [turns EXCEPT ![Home[t]] = Append(queue, t)]
    BY <1>2, <2>1 DEF Refresh, RecordsTyped
  <2>3. Asking(t) = {}
    BY <1>2 DEF TurnInv, Asking
  <2>4. \A b \in Browsers : turns'[b] = IF b = Home[t] THEN Append(queue, t) ELSE turns[b]
    BY <1>0, <2>2 DEF RecordsTyped
  <2>5. /\ \E i \in DOMAIN Append(queue, t) : Append(queue, t)[i] = t
        /\ \A u \in Tabs : (\E i \in DOMAIN queue : queue[i] = u) =>
             /\ \E i \in DOMAIN Append(queue, t) : Append(queue, t)[i] = u
             /\ Head(Append(queue, t)) = Head(queue)
    <3> HIDE DEF queue
    <3>1. /\ Append(queue, t) \in Seq(Tabs) /\ Len(queue) \in Nat
          /\ Len(Append(queue, t)) = Len(queue) + 1
          /\ \A i \in 1 .. Len(queue) : Append(queue, t)[i] = queue[i]
          /\ Append(queue, t)[Len(queue) + 1] = t
      BY <1>0, AppendProperties, LenProperties
    <3>2. DOMAIN queue = 1 .. Len(queue) /\ DOMAIN Append(queue, t) = 1 .. Len(queue) + 1
      BY <1>0, <3>1, LenProperties
    <3>3. ASSUME NEW i \in DOMAIN queue PROVE Head(Append(queue, t)) = Head(queue)
      <4>1. queue # <<>>
        BY <1>0, <3>1, <3>2, <3>3, EmptySeq
      <4> QED BY <1>0, <4>1, HeadTailAppend
    <3> QED BY <3>1, <3>2, <3>3
  <2> HIDE DEF queue
  <2>6. ASSUME NEW u \in Tabs
        PROVE  /\ tabs'[u].flight # "none" => \E i \in DOMAIN turns'[Home[u]] : turns'[Home[u]][i] = u
               /\ tabs'[u].flight = "sent" => Head(turns'[Home[u]]) = u
               /\ \A r, s \in Asking(u)' : tabs'[u].flight = "sent" /\ r = s
    <3>0. Home[u] \in Browsers
      BY SessionAssumption
    <3>1. CASE u = t
      BY <1>0, <2>2, <2>3, <2>4, <2>5, <3>1
    <3>2. CASE u # t /\ Home[u] # Home[t]
      BY <1>0, <2>2, <2>4, <3>0, <3>2 DEF TurnInv
    <3>3. CASE u # t /\ Home[u] = Home[t]
      BY <1>0, <2>2, <2>4, <2>5, <3>0, <3>3 DEF TurnInv, queue
    <3> QED BY <3>1, <3>2, <3>3
  <2> QED BY <2>6 DEF TurnInv
<1> QED BY <1>1, <1>2

(* The tab at the head of the queue sends its request.                       *)
LEMMA SendTurns ==
  ASSUME IndInv, TurnInv, HasLocks, NEW t \in Tabs, NEW s \in Slots, Send(t, s)
  PROVE  TurnInv'
<1>1. /\ handlers'[s].tab = t /\ handlers[s].at = "idle" /\ UNCHANGED turns
      /\ tabs[t].flight = "queued" /\ Head(turns[Home[t]]) = t
      /\ \A r \in Slots \ {s} : handlers'[r] = handlers[r]
  BY SendIs
<1>2. [tabs[t] EXCEPT !.flight = "sent"].flight = "sent"
  BY DEF IndInv, RecordsTyped, Tab
<1>3. tabs'[t].flight = "sent" /\ \A u \in Tabs \ {t} : tabs'[u] = tabs[u]
  BY <1>2 DEF Send, IndInv, RecordsTyped
<1>4. Asking(t) = {}
  BY <1>1 DEF TurnInv, Asking
<1>5. /\ Asking(t)' \subseteq {s}
      /\ \A u \in Tabs \ {t} : Asking(u)' \subseteq Asking(u)
  BY <1>1, <1>4 DEF Asking
<1> QED BY <1>1, <1>3, <1>5 DEF TurnInv

(* A tab that is answered, loses its connection or is closed leaves the queue.   *)
LEMMA LeaveTurns ==
  ASSUME IndInv, TurnInv, NEW t \in Tabs,
         CloseTab(t) \/ \E s \in Slots : Receive(t, s) \/ Lose(t, s),
         \A u \in Tabs : Asking(u)' \subseteq Asking(u)
  PROVE  TurnInv'
<1> DEFINE queue == turns[Home[t]]
<1>0. /\ RecordsTyped /\ tabs[t] \in Tab /\ Home[t] \in Browsers /\ queue \in Seq(Tabs)
      /\ turns' = [turns EXCEPT ![Home[t]] = Without(queue, t)]
  BY SessionAssumption DEF IndInv, RecordsTyped, CloseTab, Receive, Lose
<1>1. tabs'[t].flight = "none" /\ \A u \in Tabs \ {t} : tabs'[u] = tabs[u]
  <2>1. ClosedTab.flight = "none" /\ [ClosedTab EXCEPT !.degraded = tabs[t].degraded].flight = "none"
    BY DEF ClosedTab
  <2>2. \A answer, new : AfterAnswer(tabs[t], answer, new).flight = "none"
    BY <1>0 DEF AfterAnswer, Tab
  <2>3. \/ tabs' = [tabs EXCEPT ![t] = [ClosedTab EXCEPT !.degraded = tabs[t].degraded]]
        \/ \E answer, new : tabs' = [tabs EXCEPT ![t] = AfterAnswer(tabs[t], answer, new)]
    <3>1. CASE CloseTab(t)
      BY <3>1 DEF CloseTab
    <3>2. ASSUME NEW s \in Slots, Receive(t, s) \/ Lose(t, s)
          PROVE  \E answer, new : tabs' = [tabs EXCEPT ![t] = AfterAnswer(tabs[t], answer, new)]
      BY <3>2 DEF Receive, Lose
    <3> QED BY <3>1, <3>2
  <2>4. PICK tab : tabs' = [tabs EXCEPT ![t] = tab] /\ tab.flight = "none"
    <3>1. CASE tabs' = [tabs EXCEPT ![t] = [ClosedTab EXCEPT !.degraded = tabs[t].degraded]]
      <4> DEFINE closed == [ClosedTab EXCEPT !.degraded = tabs[t].degraded]
      <4>1. tabs' = [tabs EXCEPT ![t] = closed] /\ closed.flight = "none"
        BY <2>1, <3>1
      <4> HIDE DEF closed
      <4> QED BY <4>1
    <3>2. ASSUME NEW answer, NEW new, tabs' = [tabs EXCEPT ![t] = AfterAnswer(tabs[t], answer, new)]
          PROVE  \E tab : tabs' = [tabs EXCEPT ![t] = tab] /\ tab.flight = "none"
      <4> DEFINE after == AfterAnswer(tabs[t], answer, new)
      <4>1. tabs' = [tabs EXCEPT ![t] = after] /\ after.flight = "none"
        BY <2>2, <3>2
      <4> HIDE DEF after
      <4> QED BY <4>1
    <3> QED BY <2>3, <3>1, <3>2
  <2> QED BY <1>0, <2>4 DEF RecordsTyped
<1>2. Asking(t)' = {}
  <2>1. \A s \in Slots : handlers[s] \in Handler
    BY <1>0 DEF RecordsTyped
  <2>2. \A s \in Slots : Unheard(handlers[s]).tab = None /\ None # t
    BY <2>1, UnheardIs, IdleIs, SessionAssumption
  <2>3. CASE CloseTab(t)
    BY <2>2, <2>3 DEF CloseTab, Asking
  <2>4. ASSUME NEW s \in Slots, Receive(t, s) \/ Lose(t, s) PROVE Asking(t)' = {}
    <3>1. s \in Asking(t) /\ Asking(t) = {s}
      BY <2>4 DEF Receive, Lose, TurnInv
    <3>2. handlers'[s] = Idle \/ handlers'[s] = Unheard(handlers[s])
      BY <1>0, <2>4 DEF Receive, Lose, RecordsTyped
    <3>3. s \notin Asking(t)'
      BY <2>2, <3>2, IdleIs DEF Asking
    <3> QED BY <3>1, <3>3
  <2> QED BY <2>3, <2>4
<1>3. \A b \in Browsers : turns'[b] = IF b = Home[t] THEN Without(queue, t) ELSE turns[b]
  BY <1>0 DEF RecordsTyped
<1>4. \A u \in Tabs \ {t} : (\E i \in DOMAIN queue : queue[i] = u) =>
        /\ \E i \in DOMAIN Without(queue, t) : Without(queue, t)[i] = u
        /\ Head(queue) = u => Head(Without(queue, t)) = u
  BY <1>0, WithoutFacts
<1> HIDE DEF queue
<1>5. ASSUME NEW u \in Tabs
      PROVE  /\ tabs'[u].flight # "none" => \E i \in DOMAIN turns'[Home[u]] : turns'[Home[u]][i] = u
             /\ tabs'[u].flight = "sent" => Head(turns'[Home[u]]) = u
             /\ \A r, s \in Asking(u)' : tabs'[u].flight = "sent" /\ r = s
  <2>0. Home[u] \in Browsers
    BY SessionAssumption
  <2>1. CASE u = t
    BY <1>1, <1>2, <2>1
  <2>2. CASE u # t /\ Home[u] # Home[t]
    BY <1>1, <1>3, <2>0, <2>2 DEF TurnInv
  <2>3. CASE u # t /\ Home[u] = Home[t]
    BY <1>1, <1>3, <1>4, <2>0, <2>3 DEF TurnInv, queue
  <2> QED BY <2>1, <2>2, <2>3
<1> QED BY <1>5 DEF TurnInv

(* Every step keeps the order of the queues.                                 *)
LEMMA TurnStep ==
  ASSUME IndInv, TurnInv, KnownInv, ServesInv, Grown, HasLocks, [Next]_vars
  PROVE  TurnInv'
<1>0. RecordsTyped
  BY DEF IndInv
<1>1. SUFFICES ASSUME \A t \in Tabs : Asking(t)' \subseteq Asking(t) PROVE TurnInv'
  BY AskingStep, SendTurns
<1>2. ASSUME NEW t \in Tabs, NEW s \in Slots, SignedIn(t, s) \/ LoseSignIn(t, s)
      PROVE  TurnInv'
  <2>1. UNCHANGED turns /\ \E access : Unlocked(t, access)
    BY <1>2 DEF SignedIn, LoseSignIn
  <2>2. \A access : [tabs[t] EXCEPT !.open = TRUE, !.degraded = FALSE,
                                    !.access = access].flight = tabs[t].flight
    BY <1>0 DEF RecordsTyped, Tab
  <2>3. \A u \in Tabs : tabs'[u].flight = tabs[u].flight
    BY <1>0, <2>1, <2>2 DEF Unlocked, RecordsTyped
  <2> QED BY <1>1, <2>1, <2>3, FlightsStay
<1>3. ASSUME NEW t \in Tabs, SignOut(t) PROVE TurnInv'
  <2>1. [tabs[t] EXCEPT !.open = FALSE, !.access = 0].flight = tabs[t].flight
    BY <1>0 DEF RecordsTyped, Tab
  <2>2. UNCHANGED turns /\ \A u \in Tabs : tabs'[u].flight = tabs[u].flight
    BY <1>0, <1>3, <2>1 DEF SignOut, RecordsTyped
  <2> QED BY <1>1, <2>2, FlightsStay
<1>4. CASE UNCHANGED <<turns, tabs>>
  BY <1>1, <1>4, FlightsStay
<1>5. CASE \/ UNCHANGED vars \/ RevokeAll \/ Deny \/ Unsuspend \/ Tick
           \/ \E kind \in Kinds : Begin(kind)
           \/ \E s \in Slots : Handle(s) \/ Fail(s)
           \/ \E t \in Tokens : Expire(t)
           \/ \E t \in Tabs, s \in Slots : SignIn(t, s)
  <2>1. UNCHANGED <<turns, tabs>>
    BY <1>5 DEF vars, clientVars, RevokeAll, Deny, Unsuspend, Tick, Begin, LogOut, Recover, Handle, Fail, Expire,
                SignIn, Look, RevokeReused, RevokeExpired, CheckUser, Claim, Admit, Mint,
                LinkSuccessor
  <2> QED BY <1>4, <2>1
<1>6. ASSUME NEW t \in Tabs, CloseTab(t) \/ \E s \in Slots : Receive(t, s) \/ Lose(t, s)
      PROVE  TurnInv'
  BY <1>1, <1>6, LeaveTurns
<1> QED
  BY <1>0, <1>2, <1>3, <1>5, <1>6, RefreshTurns, SendTurns DEF Next

-----------------------------------------------------------------------------
(* With locks the invariant holds in every reachable state.                    *)
LEMMA CauseInit ==
  ASSUME Init
  PROVE  CauseInv
<1>1. /\ \A s \in Slots : handlers[s] = Idle
      /\ \A b \in Browsers : cookie[b] = 0
      /\ \A t \in Tokens : ~tokens[t].stale
      /\ \A t \in Tabs : tabs[t].flight = "none"
  BY DEF Init, NoToken, ClosedTab
<1>2. TurnInv
  BY <1>1, IdleIs DEF TurnInv, Asking
<1>3. KnownInv
  BY <1>1, IdleFollows DEF KnownInv
<1>4. \A t, u : Kin(t, u) => t # 0 /\ u # 0
  BY DEF Kin, Clean
<1>5. \A s \in Slots : Presents(handlers[s]) = 0 /\ Grants(handlers[s]) = 0
  BY <1>1, IdleFollows
<1>6. PlaceInv
  BY <1>1, <1>4, <1>5 DEF PlaceInv
<1>7. ServesInv
  BY <1>1, <1>5 DEF ServesInv, RequestOK, GrantOK, CookieOK, Clean
<1> QED BY <1>2, <1>3, <1>6, <1>7 DEF CauseInv

(* Every step keeps the whole of the invariant.                              *)
LEMMA CauseStep ==
  ASSUME HasLocks, IndInv, CauseInv, [Next]_vars
  PROVE  CauseInv'
<1>0. TurnInv /\ KnownInv /\ PlaceInv /\ ServesInv
  BY DEF CauseInv
<1>1. Grown
  BY GrownStep
<1>2. KnownInv' /\ TurnInv'
  BY <1>0, <1>1, KnownStep, TurnStep
<1>3. CASE Tame
  BY <1>0, <1>1, <1>2, <1>3, TamePlaces, TameServes DEF CauseInv
<1>4. (PlaceInv /\ ServesInv)' => CauseInv'
  BY <1>2 DEF CauseInv
<1> QED BY <1>0, <1>1, <1>3, <1>4, CauseKinds, SendKeeps, ArrivalKeeps, GrantKeeps

(* Where there are locks, the tab whose turn it is presents what its browser     *)
(* holds, and a family nothing has happened to is in the hands of one browser    *)
(* and serves it (lib/fetch.ts:150-166).                                        *)
THEOREM CauseInvariance ==
  ASSUME HasLocks
  PROVE  Spec => []CauseInv
<1>1. IndInv /\ CauseInv /\ [Next]_vars => CauseInv'
  BY CauseStep
<1> QED BY <1>1, CauseInit, Invariance, PTL DEF Spec

(* What a tab that turns has received.                                         *)
LEMMA TurnedByAnswer ==
  ASSUME RecordsTyped, [Next]_vars, NEW t \in Tabs, Turned(t)
  PROVE  \/ upsets' > upsets
         \/ \E s \in Slots : Receive(t, s) /\ handlers[s].answer = "refused"
<1> USE DEF RecordsTyped
<1>0. upsets \in Nat /\ tabs[t] \in Tab
  BY SessionAssumption
<1>1. CASE tabs'[t].open = tabs[t].open /\ tabs'[t].degraded = tabs[t].degraded
  BY <1>0, <1>1 DEF Turned, Tab
<1>2. CASE tabs'[t] = tabs[t]
  BY <1>1, <1>2
<1>3. ASSUME NEW u \in Tabs, NEW s \in Slots, SignedIn(u, s) PROVE FALSE
  <2>1. \/ tabs'[t] = tabs[t]
        \/ \E access : tabs'[t] = [tabs[t] EXCEPT !.open = TRUE, !.degraded = FALSE,
                                                  !.access = access]
    BY <1>3 DEF SignedIn, Unlocked
  <2> QED BY <1>0, <2>1 DEF Turned, Tab
<1>4. ASSUME NEW u \in Tabs, NEW s \in Slots, Send(u, s) PROVE FALSE
  <2>1. tabs'[t] = tabs[t] \/ tabs'[t] = [tabs[t] EXCEPT !.flight = "sent"]
    BY <1>4 DEF Send
  <2> QED BY <1>0, <2>1 DEF Turned, Tab
<1>5. ASSUME NEW u \in Tabs, NEW origin \in Origins, Refresh(u, origin) PROVE FALSE
  <2> DEFINE joined == [tabs[u] EXCEPT !.askers = tabs[u].askers \cup {origin}]
             asks == [tabs[u] EXCEPT !.askers = {origin}, !.flight = "queued"]
  <2>0. tabs' = [tabs EXCEPT ![u] = joined] \/ tabs' = [tabs EXCEPT ![u] = asks]
    BY <1>5 DEF Refresh
  <2>1. \/ tabs'[t] = tabs[t]
        \/ \E askers : \/ tabs'[t] = [tabs[t] EXCEPT !.askers = askers]
                       \/ tabs'[t] = [tabs[t] EXCEPT !.askers = askers, !.flight = "queued"]
    <3>1. CASE u # t
      BY <2>0, <3>1
    <3>2. CASE u = t
      BY <2>0, <3>2
    <3> QED BY <3>1, <3>2
  <2> QED BY <1>0, <2>1 DEF Turned, Tab
<1>6. ASSUME NEW u \in Tabs, NEW s \in Slots, Receive(u, s)
      PROVE  u = t /\ handlers[s].answer = "refused"
  <2>1. tabs' = [tabs EXCEPT ![u] = AfterAnswer(tabs[u], handlers[s].answer, handlers[s].new)]
    BY <1>6 DEF Receive
  <2>2. u = t
    BY <2>1 DEF Turned
  <2>3. tabs'[t] = AfterAnswer(tabs[t], handlers[s].answer, handlers[s].new)
    BY <2>1, <2>2
  <2>4. handlers[s].answer = "refused"
    BY <1>0, <2>3 DEF Turned, AfterAnswer, Refused, Tab
  <2> QED BY <2>2, <2>4
<1>7. ASSUME \/ \E s \in Slots : Fail(s)
             \/ \E u \in Tokens : Expire(u)
             \/ \E u \in Tabs : \/ SignOut(u) \/ CloseTab(u)
                                \/ \E s \in Slots : LoseSignIn(u, s) \/ Lose(u, s)
      PROVE  upsets' > upsets
  <2>1. upsets' = upsets + 1
    BY <1>7 DEF Fail, Expire, SignOut, CloseTab, LoseSignIn, Lose
  <2> QED BY <1>0, <2>1
<1>8. CASE \/ UNCHANGED vars \/ RevokeAll \/ Deny \/ Unsuspend \/ Tick
           \/ \E kind \in Kinds : Begin(kind)
           \/ \E s \in Slots : Handle(s)
           \/ \E u \in Tabs, s \in Slots : SignIn(u, s)
  <2>1. UNCHANGED tabs
    BY <1>8 DEF vars, clientVars, RevokeAll, Deny, Unsuspend, Tick, Begin, LogOut, Recover, Handle,
                SignIn, Look, RevokeReused, RevokeExpired, CheckUser, Claim, Admit, Mint,
                LinkSuccessor
  <2> QED BY <1>2, <2>1
<1> QED BY <1>3, <1>4, <1>5, <1>6, <1>7, <1>8 DEF Next

(* Where there are locks, a tab is latched or closed by a refusal only where      *)
(* there is a cause: tabs that merely refresh together are never taken for a     *)
(* replay, in any number of tabs, browsers and handlers (lib/fetch.ts:150-166).  *)
THEOREM RefusalsHaveCause ==
  ASSUME HasLocks
  PROVE  Spec => RefusedForCause
<1>1. ASSUME IndInv, CauseInv, [Next]_vars, NEW t \in Tabs, Turned(t)
      PROVE  \/ upsets' > upsets
             \/ \E s \in Asking(t) : handlers[s].token = 0 \/ FamilyOf(handlers[s].token) \in spoiled
  <2>1. SUFFICES ASSUME NEW s \in Slots, Receive(t, s), handlers[s].answer = "refused"
                 PROVE  \E r \in Asking(t) :
                          handlers[r].token = 0 \/ FamilyOf(handlers[r].token) \in spoiled
    BY <1>1, TurnedByAnswer DEF IndInv
  <2>2. s \in Asking(t) /\ handlers[s].at = "done" /\ Presents(handlers[s]) = handlers[s].token
    BY <2>1 DEF Receive, Asking, Presents
  <2>3. ~Clean(Presents(handlers[s]))
    BY <1>1, <2>1, <2>2 DEF CauseInv, ServesInv, RequestOK
  <2> QED BY <2>2, <2>3 DEF Clean
<1>2. IndInv /\ CauseInv /\ [Next]_vars =>
        \A t \in Tabs : Turned(t) =>
          \/ upsets' > upsets
          \/ \E s \in Asking(t) : handlers[s].token = 0 \/ FamilyOf(handlers[s].token) \in spoiled
  BY <1>1
<1> QED BY <1>2, Invariance, CauseInvariance, PTL DEF Spec, RefusedForCause

=============================================================================
