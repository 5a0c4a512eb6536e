---------------------------- MODULE SessionTokens ----------------------------
(***************************************************************************)
(* The sessions of one account.  A sign-in starts a family of refresh tokens; *)
(* every refresh claims the presented token, mints a successor in the same    *)
(* family and links the two, in statements of its own, so handlers interleave *)
(* (jwt/refresh.ts).  Log-out, recovery, suspension and a change of role      *)
(* evict the account's sessions while refreshes are under way.  The tabs of a *)
(* browser share its refresh cookie, and take turns under a Web Lock          *)
(* (lib/fetch.ts).                                                            *)
(*                                                                         *)
(* A number stands for a refresh token and for the access token issued with   *)
(* it, in the order of issue.  The lifetime of access tokens, and that of the *)
(* deny-list entries, which is the same, are not modelled.                    *)
(***************************************************************************)
EXTENDS Integers, Sequences, FiniteSets

CONSTANTS Browsers, Tabs,
          Home,          \* the browser of each tab
          Slots,         \* handlers the auth service may be running at once
          None,
          HasLocks,      \* does the engine have navigator.locks?
          MaxTokens,     \* bound: tokens issued
          MaxClock,      \* bound: whole seconds that pass
          MaxUpsets,     \* bound: lost answers, failures, expiries, tabs closed or locked
          MaxEvictions   \* bound: evictions of the account

ASSUME SessionAssumption ==
  /\ Home \in [Tabs -> Browsers] /\ None \notin Tabs /\ HasLocks \in BOOLEAN
  /\ MaxTokens \in Nat /\ MaxClock \in Nat /\ MaxUpsets \in Nat /\ MaxEvictions \in Nat

VARIABLES account,   \* the users row: role and suspendedAt
          tokens,    \* the refresh_tokens table, with the access token of each row
          handlers,  \* requests at the auth service
          eviction,  \* the handler that evicts the sessions of the account
          cutoff,    \* deny-list: the second from which the subject's tokens serve
          denied,    \* deny-list: access tokens refused by their jti
          clock,     \* whole seconds
          cookie,    \* each browser's refresh cookie, 0 for none
          turns,     \* each browser's queue for the refresh lock
          tabs,
          spoiled,   \* history: families evicted, expired, suspended, or interrupted
          shut,      \* history: families the last eviction found
          slipped,   \* history: families it met between claim and mint
          upsets, evictions

serverVars == <<account, tokens, eviction, cutoff, denied>>
clientVars == <<cookie, turns, tabs>>
historyVars == <<spoiled, shut, slipped>>
vars == <<serverVars, handlers, clock, clientVars, historyVars, upsets, evictions>>

Tokens == 1 .. MaxTokens
Families == Tokens     \* a family is named for its first token
Roles == {"admin", "user"}
Origins == {"user", "background"}

Token == [family : 0 .. MaxTokens, live : BOOLEAN, stale : BOOLEAN,
          next : 0 .. MaxTokens, role : Roles, iat : 0 .. MaxClock]
NoToken == [family |-> 0, live |-> FALSE, stale |-> FALSE, next |-> 0,
            role |-> "user", iat |-> 0]

Steps == {"idle", "arrived", "reused", "expired", "active", "checked", "mint",
          "minted", "done"}
Handler == [at : Steps, tab : Tabs \cup {None}, signIn : BOOLEAN,
            token : 0 .. MaxTokens, role : Roles, new : 0 .. MaxTokens,
            answer : {"none", "ok", "refused", "failed"}]
Idle == [at |-> "idle", tab |-> None, signIn |-> FALSE, token |-> 0,
         role |-> "user", new |-> 0, answer |-> "none"]

Kinds == {"role", "suspend", "everywhere", "logout", "recover"}
Eviction == [at : {"none", "revoke", "deny"}, kind : Kinds,
             tab : Tabs \cup {None}, access : 0 .. MaxTokens, role : Roles,
             second : 0 .. MaxClock]
NoEviction == [at |-> "none", kind |-> "role", tab |-> None, access |-> 0,
               role |-> "user", second |-> 0]

Tab == [open : BOOLEAN, degraded : BOOLEAN, access : 0 .. MaxTokens,
        flight : {"none", "queued", "sent"}, askers : SUBSET Origins]
ClosedTab == [open |-> FALSE, degraded |-> FALSE, access |-> 0,
              flight |-> "none", askers |-> {}]

Issued == {t \in Tokens : tokens[t].family # 0}
FamilyOf(t) == IF t = 0 THEN 0 ELSE tokens[t].family
LiveIn(f) == {t \in Tokens : tokens[t].family = f /\ tokens[t].live}
LiveFamilies == {tokens[t].family : t \in {u \in Issued : tokens[u].live}}

(* A rotation that has claimed its token and not yet minted the successor.     *)
Rotating(s) == handlers[s].at = "mint" /\ ~handlers[s].signIn
Minting(f) == {s \in Slots : Rotating(s) /\ FamilyOf(handlers[s].token) = f}

(* The UPDATE ... SET revoked_at WHERE ... AND revoked_at IS NULL statements.  *)
Revoked(gone) == [t \in Tokens |-> IF t \in gone THEN [tokens[t] EXCEPT !.live = FALSE]
                                   ELSE tokens[t]]

(* The bearer check of both services: the jti and the subject's cutoff.        *)
Serves(t) == t \in Issued /\ t \notin denied /\ tokens[t].iat >= cutoff

(* The types of the tables, the requests, the tabs and their queues.           *)
RecordsTyped ==
  /\ account \in [role : Roles, suspended : BOOLEAN]
  /\ tokens \in [Tokens -> Token]
  /\ handlers \in [Slots -> Handler]
  /\ eviction \in Eviction
  /\ cutoff \in 0 .. MaxClock /\ clock \in 0 .. MaxClock
  /\ cookie \in [Browsers -> 0 .. MaxTokens]
  /\ tabs \in [Tabs -> Tab]
  /\ turns \in [Browsers -> Seq(Tabs)]
  /\ upsets \in 0 .. MaxUpsets /\ evictions \in 0 .. MaxEvictions

TypeOK ==
  /\ RecordsTyped
  /\ denied \subseteq Tokens
  /\ spoiled \subseteq Families /\ shut \subseteq Families /\ slipped \subseteq Families

Init ==
  /\ account = [role |-> "admin", suspended |-> FALSE]
  /\ tokens = [t \in Tokens |-> NoToken]
  /\ handlers = [s \in Slots |-> Idle]
  /\ eviction = NoEviction
  /\ cutoff = 0 /\ clock = 0 /\ denied = {}
  /\ cookie = [b \in Browsers |-> 0]
  /\ turns = [b \in Browsers |-> <<>>]
  /\ tabs = [t \in Tabs |-> ClosedTab]
  /\ spoiled = {} /\ shut = {} /\ slipped = {}
  /\ upsets = 0 /\ evictions = 0

-----------------------------------------------------------------------------
(* The handlers of the auth service.                                          *)

(* Room for one more token, counting those that are under way.                 *)
Due == Cardinality({s \in Slots : handlers[s].at \in {"arrived", "active", "checked", "mint"}})
       + Cardinality({t \in Tabs : tabs[t].flight = "queued"})
       + Cardinality({e \in {eviction} : e.at # "none" /\ e.kind = "recover"})
HasRoom == Cardinality(Issued) + Due < MaxTokens

FreeSlot(s) == handlers[s].at = "idle" /\ \A r \in Slots : r < s => handlers[r].at # "idle"

(* An answer nobody waits for any more leaves nothing behind.                  *)
Goes(s, step) == handlers' = [handlers EXCEPT ![s].at = step]
Answered(h, answer) ==
  IF h.tab = None THEN Idle ELSE [h EXCEPT !.at = "done", !.answer = answer]
Answers(s, answer) == handlers' = [handlers EXCEPT ![s] = Answered(@, answer)]
Unheard(h) == IF h.at = "done" THEN Idle ELSE [h EXCEPT !.tab = None]

(* rotateRefreshToken 34-61: the row of the presented token, if there is one.  *)
Look(s) ==
  LET h == handlers[s] IN
  /\ h.at = "arrived" /\ ~h.signIn
  /\ \/ /\ h.token = 0
        /\ Answers(s, "refused")
     \/ /\ h.token # 0 /\ ~tokens[h.token].live
        /\ IF tokens[h.token].next # 0 THEN Goes(s, "reused") ELSE Answers(s, "refused")
     \/ /\ h.token # 0 /\ tokens[h.token].live
        /\ Goes(s, IF tokens[h.token].stale THEN "expired" ELSE "active")
  /\ UNCHANGED <<serverVars, clock, clientVars, historyVars, upsets, evictions>>

(* A token that was rotated before: the family is revoked.                     *)
RevokeReused(s) ==
  /\ handlers[s].at = "reused"
  /\ tokens' = Revoked(LiveIn(FamilyOf(handlers[s].token)))
  /\ Answers(s, "refused")
  /\ UNCHANGED <<account, eviction, cutoff, denied, clock, clientVars, historyVars,
                 upsets, evictions>>

RevokeExpired(s) ==
  /\ handlers[s].at = "expired"
  /\ tokens' = Revoked({handlers[s].token})
  /\ Answers(s, "refused")
  /\ UNCHANGED <<account, eviction, cutoff, denied, clock, clientVars, historyVars,
                 upsets, evictions>>

(* The users row is read: its role is the one the new access token will carry. *)
CheckUser(s) ==
  /\ handlers[s].at = "active"
  /\ \/ /\ account.suspended
        /\ Answers(s, "refused")
        /\ spoiled' = spoiled \cup {FamilyOf(handlers[s].token)}
     \/ /\ ~account.suspended
        /\ handlers' = [handlers EXCEPT ![s].at = "checked", ![s].role = account.role]
        /\ UNCHANGED spoiled
  /\ UNCHANGED <<serverVars, clock, clientVars, shut, slipped, upsets, evictions>>

(* Fault: the claim looks for a successor, not for the revocation.             *)
ClaimableUnlessRotated(t) == tokens[t].next = 0

(* Fault: the claim has lost its condition.                                    *)
AlwaysClaimable(t) == TRUE

(* The claim matches the row only if it is there and unrevoked.                *)
Claimable(t) == t \in Issued /\ tokens[t].live
Claim(s) ==
  LET h == handlers[s] IN
  /\ h.at = "checked"
  /\ \/ /\ Claimable(h.token)
        /\ tokens' = Revoked({h.token})
        /\ Goes(s, "mint")
     \/ /\ ~Claimable(h.token)
        /\ Answers(s, "refused")
        /\ UNCHANGED tokens
  /\ UNCHANGED <<account, eviction, cutoff, denied, clock, clientVars, historyVars,
                 upsets, evictions>>

(* Password or passkey accepted: the users row is touched unless suspended.    *)
Admit(s) ==
  /\ handlers[s].at = "arrived" /\ handlers[s].signIn
  /\ \/ /\ account.suspended
        /\ Answers(s, "refused")
     \/ /\ ~account.suspended
        /\ handlers' = [handlers EXCEPT ![s].at = "mint", ![s].role = account.role]
  /\ UNCHANGED <<serverVars, clock, clientVars, historyVars, upsets, evictions>>

(* issueTokens: sign the access token, insert the refresh token.               *)
Mint(s) ==
  LET h == handlers[s]
      new == Cardinality(Issued) + 1
  IN /\ h.at = "mint" /\ new <= MaxTokens
     /\ tokens' = [tokens EXCEPT ![new] =
          [family |-> IF h.signIn THEN new ELSE FamilyOf(h.token), live |-> TRUE,
           stale |-> FALSE, next |-> 0, role |-> h.role, iat |-> clock]]
     /\ handlers' = [handlers EXCEPT ![s] =
          IF h.signIn THEN Answered([h EXCEPT !.new = new], "ok")
          ELSE [h EXCEPT !.at = "minted", !.new = new]]
     /\ UNCHANGED <<account, eviction, cutoff, denied, clock, clientVars, historyVars,
                    upsets, evictions>>

(* rotated_to_id: from now on the old token is known to have been rotated.     *)
LinkSuccessor(s) ==
  /\ handlers[s].at = "minted"
  /\ tokens' = [tokens EXCEPT ![handlers[s].token].next = handlers[s].new]
  /\ Answers(s, "ok")
  /\ UNCHANGED <<account, eviction, cutoff, denied, clock, clientVars, historyVars,
                 upsets, evictions>>

(* The service fails or restarts in the middle of a request; the statements it  *)
(* has run so far stay.  An interrupted rotation has no successor, or loses it. *)
FamilyAtRisk(s) == IF handlers[s].at \in {"mint", "minted"}
                   THEN {FamilyOf(handlers[s].token)} \ {0} ELSE {}
Fail(s) ==
  /\ handlers[s].at \notin {"idle", "done"} /\ upsets < MaxUpsets
  /\ upsets' = upsets + 1
  /\ spoiled' = spoiled \cup FamilyAtRisk(s)
  /\ Answers(s, "failed")
  /\ UNCHANGED <<serverVars, clock, clientVars, shut, slipped, evictions>>

-----------------------------------------------------------------------------
(* The evictions.  Each handler updates the account, revokes every refresh     *)
(* token, and then writes the deny-list.                                      *)

(* Log-out, of all devices or of this one.  The latter revokes only the family  *)
(* of a refresh cookie it is sent, which is left out: the cookie's path is the  *)
(* refresh route's, so a browser sends none here, and all families go.         *)
LogOut(kind) ==
  /\ kind \in {"everywhere", "logout"}
  /\ \E t \in Tabs :
       /\ Serves(tabs[t].access)
       /\ eviction' = [NoEviction EXCEPT !.at = "revoke", !.kind = kind, !.tab = t,
                                         !.access = tabs[t].access]
  /\ UNCHANGED account

Recover(kind) ==
  /\ kind = "recover" /\ HasRoom
  /\ \E t \in Tabs :
       /\ ~tabs[t].open
       /\ eviction' = [NoEviction EXCEPT !.at = "revoke", !.kind = kind, !.tab = t,
                                         !.role = account.role, !.second = clock]
  /\ UNCHANGED account

(* An admin's change of role or suspension, or one of the above.               *)
Begin(kind) ==
  /\ eviction.at = "none" /\ evictions < MaxEvictions
  /\ evictions' = evictions + 1
  /\ \/ /\ kind = "role"
        /\ account' = [account EXCEPT !.role = IF @ = "admin" THEN "user" ELSE "admin"]
        /\ eviction' = [NoEviction EXCEPT !.at = "revoke", !.kind = kind]
     \/ /\ kind = "suspend"
        /\ account' = [account EXCEPT !.suspended = TRUE]
        /\ eviction' = [NoEviction EXCEPT !.at = "revoke", !.kind = kind]
     \/ LogOut(kind) \/ Recover(kind)
  /\ UNCHANGED <<tokens, handlers, cutoff, denied, clock, clientVars, historyVars, upsets>>

(* revokeAllForUser.                                                           *)
RevokeAll ==
  /\ eviction.at = "revoke"
  /\ tokens' = Revoked(Issued)
  /\ shut' = {tokens[t].family : t \in Issued}
  /\ slipped' = {f \in Families : Minting(f) # {}}
  /\ spoiled' = spoiled \cup {tokens[t].family : t \in Issued}
  /\ eviction' = [eviction EXCEPT !.at = "deny"]
  /\ UNCHANGED <<account, handlers, cutoff, denied, clock, clientVars, upsets, evictions>>

(* denySub with the second it is called in, or with the one recovery began in;  *)
(* denyJti for a log-out of this device.  A log-out clears the cookie; recovery *)
(* goes on to issue a session of its own.                                      *)
Deny ==
  /\ eviction.at = "deny"
  /\ \/ /\ eviction.kind # "recover"
        /\ UNCHANGED handlers
     \/ /\ eviction.kind = "recover"
        /\ \E s \in Slots :
             /\ FreeSlot(s)
             /\ handlers' = [handlers EXCEPT ![s] = [Idle EXCEPT !.at = "mint", !.signIn = TRUE,
                               !.tab = eviction.tab, !.role = eviction.role]]
  /\ cutoff' = CASE eviction.kind = "logout" -> cutoff
                 [] eviction.kind = "recover" -> eviction.second
                 [] OTHER -> clock
  /\ denied' = IF eviction.kind = "logout" THEN denied \cup {eviction.access} ELSE denied
  /\ cookie' = IF eviction.kind \in {"logout", "everywhere"}
               THEN [cookie EXCEPT ![Home[eviction.tab]] = 0] ELSE cookie
  /\ eviction' = NoEviction
  /\ UNCHANGED <<account, tokens, clock, turns, tabs, historyVars, upsets, evictions>>

Unsuspend ==
  /\ account.suspended
  /\ account' = [account EXCEPT !.suspended = FALSE]
  /\ UNCHANGED <<tokens, eviction, cutoff, denied, handlers, clock, clientVars, historyVars,
                 upsets, evictions>>

(* A refresh token reaches its thirty days.                                    *)
Expire(t) ==
  /\ t \in Issued /\ tokens[t].live /\ ~tokens[t].stale /\ upsets < MaxUpsets
  /\ tokens' = [tokens EXCEPT ![t].stale = TRUE]
  /\ spoiled' = spoiled \cup {tokens[t].family}
  /\ upsets' = upsets + 1
  /\ UNCHANGED <<account, eviction, cutoff, denied, handlers, clock, clientVars, shut,
                 slipped, evictions>>

Tick ==
  /\ clock < MaxClock
  /\ clock' = clock + 1
  /\ UNCHANGED <<serverVars, handlers, clientVars, historyVars, upsets, evictions>>

-----------------------------------------------------------------------------
(* The tabs.                                                                  *)

(* Fault: a broken request, or a closed tab, keeps the lock.                   *)
Kept(queue, t) == queue

(* The place of a tab in the queue is given up.                               *)
Without(queue, t) ==
  IF \A i \in DOMAIN queue : queue[i] # t THEN queue
  ELSE LET place == CHOOSE i \in DOMAIN queue : queue[i] = t
       IN [i \in 1 .. Len(queue) - 1 |-> queue[IF i < place THEN i ELSE i + 1]]
Asking(t) == {s \in Slots : handlers[s].at # "idle" /\ handlers[s].tab = t /\ ~handlers[s].signIn}
SigningIn(t) == \E s \in Slots : handlers[s].tab = t /\ handlers[s].signIn

(* A locked app is unlocked online, or a degraded one is linked again.         *)
SignIn(t, s) ==
  /\ ~tabs[t].open \/ tabs[t].degraded
  /\ ~SigningIn(t) /\ eviction.tab # t /\ HasRoom /\ FreeSlot(s)
  /\ handlers' = [handlers EXCEPT ![s] = [Idle EXCEPT !.at = "arrived", !.tab = t, !.signIn = TRUE]]
  /\ UNCHANGED <<serverVars, clock, clientVars, historyVars, upsets, evictions>>

(* The local session opens whatever the server said, and the latch is cleared.  *)
Unlocked(t, access) ==
  tabs' = [tabs EXCEPT ![t].open = TRUE, ![t].degraded = FALSE, ![t].access = access]

SignedIn(t, s) ==
  LET h == handlers[s] IN
  /\ h.at = "done" /\ h.tab = t /\ h.signIn
  /\ Unlocked(t, IF h.answer = "ok" THEN h.new ELSE 0)
  /\ cookie' = IF h.answer = "ok" THEN [cookie EXCEPT ![Home[t]] = h.new] ELSE cookie
  /\ handlers' = [handlers EXCEPT ![s] = Idle]
  /\ UNCHANGED <<serverVars, clock, turns, historyVars, upsets, evictions>>

LoseSignIn(t, s) ==
  /\ handlers[s].tab = t /\ handlers[s].signIn /\ upsets < MaxUpsets
  /\ upsets' = upsets + 1
  /\ Unlocked(t, 0)
  /\ handlers' = [handlers EXCEPT ![s] = Unheard(@)]
  /\ UNCHANGED <<serverVars, clock, cookie, turns, historyVars, evictions>>

(* closeAndForget from the menu.                                               *)
SignOut(t) ==
  /\ tabs[t].open /\ upsets < MaxUpsets
  /\ upsets' = upsets + 1
  /\ tabs' = [tabs EXCEPT ![t].open = FALSE, ![t].access = 0]
  /\ UNCHANGED <<serverVars, handlers, clock, cookie, turns, historyVars, evictions>>

(* refreshAccessToken: the callers of one tab share one round trip.  A degraded *)
(* engine makes no background calls.                                           *)
Refresh(t, origin) ==
  /\ tabs[t].open /\ origin \notin tabs[t].askers
  /\ origin = "background" => ~tabs[t].degraded
  /\ IF tabs[t].flight # "none"
     THEN /\ tabs' = [tabs EXCEPT ![t].askers = @ \cup {origin}]
          /\ UNCHANGED turns
     ELSE /\ HasRoom
          /\ tabs' = [tabs EXCEPT ![t].askers = {origin}, ![t].flight = "queued"]
          /\ turns' = [turns EXCEPT ![Home[t]] = Append(@, t)]
  /\ UNCHANGED <<serverVars, handlers, clock, cookie, historyVars, upsets, evictions>>

(* Fault: tabs refresh without taking turns.                                   *)
NoTurns(t) == TRUE

(* withRefreshLock: exclusive and blocking, and no lock at all where there is none. *)
HasTurn(t) == HasLocks => Head(turns[Home[t]]) = t

(* classifyRefresh: the request carries the cookie of this moment.             *)
Send(t, s) ==
  /\ tabs[t].flight = "queued" /\ HasTurn(t) /\ FreeSlot(s)
  /\ tabs' = [tabs EXCEPT ![t].flight = "sent"]
  /\ handlers' = [handlers EXCEPT ![s] = [Idle EXCEPT !.at = "arrived", !.tab = t,
                                           !.token = cookie[Home[t]]]]
  /\ UNCHANGED <<serverVars, clock, cookie, turns, historyVars, upsets, evictions>>

(* What the callers make of the outcome.                                       *)
Refused(answer) == answer = "refused"
AfterAnswer(tab, answer, new) ==
  LET closes == Refused(answer) /\ "user" \in tab.askers IN
  [tab EXCEPT !.open = @ /\ ~closes,
              !.access = IF closes \/ ~tab.open THEN 0 ELSE IF answer = "ok" THEN new ELSE @,
              !.degraded = \/ Refused(answer) /\ "background" \in tab.askers
                           \/ @ /\ answer # "ok",
              !.flight = "none", !.askers = {}]

Receive(t, s) ==
  LET h == handlers[s] IN
  /\ s \in Asking(t) /\ h.at = "done"
  /\ tabs' = [tabs EXCEPT ![t] = AfterAnswer(@, h.answer, h.new)]
  /\ cookie' = IF h.answer = "ok" THEN [cookie EXCEPT ![Home[t]] = h.new] ELSE cookie
  /\ turns' = [turns EXCEPT ![Home[t]] = Without(@, t)]
  /\ handlers' = [handlers EXCEPT ![s] = Idle]
  /\ UNCHANGED <<serverVars, clock, historyVars, upsets, evictions>>

(* The connection breaks: the handler goes on, and its cookie never arrives.    *)
Lose(t, s) ==
  /\ s \in Asking(t) /\ upsets < MaxUpsets
  /\ upsets' = upsets + 1
  /\ spoiled' = spoiled \cup ({FamilyOf(handlers[s].token)} \ {0})
  /\ tabs' = [tabs EXCEPT ![t] = AfterAnswer(@, "failed", 0)]
  /\ turns' = [turns EXCEPT ![Home[t]] = Without(@, t)]
  /\ handlers' = [handlers EXCEPT ![s] = Unheard(@)]
  /\ UNCHANGED <<serverVars, clock, cookie, shut, slipped, evictions>>

(* Closed or reloaded: the session and the lock go, the latch is armed again    *)
(* from the stored attention, and the requests go on unheard.                  *)
CloseTab(t) ==
  /\ tabs[t].open /\ upsets < MaxUpsets
  /\ upsets' = upsets + 1
  /\ spoiled' = spoiled \cup ({FamilyOf(handlers[s].token) : s \in Asking(t)} \ {0})
  /\ tabs' = [tabs EXCEPT ![t] = [ClosedTab EXCEPT !.degraded = tabs[t].degraded]]
  /\ turns' = [turns EXCEPT ![Home[t]] = Without(@, t)]
  /\ handlers' = [s \in Slots |-> IF handlers[s].tab = t
                                  THEN Unheard(handlers[s]) ELSE handlers[s]]
  /\ UNCHANGED <<serverVars, clock, cookie, shut, slipped, evictions>>

-----------------------------------------------------------------------------
Handle(s) == \/ Look(s) \/ RevokeReused(s) \/ RevokeExpired(s) \/ CheckUser(s) \/ Claim(s)
             \/ Admit(s) \/ Mint(s) \/ LinkSuccessor(s)

Next ==
  \/ \E s \in Slots : Handle(s) \/ Fail(s)
  \/ \E kind \in Kinds : Begin(kind)
  \/ RevokeAll \/ Deny \/ Unsuspend \/ Tick
  \/ \E t \in Tokens : Expire(t)
  \/ \E t \in Tabs, s \in Slots : \/ SignIn(t, s) \/ SignedIn(t, s) \/ LoseSignIn(t, s)
                                  \/ Send(t, s) \/ Receive(t, s) \/ Lose(t, s)
  \/ \E t \in Tabs : SignOut(t) \/ CloseTab(t) \/ \E origin \in Origins : Refresh(t, origin)

Spec == Init /\ [][Next]_vars

(* The services run what they were asked, a request is answered or breaks, and *)
(* the holder of the refresh lock sends its request.                          *)
Fairness ==
  /\ \A s \in Slots : WF_vars(Handle(s))
  /\ WF_vars(RevokeAll) /\ WF_vars(Deny)
  /\ \A t \in Tabs : /\ WF_vars(\E s \in Slots : Send(t, s))
                     /\ WF_vars(\E s \in Slots : Receive(t, s))
                     /\ WF_vars(\E s \in Slots : SignedIn(t, s))
FairSpec == Spec /\ Fairness

-----------------------------------------------------------------------------
(* No family ever has two live refresh tokens, whatever refreshes, replays and *)
(* evictions race (jwt/refresh.ts:81-98).                                     *)
OneLiveToken ==
  \A f \in Families : Cardinality(LiveIn(f)) <= 1

(* A family that an eviction found stays dead: a refresh under way cannot carry *)
(* it across, unless it had claimed its token and not yet minted the next one   *)
(* when the eviction revoked (jwt/refresh.ts:88-105, 131-138).                 *)
EvictedStaysOut ==
  \A f \in shut \ slipped : LiveIn(f) = {} /\ Minting(f) = {}

(* What makes the two inductive.  Tokens are numbered in the order of issue, a   *)
(* family is named for one of them, and only issued tokens are live; what a     *)
(* rotation has claimed was issued; and a rotation that has claimed the live     *)
(* token of a family is the only one that may give it another.                  *)
IssuedInOrder ==
  /\ Issued = 1 .. Cardinality(Issued)
  /\ \A t \in Issued : tokens[t].family \in Issued
  /\ \A t \in Tokens : tokens[t].live => t \in Issued
  /\ shut \subseteq Issued
ClaimedAlone ==
  \A s \in Slots : Rotating(s) =>
     /\ handlers[s].token \in Issued
     /\ LiveIn(FamilyOf(handlers[s].token)) = {}
     /\ Minting(FamilyOf(handlers[s].token)) = {s}
LiveAlone ==
  \A t, u \in Tokens :
     tokens[t].live /\ tokens[u].live /\ tokens[t].family = tokens[u].family => t = u

IndInv == RecordsTyped /\ IssuedInOrder /\ ClaimedAlone /\ LiveAlone /\ EvictedStaysOut

(* Whatever makes its way into the history or the deny-list is a token that      *)
(* exists: a rotation is of an issued token, and a log-out of a served one.      *)
NamesInv ==
  /\ \A s \in Slots : handlers[s].at = "active" => handlers[s].token \in Issued
  /\ eviction.at # "none" /\ eviction.kind = "logout" => eviction.access \in Tokens

(* A tab is latched or closed by a refusal only where there is a cause: its     *)
(* family was evicted or ran out, a rotation of it was cut short, or it had no   *)
(* cookie, or the account is suspended.  Tabs that merely refresh together are   *)
(* never taken for a replay (lib/fetch.ts:150-166, 212-236).                   *)
Turned(t) == \/ ~tabs[t].degraded /\ tabs'[t].degraded
             \/ tabs[t].open /\ ~tabs'[t].open /\ tabs[t].flight = "sent" /\ tabs'[t].flight = "none"
RefusedForCause ==
  [][\A t \in Tabs : Turned(t) =>
       \/ upsets' > upsets
       \/ \E s \in Asking(t) : handlers[s].token = 0 \/ FamilyOf(handlers[s].token) \in spoiled]_vars

(* What makes it inductive, with locks: first, in each browser the tab whose     *)
(* turn it is, and no other, has a request on its way, and one.                  *)
TurnInv ==
  \A t \in Tabs :
    /\ tabs[t].flight # "none" => \E i \in DOMAIN turns[Home[t]] : turns[Home[t]][i] = t
    /\ tabs[t].flight = "sent" => Head(turns[Home[t]]) = t
    /\ \A r, s \in Asking(t) : tabs[t].flight = "sent" /\ r = s

(* The token a refresh presents, and the one a sign-in is answered with; a       *)
(* refresh has its new token once it is minted, and its own is spent before.     *)
Presents(h) == IF h.at # "idle" /\ ~h.signIn THEN h.token ELSE 0
Grants(h) == IF h.at = "done" /\ h.signIn /\ h.answer = "ok" THEN h.new ELSE 0
HasNew(h) == h.at = "minted" \/ (h.at = "done" /\ h.answer = "ok")
Spent(h) == h.at = "mint" \/ HasNew(h)

(* Tokens that go round were issued, and an expired one is accounted for.        *)
Known(h) ==
  /\ h.token \in Issued \cup {0}
  /\ h.at \in {"reused", "expired", "active", "checked", "minted"} => (~h.signIn /\ h.token # 0)
  /\ HasNew(h) => h.new \in Issued
  /\ (~h.signIn /\ HasNew(h)) => h.token # 0 /\ FamilyOf(h.new) = FamilyOf(h.token)
KnownInv ==
  /\ \A b \in Browsers : cookie[b] \in Issued \cup {0}
  /\ \A s \in Slots : Known(handlers[s])
  /\ \A t \in Tokens : tokens[t].stale => tokens[t].family \in spoiled

(* A family nothing has happened to is in the hands of one browser: in its        *)
(* cookie, in the one request that presents it, or in the answer to a sign-in.    *)
Clean(t) == t # 0 /\ FamilyOf(t) \notin spoiled
Kin(t, u) == Clean(t) /\ Clean(u) /\ FamilyOf(t) = FamilyOf(u)
PlaceInv ==
  /\ \A b, c \in Browsers : Kin(cookie[b], cookie[c]) => b = c
  /\ \A r, s \in Slots : Kin(Presents(handlers[r]), Presents(handlers[s])) => r = s
  /\ \A s \in Slots, b \in Browsers : Kin(Presents(handlers[s]), cookie[b]) =>
       Presents(handlers[s]) = cookie[b] /\ handlers[s].tab \in Tabs /\ Home[handlers[s].tab] = b
  /\ \A s \in Slots, b \in Browsers : ~Kin(Grants(handlers[s]), cookie[b])
  /\ \A r, s \in Slots : ~Kin(Grants(handlers[s]), Presents(handlers[r]))
  /\ \A r, s \in Slots : Kin(Grants(handlers[s]), Grants(handlers[r])) => r = s

(* What is in its hands serves, and is not refused.                             *)
RequestOK(h) ==
  Clean(Presents(h)) =>
    /\ h.tab \in Tabs /\ h.at \notin {"reused", "expired"}
    /\ h.at = "done" => h.answer \in {"ok", "failed"}
    /\ ~Spent(h) => tokens[h.token].live
    /\ HasNew(h) => tokens[h.new].live
GrantOK(h) == Clean(Grants(h)) => tokens[Grants(h)].live
CookieOK(b) ==
  Clean(cookie[b]) =>
    \/ tokens[cookie[b]].live
    \/ \E s \in Slots : Presents(handlers[s]) = cookie[b] /\ Spent(handlers[s])
ServesInv ==
  /\ \A s \in Slots : RequestOK(handlers[s]) /\ GrantOK(handlers[s])
  /\ \A b \in Browsers : CookieOK(b)

CauseInv == TurnInv /\ KnownInv /\ PlaceInv /\ ServesInv

(* A refresh that a tab has started comes to an end: the lock passes on, even   *)
(* from a tab that is closed while it holds it (lib/fetch.ts:159-166, 216-218). *)
RefreshSettles ==
  \A t \in Tabs : tabs[t].flight # "none" ~> tabs[t].flight = "none"

(* Not kept (README): "A role change must not leave stale-role tokens alive"     *)
(* (admin/users.ts:190): once its handler has ended no served access token      *)
(* carries another role.                                                       *)
RoleIsFresh ==
  eviction.at = "none" => \A t \in Issued : Serves(t) => tokens[t].role = account.role

=============================================================================
