----------------------------- MODULE GrantLease -----------------------------
(***************************************************************************)
(* One OAuth grant of the account, shared by its linked devices.  A refresh  *)
(* token may be presented once: a server that rotates tokens answers a       *)
(* second presentation by revoking the whole sign-in.  The devices agree on   *)
(* who presents it by compare-and-set on the grant's synced row              *)
(* (mcp/oauth/ensure-token.ts): the one that wins writes its claim into the    *)
(* row, refreshes, keeps the new pair locally, and publishes it with the      *)
(* claim taken out again.                                                    *)
(*                                                                         *)
(* A pair of tokens is a number, given in the order of issue; 0 is no pair.   *)
(* Whether an access token still serves is not modelled: a call that is      *)
(* content with it changes nothing.  The grant lock gives every device one    *)
(* call at a time.  The authorization server is external and strict.          *)
(***************************************************************************)
EXTENDS Integers, FiniteSets

CONSTANTS Devices,
          None,
          MaxPairs,      \* bound: pairs issued
          MaxUpsets,     \* bound: crashes, freezes, delays, failed or lost requests, removals
          MaxSignIns,    \* bound: new sign-ins
          SignInsLost,   \* may the answer to the publication of a sign-in be lost?
          Removing       \* may the user remove the server?

ASSUME GrantAssumption ==
  /\ None \notin Devices /\ MaxPairs \in Nat \ {0} /\ MaxUpsets \in Nat
  /\ MaxSignIns \in Nat /\ SignInsLost \in BOOLEAN /\ Removing \in BOOLEAN

VARIABLES server,    \* the grant's record at the sync service
          rows,      \* each device's row, with its pending fields and its syncRows rev
          calls,     \* what the holder of the grant lock is doing on each device
          strays,    \* pushes their sender has given up, which may still arrive
          next,      \* at the authorization server: the pair a token was rotated into
          family,    \* the sign-in a pair descends from, 0 if not issued
          revoked,   \* sign-ins that are revoked
          removing,  \* the deletion of the server is on its way
          doubted,   \* history: tokens freed in doubt, or taken over after a lease
          upsets

deviceVars == <<rows, calls>>
authVars == <<next, family, revoked>>
vars == <<server, deviceVars, strays, removing, authVars, doubted, upsets>>

Pairs == 1 .. MaxPairs
Issued == {p \in Pairs : family[p] # 0}
Used == {p \in Pairs : next[p] # 0}

Content == [tokens : 0 .. MaxPairs, claim : Devices \cup {None}]
Record == [rev : Nat, is : Content, gone : BOOLEAN]

(* pendingTokens, pendingBaseRev, pendingSpentRefresh, pendingNewFamily.       *)
Nothing == [pair |-> 0, base |-> 0, spent |-> 0, fresh |-> FALSE]
Pending == [pair : 0 .. MaxPairs, base : Nat, spent : 0 .. MaxPairs, fresh : BOOLEAN]
Empty == [tokens |-> 0, claim |-> None]
Row == [here : BOOLEAN, rev : Nat, is : Content, pending : Pending,
        buried : BOOLEAN,     \* the tombstone is behind the watermark, or queued
        claim : {"new", "watched", "lapsed"}]    \* the observation of its claim
NoRow == [here |-> FALSE, rev |-> 0, is |-> Empty, pending |-> Nothing,
          buried |-> TRUE, claim |-> "new"]

(* A call: which push it awaits, or that it presents a token or has its pair.  *)
(* The record it pushes, or the one a conflict answered with; the pending      *)
(* fields it publishes.  late: more than a minute since it asked for the claim. *)
Awaits == {"claim", "release", "kill", "publish"}
Idle == [at |-> "idle", base |-> 0, is |-> Empty, answer |-> "none",
         held |-> Nothing, sent |-> FALSE, late |-> FALSE]
Call == [at : {"idle", "present", "have"} \cup Awaits, base : Nat, is : Content,
         answer : {"none", "ok", "conflict", "tombstoned", "network"},
         held : Pending, sent : BOOLEAN, late : BOOLEAN]

Init ==
  /\ server = [rev |-> 1, is |-> [tokens |-> 1, claim |-> None], gone |-> FALSE]
  /\ rows = [d \in Devices |-> [here |-> TRUE, rev |-> 1, is |-> server.is,
                                pending |-> Nothing, buried |-> FALSE,
                                claim |-> "new"]]
  /\ calls = [d \in Devices |-> Idle]
  /\ strays = {} /\ removing = FALSE
  /\ next = [p \in Pairs |-> 0]
  /\ family = [p \in Pairs |-> IF p = 1 THEN 1 ELSE 0]
  /\ revoked = {} /\ doubted = {} /\ upsets = 0

Upset == upsets < MaxUpsets /\ upsets' = upsets + 1

-----------------------------------------------------------------------------
(* Pushes to the sync service.                                               *)

Pushing(at, base, is) == [Idle EXCEPT !.at = at, !.base = base, !.is = is]

(* The compare-and-set of the record store.                                  *)
Result(base) ==
  IF server.gone THEN "tombstoned" ELSE IF base = server.rev THEN "ok" ELSE "conflict"

Write(base, is) ==
  server' = IF Result(base) = "ok" THEN [server EXCEPT !.rev = @ + 1, !.is = is]
            ELSE server

(* A claim committed over another one: its lease was held to be over.          *)
TakenOver(at, base) ==
  IF at = "claim" /\ Result(base) = "ok" /\ server.is.claim # None
  THEN {server.is.tokens} \ {0} ELSE {}

(* A conflict is answered with the current record.                            *)
Serve(d) ==
  LET c == calls[d] IN
  /\ c.at \in Awaits /\ c.answer = "none"
  /\ Write(c.base, c.is)
  /\ calls' = [calls EXCEPT ![d].answer = Result(c.base),
       ![d].base = IF Result(c.base) = "conflict" THEN server.rev ELSE @,
       ![d].is = IF Result(c.base) = "conflict" THEN server.is ELSE @]
  /\ doubted' = doubted \cup TakenOver(c.at, c.base)
  /\ UNCHANGED <<rows, strays, removing, authVars, upsets>>

(* The request fails, or is given up and arrives yet, or its answer is lost.    *)
LosePush(d) ==
  LET c == calls[d] IN
  /\ Upset
  /\ c.at \in Awaits /\ c.answer # "network"
  /\ calls' = [calls EXCEPT ![d].answer = "network"]
  /\ \/ UNCHANGED strays
     \/ /\ c.answer = "none"
        /\ strays' = strays \cup {[at |-> c.at, base |-> c.base, is |-> c.is]}
  /\ SignInsLost \/ ~c.held.fresh \/ (c.answer # "ok" /\ strays' = strays)
  /\ UNCHANGED <<server, rows, removing, authVars, doubted>>

ArriveLate(s) ==
  /\ Write(s.base, s.is)
  /\ doubted' = doubted \cup TakenOver(s.at, s.base)
  /\ strays' = strays \ {s}
  /\ UNCHANGED <<deviceVars, removing, authVars, upsets>>

(* applyRecord: a record is taken in unless an equal or later rev is known; the *)
(* pending fields are local and stay.  What was observed of the claim counts    *)
(* for the old revision only.                                                *)
Adopted(r, rev, is) ==
  IF rev <= r.rev THEN r
  ELSE [r EXCEPT !.here = TRUE, !.rev = rev, !.is = is, !.claim = "new"]

(* An acknowledged push: row and rev, unless a pull was faster.                *)
Stored(r, c) == Adopted(r, c.base + 1, c.is)

Pull(d) ==
  /\ ~rows[d].buried
  /\ IF server.gone THEN rows' = [rows EXCEPT ![d] = NoRow]
     ELSE /\ server.rev > rows[d].rev
          /\ rows' = [rows EXCEPT ![d] = Adopted(@, server.rev, server.is)]
  /\ UNCHANGED <<server, calls, strays, removing, authVars, doubted, upsets>>

-----------------------------------------------------------------------------
(* ensureAccessToken, for a token that no longer serves.                       *)

Free(d) == calls[d].at = "idle" /\ rows[d].here

(* Step 3: its own pending pair goes first.  publishPending, and with it the    *)
(* tail of every sync cycle.                                                 *)
PublishedBody(r) == [tokens |-> r.pending.pair, claim |-> None]

Publish(d) ==
  /\ Free(d) /\ rows[d].pending.pair # 0
  /\ calls' = [calls EXCEPT ![d] =
       [Pushing("publish", rows[d].pending.base, PublishedBody(rows[d]))
          EXCEPT !.held = rows[d].pending]]
  /\ UNCHANGED <<server, rows, strays, removing, authVars, doubted, upsets>>

Wanting(d) == Free(d) /\ rows[d].pending.pair = 0 /\ rows[d].is.tokens # 0

(* Step 5, a claim seen for the first time at this revision.                   *)
Watch(d) ==
  /\ Wanting(d) /\ rows[d].is.claim # None
  /\ rows[d].claim = "new"
  /\ rows' = [rows EXCEPT ![d].claim = "watched"]
  /\ UNCHANGED <<server, calls, strays, removing, authVars, doubted, upsets>>

(* Five minutes with the claim in place.  Whoever asked for it, or for one      *)
(* before it, did so more than a minute ago.  A call that is held up counts as  *)
(* an upset, unless it lost an answer, which did.                             *)
Overslept(e, r) ==
  \/ calls[e].at = "present" /\ calls[e].base <= r
  \/ calls[e].at = "claim" /\ calls[e].base < r

LeaseOver(d) ==
  LET r == rows[d].rev IN
  /\ Wanting(d) /\ rows[d].is.claim # None
  /\ rows[d].claim = "watched"
  /\ rows' = [rows EXCEPT ![d].claim = "lapsed"]
  /\ calls' = [e \in Devices |-> [calls[e] EXCEPT !.late = @ \/ Overslept(e, r)]]
  /\ \/ Upset
     \/ /\ UNCHANGED upsets
        /\ \A e \in Devices : calls[e].at = "idle" \/ calls[e].base > r \/ calls[e].sent
  /\ UNCHANGED <<server, strays, removing, authVars, doubted>>

(* Fault: a claim is respected for ever.                                       *)
NeverLapsed(d) == FALSE

ClaimLapsed(d) == rows[d].claim = "lapsed"

(* Step 6.                                                                   *)
Claim(d) ==
  /\ Wanting(d)
  /\ rows[d].is.claim = None \/ ClaimLapsed(d)
  /\ calls' = [calls EXCEPT ![d] =
       Pushing("claim", rows[d].rev, [rows[d].is EXCEPT !.claim = d])]
  /\ UNCHANGED <<server, rows, strays, removing, authVars, doubted, upsets>>

Answered(d, at, answer) == calls[d].at = at /\ calls[d].answer = answer

AdoptCurrent(d) ==
  rows' = [rows EXCEPT ![d] = Adopted(@, calls[d].base, calls[d].is)]

Done(d) == calls' = [calls EXCEPT ![d] = Idle]

ClaimWon(d) ==
  /\ Answered(d, "claim", "ok")
  /\ rows' = [rows EXCEPT ![d] = Stored(@, calls[d])]
  /\ calls' = [calls EXCEPT ![d].at = "present", ![d].base = @ + 1,
                            ![d].answer = "none"]
  /\ UNCHANGED <<server, strays, removing, authVars, doubted, upsets>>

(* A conflict of any push but a publication: the current row is adopted and    *)
(* the call goes round again, or ends.                                        *)
Conflict(d) ==
  /\ calls[d].at \in Awaits \ {"publish"} /\ calls[d].answer = "conflict"
  /\ AdoptCurrent(d) /\ Done(d)
  /\ UNCHANGED <<server, strays, removing, authVars, doubted, upsets>>

(* A release or a kill that is stored.                                        *)
Settled(d) ==
  /\ Answered(d, "release", "ok") \/ Answered(d, "kill", "ok")
  /\ rows' = [rows EXCEPT ![d] = Stored(@, calls[d])]
  /\ Done(d)
  /\ UNCHANGED <<server, strays, removing, authVars, doubted, upsets>>

GiveUp(d) ==
  /\ calls[d].at \in Awaits
  /\ \/ calls[d].answer = "network"
     \/ calls[d].answer = "tombstoned" /\ calls[d].at # "publish"
  /\ Done(d)
  /\ UNCHANGED <<server, rows, strays, removing, authVars, doubted, upsets>>

-----------------------------------------------------------------------------
(* Step 7: present.                                                          *)

(* Fault: a tab that was frozen sends all the same.                            *)
NeverFrozen(d) == calls[d].at = "present"

MaySend(d) == calls[d].at = "present" /\ ~calls[d].late

Token(d) == calls[d].is.tokens

(* A tab sleeps for more than a minute.                                       *)
Freeze(d) ==
  /\ Upset
  /\ calls[d].at \in {"claim", "present"} /\ ~calls[d].late
  /\ calls' = [calls EXCEPT ![d].late = TRUE]
  /\ UNCHANGED <<server, rows, strays, removing, authVars, doubted>>

Freed(c) == Pushing("release", c.base, [c.is EXCEPT !.claim = None])

Rotated(t, p) ==
  /\ next' = [next EXCEPT ![t] = p]
  /\ family' = [family EXCEPT ![p] = family[t]]

NewPair(p) == p \in Pairs /\ p \notin Issued /\ \A q \in Pairs \ Issued : p <= q

Fresh(t) == next[t] = 0 /\ family[t] \notin revoked

(* The POST does not reach the authorization server, or its answer is lost.     *)
PostLost(d) ==
  /\ MaySend(d) /\ Upset
  /\ calls' = [calls EXCEPT ![d].sent = TRUE]
  /\ \/ UNCHANGED authVars
     \/ /\ Fresh(Token(d))
        /\ \E p \in Pairs : NewPair(p) /\ Rotated(Token(d), p)
        /\ UNCHANGED revoked
  /\ UNCHANGED <<server, rows, strays, removing, doubted>>

(* Answered with an error, "nothing was spent as far as we can tell".  It is a   *)
(* guess: an answer may have been lost before, or a gateway speak for a server  *)
(* that has rotated the token.                                               *)
PostFails(d) ==
  /\ MaySend(d) /\ Upset
  /\ calls' = [calls EXCEPT ![d] = Freed(@)]
  /\ \/ /\ doubted' = doubted \cup (IF calls[d].sent THEN {Token(d)} ELSE {})
        /\ UNCHANGED authVars
     \/ /\ Fresh(Token(d)) /\ doubted' = doubted \cup {Token(d)}
        /\ \E p \in Pairs : NewPair(p) /\ Rotated(Token(d), p)
        /\ UNCHANGED revoked
  /\ UNCHANGED <<server, rows, strays, removing>>

(* A first presentation is answered with a new pair; the retry of a lost one    *)
(* with the same pair by a server that has a grace period.                     *)
PostOk(d) ==
  /\ MaySend(d) /\ family[Token(d)] \notin revoked
  /\ \/ /\ Fresh(Token(d))
        /\ \E p \in Pairs : /\ NewPair(p) /\ Rotated(Token(d), p)
                            /\ calls' = [calls EXCEPT ![d].at = "have",
                                 ![d].held = [pair |-> p, base |-> calls[d].base,
                                              spent |-> Token(d), fresh |-> FALSE]]
     \/ /\ next[Token(d)] # 0 /\ calls[d].sent
        /\ calls' = [calls EXCEPT ![d].at = "have",
             ![d].held = [pair |-> next[Token(d)], base |-> calls[d].base,
                          spent |-> Token(d), fresh |-> FALSE]]
        /\ UNCHANGED <<next, family>>
  /\ UNCHANGED <<server, rows, strays, removing, revoked, doubted, upsets>>

(* A token presented again, or of a revoked sign-in: invalid_grant.            *)
PostInvalid(d) ==
  /\ MaySend(d) /\ ~Fresh(Token(d))
  /\ revoked' = revoked \cup {family[Token(d)]}
  /\ calls' = [calls EXCEPT ![d] = Pushing("kill", @.base, Empty)]
  /\ UNCHANGED <<server, rows, strays, removing, next, family, doubted, upsets>>

(* No answer for 25 seconds: the claim is released, the token may be spent.     *)
InDoubt(d) ==
  /\ MaySend(d) /\ calls[d].sent
  /\ calls' = [calls EXCEPT ![d] = Freed(@)]
  /\ doubted' = doubted \cup {Token(d)}
  /\ UNCHANGED <<server, rows, strays, removing, authVars, upsets>>

(* Fault: a frozen tab releases its claim whether or not a POST went out.       *)
AlwaysFreed(d) == [calls EXCEPT ![d] = Freed(@)]

AfterFreeze(d) ==
  IF calls[d].sent THEN [calls EXCEPT ![d] = Idle] ELSE [calls EXCEPT ![d] = Freed(@)]

Frozen(d) ==
  /\ calls[d].at = "present" /\ calls[d].late
  /\ calls' = AfterFreeze(d)
  /\ UNCHANGED <<server, rows, strays, removing, authVars, doubted, upsets>>

(* Step 8, written ahead, and on to step 9.  An update of a row that is gone    *)
(* writes nothing, and there is nothing to publish.                           *)
WriteAhead(d) ==
  LET c == calls[d] IN
  /\ c.at = "have"
  /\ IF rows[d].here
     THEN /\ rows' = [rows EXCEPT ![d].pending = c.held]
          /\ calls' = [calls EXCEPT ![d] =
               [Pushing("publish", c.base, [tokens |-> c.held.pair, claim |-> None])
                  EXCEPT !.held = c.held]]
     ELSE Done(d) /\ UNCHANGED rows
  /\ UNCHANGED <<server, strays, removing, authVars, doubted, upsets>>

(* The pair cannot be kept; the claim stays.                                  *)
WriteAheadFails(d) ==
  /\ Upset
  /\ calls[d].at = "have"
  /\ Done(d)
  /\ UNCHANGED <<server, rows, strays, removing, authVars, doubted>>

-----------------------------------------------------------------------------
(* Step 9: what becomes of a publication.                                     *)

(* Fault: the pending fields outlive the publication.                          *)
Uncleared(r) == r

Cleared(r) == [r EXCEPT !.pending = Nothing]

Published(d) ==
  /\ Answered(d, "publish", "ok")
  /\ rows' = [rows EXCEPT ![d] = Cleared(Stored(@, calls[d]))]
  /\ Done(d)
  /\ UNCHANGED <<server, strays, removing, authVars, doubted, upsets>>

(* The server was removed: the pair is revoked as well, and discarded.          *)
Discarded(d) ==
  /\ Answered(d, "publish", "tombstoned")
  /\ rows' = [rows EXCEPT ![d] = Cleared(@)]
  /\ Done(d)
  /\ UNCHANGED <<server, strays, removing, authVars, doubted, upsets>>

(* Fault: a kept pair is pushed over whatever the row holds.                    *)
WhateverThere(c) == TRUE

(* Fault: only a row without a foreign claim is pushed over.                    *)
NothingNewerUnclaimed(c) == c.is.tokens = c.held.spent /\ c.is.claim = None

(* "Nothing newer exists; the row may carry another device's claim."           *)
NothingNewer(c) == c.held.fresh \/ c.is.tokens = c.held.spent

Rebase(d) ==
  /\ Answered(d, "publish", "conflict") /\ NothingNewer(calls[d])
  /\ calls' = [calls EXCEPT ![d] = [@ EXCEPT !.answer = "none",
                 !.is = [tokens |-> calls[d].held.pair, claim |-> None]]]
  /\ UNCHANGED <<server, rows, strays, removing, authVars, doubted, upsets>>

(* Three times, then the pair is kept for a later attempt.                     *)
Kept(d) ==
  /\ Answered(d, "publish", "conflict") /\ NothingNewer(calls[d])
  /\ Upset
  /\ Done(d)
  /\ UNCHANGED <<server, rows, strays, removing, authVars, doubted>>

Superseded(d) ==
  /\ Answered(d, "publish", "conflict") /\ ~NothingNewer(calls[d])
  /\ rows' = [rows EXCEPT ![d] = Cleared(Adopted(@, calls[d].base, calls[d].is))]
  /\ Done(d)
  /\ UNCHANGED <<server, strays, removing, authVars, doubted, upsets>>

-----------------------------------------------------------------------------
(* The user and the tab.                                                     *)

(* storeGrant: a new family, stored as pending and published at once.          *)
SignIn(d) ==
  /\ calls[d].at = "idle" /\ ~rows[d].buried
  /\ \E p \in Pairs :
       /\ NewPair(p)
       /\ LET f == 1 + Cardinality({family[q] : q \in Issued})
              new == [pair |-> p, base |-> rows[d].rev, spent |-> 0, fresh |-> TRUE]
          IN /\ f <= 1 + MaxSignIns
             /\ family' = [family EXCEPT ![p] = f]
             /\ rows' = [rows EXCEPT ![d].here = TRUE, ![d].is = Empty,
                                     ![d].pending = new]
             /\ calls' = [calls EXCEPT ![d] =
                  [Pushing("publish", new.base, [tokens |-> p, claim |-> None])
                     EXCEPT !.held = new]]
  /\ UNCHANGED <<server, strays, removing, next, revoked, doubted, upsets>>

(* removeGrant, which does not take the grant lock: the row goes, and its       *)
(* tombstone is queued.  The tokens held are revoked, if that succeeds, which  *)
(* no one reads afterwards.                                                  *)
Remove(d) ==
  /\ Removing /\ Upset
  /\ ~removing /\ rows[d].here
  /\ removing' = TRUE
  /\ rows' = [rows EXCEPT ![d].here = FALSE, ![d].pending = Nothing, ![d].buried = TRUE]
  /\ UNCHANGED <<server, calls, strays, authVars, doubted>>

Bury ==
  /\ removing /\ ~server.gone
  /\ server' = [server EXCEPT !.gone = TRUE]
  /\ UNCHANGED <<deviceVars, strays, removing, authVars, doubted, upsets>>

(* The tab is closed, or the storage fails under the call.                     *)
Crash(d) ==
  /\ Upset
  /\ calls[d].at # "idle"
  /\ SignInsLost \/ ~calls[d].held.fresh
  /\ calls' = [calls EXCEPT ![d] = Idle]
  /\ rows' = [rows EXCEPT ![d].claim = "new"]
  /\ strays' \in {strays} \cup
       (IF calls[d].at \in Awaits /\ calls[d].answer = "none"
        THEN {strays \cup {[at |-> calls[d].at, base |-> calls[d].base,
                            is |-> calls[d].is]}} ELSE {})
  /\ UNCHANGED <<server, removing, authVars, doubted>>

-----------------------------------------------------------------------------
Present(d) ==
  \/ PostLost(d) \/ PostFails(d) \/ PostOk(d) \/ PostInvalid(d)
  \/ InDoubt(d) \/ Frozen(d) \/ WriteAhead(d) \/ WriteAheadFails(d)

Settle(d) ==
  \/ ClaimWon(d) \/ Conflict(d) \/ Settled(d) \/ GiveUp(d)
  \/ Published(d) \/ Discarded(d) \/ Rebase(d) \/ Kept(d) \/ Superseded(d)

Next ==
  \/ \E d \in Devices :
       \/ Serve(d) \/ LosePush(d) \/ Pull(d)
       \/ Publish(d) \/ Watch(d) \/ LeaseOver(d) \/ Claim(d)
       \/ Present(d) \/ Settle(d) \/ Freeze(d) \/ Crash(d)
       \/ SignIn(d) \/ Remove(d)
  \/ \E s \in strays : ArriveLate(s)
  \/ Bury

Spec == Init /\ [][Next]_vars

(* Requests are answered or time out and calls go on, every device syncs, goes  *)
(* on asking for a token, and gets to claim it some time.  The steps of a       *)
(* device are enabled one at a time, so fairness is stated of all of them.     *)
GoesOn(d) ==
  \/ Serve(d) \/ Settle(d) \/ Publish(d) \/ Watch(d) \/ LeaseOver(d)
  \/ PostOk(d) \/ PostInvalid(d) \/ Frozen(d) \/ WriteAhead(d)

Fairness ==
  \A d \in Devices : WF_vars(GoesOn(d)) /\ WF_vars(Pull(d)) /\ SF_vars(Claim(d))

FairSpec == Spec /\ Fairness

-----------------------------------------------------------------------------
(* Properties.                                                               *)

(* Type correctness.                                                         *)
TypeOK ==
  /\ server \in Record
  /\ rows \in [Devices -> Row]
  /\ calls \in [Devices -> Call]
  /\ \A s \in strays : s.at \in Awaits /\ s.base \in Nat /\ s.is \in Content
  /\ removing \in BOOLEAN
  /\ next \in [Pairs -> 0 .. MaxPairs]
  /\ family \in [Pairs -> 0 .. 1 + MaxSignIns]
  /\ revoked \subseteq 1 .. 1 + MaxSignIns
  /\ doubted \subseteq 0 .. MaxPairs
  /\ upsets \in 0 .. MaxUpsets

(* No two devices are ever about to present one refresh token: whatever claims  *)
(* are lost, arrive late or outlive their lease, the second is held off until   *)
(* the first can no longer send.                                             *)
OnePresenter ==
  \A d, e \in Devices :
    d # e /\ MaySend(d) /\ MaySend(e) => Token(d) # Token(e)

(* A refresh token the server has already rotated is presented again only by   *)
(* the call that lost the answer, or after it was freed in doubt or taken over  *)
(* from a lapsed claim, which the design accepts.                             *)
NoReplay ==
  \A d \in Devices :
    MaySend(d) /\ next[Token(d)] # 0 => calls[d].sent \/ Token(d) \in doubted

(* Pending pairs are discarded on explicit outcomes only, "because it may be    *)
(* the only live pair": a pair that the row or a device has stays in one or     *)
(* the other until it is rotated itself, its sign-in is revoked or replaced, or *)
(* the server is removed; or the record, emptied before, has replaced it too.   *)
Held(p) == server.is.tokens = p \/ \E d \in Devices : rows[d].pending.pair = p

Superfluous(p) ==
  \/ next[p] # 0 \/ family[p] \in revoked
  \/ server.gone \/ removing
  \/ server.is.tokens # 0 /\ family[server.is.tokens] # family[p]
  \/ \E d \in Devices : /\ rows[d].pending.fresh
                        /\ family[rows[d].pending.pair] # family[p]

PairNotDropped ==
  [][\A p \in Issued : Held(p) =>
       Held(p)' \/ Superfluous(p)' \/ server.is.tokens = 0]_vars

(* Within one sign-in the row only ever moves on to a later pair: a publication *)
(* that is retried, rebased or late does not bring a spent token back.         *)
Onward(p, q) == p # 0 /\ q # 0 /\ family[p] = family[q] => p <= q

RowMovesOnward == [][Onward(server.is.tokens, server.is.tokens')]_vars

(* Not kept (README): "a restore must not revive sealed tokens": once a grant   *)
(* was deleted on a device it does not come back there.                        *)
GoneForGood == \A d \in Devices : rows[d].buried => ~rows[d].here

(* A claim its holder will not release is taken over in the end.               *)
ClaimsEnd ==
  server.is.claim # None ~> server.is.claim = None \/ server.gone \/ Issued = Pairs

(* A pair kept on a device does not stay unpublished.                          *)
PairsSettle ==
  \A d \in Devices : rows[d].pending.pair # 0 ~> rows[d].pending.pair = 0

-----------------------------------------------------------------------------
(* The inductive invariant, for ~SignInsLost.  A call is a holder from its      *)
(* claim to the end of its presentation; the revision its claim committed is    *)
(* its own, and orders the holders.                                          *)

Asks(d) == calls[d].at \in Awaits /\ calls[d].answer = "none"

Holder(d) ==
  calls[d].at = "present" \/ (calls[d].at = "claim" /\ calls[d].answer = "ok")

HeldAt(d) == IF calls[d].at = "present" THEN calls[d].base ELSE calls[d].base + 1

HolderAt(r) == \E d \in Devices : Holder(d) /\ HeldAt(d) = r

(* The device has the unpublished pair p of a new sign-in.                      *)
Carries(d, p) ==
  /\ calls[d].answer # "ok"
  /\ \/ rows[d].pending.fresh /\ rows[d].pending.pair = p
     \/ calls[d].held.fresh /\ calls[d].held.pair = p

(* What a call carries came from the record, not from its own publication.      *)
Reads(d) == calls[d].at # "publish" \/ calls[d].answer \in {"ok", "conflict"}

(* A pair others may know of: it was published, or rotated.                    *)
Shown(x) ==
  \/ server.is.tokens = x
  \/ next[x] # 0
  \/ \E d \in Devices : rows[d].is.tokens = x
  \/ \E d \in Devices : Reads(d) /\ Token(d) = x

(* A pair is rotated into a later one of its sign-in, from one pair only.        *)
IssuedInOrder ==
  /\ \A x \in Pairs : next[x] # 0 =>
       x < next[x] /\ family[x] # 0 /\ family[next[x]] = family[x]
  /\ \A x, y \in Pairs : next[x] # 0 /\ next[x] = next[y] => x = y
  /\ \A x \in Pairs : Shown(x) => family[x] # 0
  /\ \A x, y \in Pairs : x < y /\ family[y] # 0 => family[x] # 0

SignInsNumbered == \E n \in 0 .. 1 + MaxSignIns : {family[q] : q \in Issued} = 1 .. n

(* A row with tokens that is up to date is the record.                          *)
RowOK(d) ==
  /\ rows[d].rev <= server.rev
  /\ rows[d].rev = server.rev /\ rows[d].is.tokens # 0 => rows[d].is = server.is

(* A kept pair is one of a new sign-in, or what the spent token rotated into.    *)
SpentOK(h) == h.pair # 0 /\ (~h.fresh => h.spent # 0 /\ next[h.spent] = h.pair)

FitsOn(base, spent) ==
  base <= server.rev /\ (base = server.rev => server.is.tokens = spent)

PendingOK(d) ==
  LET p == rows[d].pending IN
  /\ p.pair = 0 => p = Nothing
  /\ p.pair # 0 =>
       /\ SpentOK(p) /\ p.base <= server.rev
       /\ ~p.fresh => FitsOn(p.base, p.spent)
       /\ calls[d].at # "idle" => calls[d].at = "publish" /\ calls[d].held = p

(* What a call carries, and what it was answered.                               *)
CallOK(d) ==
  LET c == calls[d] IN
  /\ c.base <= server.rev
  /\ c.at = "idle" => c = Idle
  /\ c.at \in {"present", "have"} => c.answer = "none"
  /\ c.at \notin {"publish", "have"} => c.held = Nothing
  /\ c.at = "have" => /\ ~c.held.fresh /\ SpentOK(c.held) /\ c.held.base = c.base
                      /\ c.held.spent = c.is.tokens
                      /\ FitsOn(c.base, c.is.tokens)
  /\ c.at = "publish" => SpentOK(c.held)
  /\ c.at = "publish" /\ c.answer = "none" =>
       /\ c.is.tokens = c.held.pair /\ c.is.claim = None
       /\ ~c.held.fresh => FitsOn(c.base, c.held.spent)
  /\ c.answer = "ok" =>
       c.base < server.rev /\ (c.base + 1 = server.rev => c.is = server.is)
  /\ c.answer = "conflict" => (c.base = server.rev => c.is = server.is)

AllLate == \A d \in Devices : Holder(d) => calls[d].late

(* What a push must be, should it commit now: a claim takes the token of the     *)
(* record, over another claim only when no holder can send any more; a release   *)
(* or a kill comes from the holder that just left.                             *)
Settles(at, is) ==
  /\ at = "claim" => /\ is.tokens # 0 /\ is.tokens = server.is.tokens
                     /\ is.claim # None
                     /\ server.is.claim = None \/ AllLate
  /\ at = "release" => /\ is.tokens # 0 /\ is.tokens = server.is.tokens
                       /\ is.claim = None
                       /\ next[is.tokens] # 0 => is.tokens \in doubted
                       /\ ~HolderAt(server.rev)
  /\ at = "kill" => is = Empty /\ ~HolderAt(server.rev)
  /\ at = "publish" => /\ is.tokens # 0 /\ is.claim = None
                       /\ server.is.tokens # 0
                       /\ next[server.is.tokens] = is.tokens

Sound(at, base, is) ==
  base <= server.rev /\ (base = server.rev => Settles(at, is))

AskOK(d) ==
  Asks(d) /\ calls[d].at # "publish" => Sound(calls[d].at, calls[d].base, calls[d].is)

StraysOK == \A s \in strays : Sound(s.at, s.base, s.is)

(* A holder's claim is the record, or the record has moved on to another token,  *)
(* or it was taken over when the holder was late.                              *)
HolderOK(d) ==
  Holder(d) =>
    /\ Token(d) # 0 /\ HeldAt(d) <= server.rev
    /\ \/ HeldAt(d) = server.rev /\ server.is.tokens = Token(d) /\ server.is.claim # None
       \/ HeldAt(d) < server.rev /\ server.is.tokens # Token(d)
       \/ HeldAt(d) < server.rev /\ calls[d].late /\ Token(d) \in doubted
    /\ next[Token(d)] # 0 => calls[d].sent \/ Token(d) \in doubted

(* Two holders have different revisions, and share a token only when one is late. *)
Apart(d, e) ==
  Holder(d) /\ Holder(e) =>
    /\ HeldAt(d) # HeldAt(e)
    /\ Token(d) = Token(e) => /\ calls[d].late \/ calls[e].late
                              /\ Token(d) \in doubted

(* Behind a lapsed claim every holder is late.                                  *)
LapsedOK(e) ==
  rows[e].claim = "lapsed" =>
    \A d \in Devices : Holder(d) /\ HeldAt(d) <= rows[e].rev => calls[d].late

(* An unclaimed token of the record is unspent, or doubted.                     *)
FreeOfDoubt ==
  server.is.claim = None /\ server.is.tokens # 0 /\ next[server.is.tokens] # 0
    => server.is.tokens \in doubted

(* While the record holds a spent token, no one has seen the pair after it.      *)
Unpublished ==
  server.is.tokens # 0 /\ next[server.is.tokens] # 0 => ~Shown(next[server.is.tokens])

(* The pair of a new sign-in is alone in its family and known to one device.     *)
FreshOK(d) ==
  \A p \in Pairs : Carries(d, p) =>
    /\ family[p] # 0 /\ ~Shown(p)
    /\ \A q \in Pairs : next[q] # p
    /\ \A q \in Pairs : family[q] = family[p] => q = p
    /\ \A e \in Devices \ {d} : ~Carries(e, p)

IndInv ==
  /\ TypeOK
  /\ IssuedInOrder /\ SignInsNumbered
  /\ \A d \in Devices : RowOK(d) /\ PendingOK(d) /\ CallOK(d)
  /\ \A d \in Devices : AskOK(d)
  /\ StraysOK
  /\ \A d \in Devices : HolderOK(d) /\ LapsedOK(d) /\ FreshOK(d)
  /\ \A d, e \in Devices : d # e => Apart(d, e)
  /\ FreeOfDoubt /\ Unpublished

-----------------------------------------------------------------------------
(* What PairNotDropped needs besides: the last pair of a sign-in is one; a kill  *)
(* on its way is for a revoked sign-in.                                        *)
OneTip ==
  \A x, y \in Issued : family[x] = family[y] /\ next[x] = 0 /\ next[y] = 0 => x = y

Deadly(at, base) ==
  at = "kill" /\ base = server.rev /\ server.is.tokens # 0 =>
    family[server.is.tokens] \in revoked

KillsOK ==
  /\ \A d \in Devices : Asks(d) => Deadly(calls[d].at, calls[d].base)
  /\ \A s \in strays : Deadly(s.at, s.base)

(* What a publication was answered, and what has become of the record since.     *)
OutcomeOK(d) ==
  LET c == calls[d] IN
  c.at = "publish" =>
    /\ c.answer = "ok" => c.is.tokens = c.held.pair
    /\ c.answer = "tombstoned" => server.gone
    /\ c.answer = "conflict" /\ ~c.held.fresh /\ c.is.tokens # c.held.spent
         => server.is.tokens # c.held.spent

KeepInv == OneTip /\ KillsOK /\ \A d \in Devices : OutcomeOK(d)

=============================================================================
