---------------------------- MODULE StreamManager ----------------------------
(***************************************************************************)
(* The replies of one chat as the stream manager writes them                  *)
(* (state/stream-manager.store.ts): a send, a re-roll and a greeting each     *)
(* stream into a message row, and one handle per chat says which of them is   *)
(* live.  The handle is looked up by the chat, not by the stream, so streams  *)
(* that overlap meet in it.  Rows are numbered in the order of their creation; *)
(* a user message comes just before the reply of the same number.            *)
(*                                                                         *)
(* A write to the database takes effect when it is issued, which is the order *)
(* IndexedDB keeps; what follows the await of the write is a step of its own. *)
(***************************************************************************)
EXTENDS Integers, FiniteSets, FiniteSetsExt

CONSTANTS MaxAttempts,   \* bound: sends, re-rolls and greetings
          Earlier,       \* bound: those of them that earlier visits to the chat made
          MaxRounds,     \* MAX_TOOL_ROUNDS: then the model must answer
          MaxFaults      \* bound: failures and reloads of the page

ASSUME StreamAssumption ==
  MaxAttempts \in Nat \ {0} /\ Earlier \in 0 .. MaxAttempts /\ MaxRounds \in Nat /\ MaxFaults \in Nat

VARIABLES rows,           \* the persona messages of the chat
          users,          \* the user messages of the chat
          openerPending,  \* does the chat still await its greeting?
          handle,         \* streams.get(chatId)
          run,            \* the attempts, from the click to their last step
          kept,           \* history: rows the user stopped and did not give up
          faults

vars == <<rows, users, openerPending, handle, run, kept, faults>>

Attempts == 1 .. MaxAttempts

Row == [state : {"none", "incomplete", "complete", "gone"},
        greeting : BOOLEAN,
        by : SUBSET Attempts,    \* whose text it shows
        whole : BOOLEAN]         \* all of it, as the engine assembled it
NoRow == [state |-> "none", greeting |-> FALSE, by |-> {}, whole |-> FALSE]

Handle == [owner : {0} \cup Attempts, row : {0} \cup Attempts, reused : BOOLEAN,
           opener : BOOLEAN, buf : SUBSET Attempts]
NoHandle == [owner |-> 0, row |-> 0, reused |-> FALSE, opener |-> FALSE, buf |-> {}]

Kinds == {"send", "reroll", "opener", "regreet"}
Stages == {"unborn", "editing", "retrying", "retracting", "retracted", "discarding",
           "asked", "located", "checked", "compacting", "compacted", "refused",
           "preparing", "streaming", "tool", "finalising", "unwritten", "done",
           "failing", "broken", "over"}
Run == [kind : Kinds, stage : Stages, row : {0} \cup Attempts,
        text : {0} \cup Attempts,    \* what the user wrote, by the send it was first in
        msg : {0} \cup Attempts,     \* the user message it edits or takes back
        rounds : 0 .. MaxRounds,     \* tool rounds it has had
        stopped : BOOLEAN]           \* its AbortController fired, before its last write failed
Unborn == [kind |-> "send", stage |-> "unborn", row |-> 0, text |-> 0, msg |-> 0,
           rounds |-> 0, stopped |-> FALSE]

TypeOK ==
  /\ rows \in [Attempts -> Row]
  /\ users \in [Attempts -> {0} \cup Attempts]    \* the text, 0 when there is none
  /\ openerPending \in BOOLEAN
  /\ handle \in Handle
  /\ run \in [Attempts -> Run]
  /\ kept \subseteq Attempts
  /\ faults \in 0 .. MaxFaults

(* A chat created for a persona that greets (useCreateChat sets openerPending), *)
(* or one with an exchange from each of the earlier attempts.                 *)
Answered(r) == [state |-> "complete", greeting |-> FALSE, by |-> {r}, whole |-> TRUE]

Init ==
  /\ \E past \in {{}, 1 .. Earlier} :
       /\ rows = [r \in Attempts |-> IF r \in past THEN Answered(r) ELSE NoRow]
       /\ users = [r \in Attempts |-> IF r \in past THEN r ELSE 0]
       /\ openerPending = (past = {})
  /\ handle = NoHandle
  /\ run = [i \in Attempts |-> IF i <= Earlier THEN [Unborn EXCEPT !.stage = "over"] ELSE Unborn]
  /\ kept = {}
  /\ faults = 0

-----------------------------------------------------------------------------
Live == handle # NoHandle
Present == {r \in Attempts : rows[r].state \in {"incomplete", "complete"}}
Said == {r \in Attempts : users[r] # 0}
IsGreeting(i) == run[i].kind \in {"opener", "regreet"}
Greetings == {r \in Present : rows[r].greeting}
Begun == {r \in Attempts : rows[r].state # "none"}
NextRow == Cardinality(Begun) + 1

(* An aborted fetch rejects in a microtask: before any other task of the page. *)
(* Work that does not watch the signal finishes first.                        *)
Rejects(i) == run[i].stage = "streaming" /\ run[i].stopped
Settled == \A i \in Attempts : ~Rejects(i)

Becomes(i, stage) == run' = [run EXCEPT ![i].stage = stage]

NextAttempt == {i \in Attempts : /\ run[i].stage = "unborn"
                                 /\ \A j \in 1 .. i - 1 : run[j].stage # "unborn"}
Asked(kind, row, text, msg, stage) ==
  [Unborn EXCEPT !.kind = kind, !.stage = stage, !.row = row, !.text = text, !.msg = msg]
Asks(i, kind, row, text, msg, stage) ==
  i \in NextAttempt /\ run' = [run EXCEPT ![i] = Asked(kind, row, text, msg, stage)]

(* An abort means nothing to a stream whose last transaction has failed. *)
Heeds(i) == run[i].stage # "unwritten"

(* messages.update: a row that is no longer there stays away. *)
Content(state, by, whole, r) ==
  [rows EXCEPT ![r] = [state |-> state, greeting |-> rows[r].greeting,
                       by |-> by, whole |-> whole]]
(* Fault: messages.put, which would bring a deleted row back. *)
Put(state, by, whole, r) == Content(state, by, whole, r)
Update(state, by, whole, r) == IF r \in Present THEN Content(state, by, whole, r) ELSE rows

Cleared(r) == Update("incomplete", {}, FALSE, r)
Partly(r, buf) == Update("incomplete", buf, FALSE, r)
Removed(r) == Content("gone", {}, FALSE, r)
Drafted(r, greeting) ==
  [rows EXCEPT ![r] = [NoRow EXCEPT !.state = "incomplete", !.greeting = greeting]]

Installed(i, row, reused, opener) ==
  handle' = [owner |-> i, row |-> row, reused |-> reused, opener |-> opener, buf |-> {}]

-----------------------------------------------------------------------------
(* Sending.  The cockpit sends while no handle is there; useSendMessage reads  *)
(* the persona and the history before start looks again.                      *)
Send(i) ==
  /\ ~Live /\ Asks(i, "send", 0, i, 0, "asked")
  /\ UNCHANGED <<rows, users, openerPending, handle, kept, faults>>

(* start throws when a stream is live: the typed text is still in the composer. *)
Check(i) ==
  /\ run[i].kind = "send" /\ run[i].stage = "asked"
  /\ Becomes(i, IF Live THEN "over" ELSE "checked")
  /\ UNCHANGED <<rows, users, openerPending, handle, kept, faults>>

(* The context would overflow and nobody compacts this chat: compact first. *)
Compact(i) ==
  /\ run[i].stage = "checked" /\ \A j \in Attempts : run[j].stage # "compacting"
  /\ Becomes(i, "compacting")
  /\ UNCHANGED <<rows, users, openerPending, handle, kept, faults>>

CompactOk(i) ==
  /\ run[i].stage = "compacting" /\ Becomes(i, "compacted")
  /\ UNCHANGED <<rows, users, openerPending, handle, kept, faults>>

(* Nothing is sent; a toast offers the same send again for eight seconds. *)
CompactFails(i) ==
  /\ run[i].stage = "compacting" /\ faults < MaxFaults
  /\ faults' = faults + 1 /\ Becomes(i, "refused")
  /\ UNCHANGED <<rows, users, openerPending, handle, kept>>

TakeToast(i) ==
  /\ run[i].stage = "refused" /\ Becomes(i, IF Live THEN "over" ELSE "checked")
  /\ UNCHANGED <<rows, users, openerPending, handle, kept, faults>>

ToastGone(i) ==
  /\ run[i].stage = "refused" /\ Becomes(i, "over")
  /\ UNCHANGED <<rows, users, openerPending, handle, kept, faults>>

(* The transaction of start, and the handle of the reply it begins. *)
Post(i) ==
  /\ run[i].stage \in {"checked", "compacted"}
  /\ users' = [users EXCEPT ![NextRow] = run[i].text]
  /\ rows' = Drafted(NextRow, FALSE)
  /\ openerPending' = FALSE
  /\ Installed(i, NextRow, FALSE, FALSE)
  /\ run' = [run EXCEPT ![i].stage = "preparing", ![i].row = NextRow]
  /\ UNCHANGED <<kept, faults>>

-----------------------------------------------------------------------------
(* Re-rolling.  The button is on the last reply whether or not it is live; a   *)
(* live stream is discarded first (abortDiscard), a fresh draft with it.      *)
Discards(i, row) ==
  /\ Live
  /\ run' = [run EXCEPT ![handle.owner].stopped = Heeds(handle.owner),
                        ![i] = Asked("reroll", row, 0, 0, "discarding")]
  /\ rows' = IF handle.reused THEN Partly(handle.row, handle.buf) ELSE Removed(handle.row)
  /\ kept' = IF handle.reused THEN kept ELSE kept \ {handle.row}
  /\ UNCHANGED <<users, openerPending, handle, faults>>

(* useRegenerate, with the reply to roll again or 0. *)
Rerolls(i, row) ==
  \/ Discards(i, row)
  \/ /\ ~Live /\ run' = [run EXCEPT ![i] = Asked("reroll", row, 0, 0, "asked")]
     /\ UNCHANGED <<rows, users, openerPending, handle, kept, faults>>

Regenerate(i) == i \in NextAttempt /\ Present # {} /\ Rerolls(i, 0)

(* The handle goes after the await of the delete, whoever installed it. *)
Discarded(i) ==
  /\ run[i].stage = "discarding" /\ Becomes(i, "asked")
  /\ handle' = NoHandle
  /\ UNCHANGED <<rows, users, openerPending, kept, faults>>

(* An edit in place writes the last user message and awaits its drain, ...     *)
EditReplace(i) ==
  /\ ~Live /\ Said # {}
  /\ Asks(i, "reroll", 0, 0, Max(Said), "editing")
  /\ UNCHANGED <<rows, users, openerPending, handle, kept, faults>>

(* ... then rolls again the reply that follows it, whatever is live by then.   *)
Edited(i) ==
  /\ run[i].stage = "editing"
  /\ LET replies == {r \in Present : run[i].msg \in Said /\ r >= run[i].msg}
     IN  Rerolls(i, IF replies = {} THEN 0 ELSE Min(replies))

(* mutateSynced throws: offline, or the drain is rejected. *)
EditFails(i) ==
  /\ run[i].stage = "editing" /\ Becomes(i, "over")
  /\ UNCHANGED <<rows, users, openerPending, handle, kept, faults>>

(* The reply to roll again: the one asked for, else the last complete reply,  *)
(* else, before the first user message, the greeting.                         *)
Target(i) ==
  IF run[i].row # 0 THEN {run[i].row} \cap Present
  ELSE IF Said = {} THEN Greetings
  ELSE {r \in Present \ Greetings : rows[r].state = "complete"}

Locate(i) ==
  /\ run[i].kind = "reroll" /\ run[i].stage = "asked"
  /\ IF \/ Target(i) = {} \/ (Said = {} /\ run[i].row # 0)
        \/ (Said # {} /\ \A u \in Said : u > Max(Target(i)))
     THEN Becomes(i, "over")
     ELSE run' = [run EXCEPT ![i].stage = "located", ![i].row = Max(Target(i)),
                             ![i].kind = IF Said = {} THEN "regreet" ELSE "reroll"]
  /\ UNCHANGED <<rows, users, openerPending, handle, kept, faults>>

(* regenerate does not look for a live stream; regenerateOpener does. *)
Reroll(i) ==
  /\ run[i].stage = "located"
  /\ IF run[i].kind = "regreet" /\ Live
     THEN Becomes(i, "over") /\ UNCHANGED <<rows, handle, kept>>
     ELSE /\ rows' = Cleared(run[i].row)
          /\ Installed(i, run[i].row, TRUE, run[i].kind = "regreet")
          /\ kept' = kept \ {run[i].row}
          /\ Becomes(i, IF run[i].kind = "regreet" THEN "streaming" ELSE "preparing")
  /\ UNCHANGED <<users, openerPending, faults>>

-----------------------------------------------------------------------------
(* The greeting: the page asks for it while the chat is empty and no stream is *)
(* live, and so does its Retry button; the transaction looks again.           *)
StartOpener(i) ==
  /\ ~Live /\ openerPending /\ Present = {} /\ Said = {}
  /\ Asks(i, "opener", 0, 0, 0, "asked")
  /\ UNCHANGED <<rows, users, openerPending, handle, kept, faults>>

(* Fault: the greeting is not looked for again inside the transaction. *)
AlwaysWanted == TRUE
StillWanted == openerPending /\ Present = {} /\ Said = {}

Greet(i) ==
  /\ run[i].kind = "opener" /\ run[i].stage = "asked"
  /\ IF StillWanted
     THEN /\ rows' = Drafted(NextRow, TRUE)
          /\ Installed(i, NextRow, FALSE, TRUE)
          /\ run' = [run EXCEPT ![i].stage = "streaming", ![i].row = NextRow]
     ELSE Becomes(i, "over") /\ UNCHANGED <<rows, handle>>
  /\ UNCHANGED <<users, openerPending, kept, faults>>

-----------------------------------------------------------------------------
(* While it runs.  Descriptions of images and tool pills are written to the    *)
(* handle of the chat even after an abort; text stops with the engine.        *)
Describe(i) ==
  /\ run[i].stage = "preparing" /\ Live
  /\ handle' = [handle EXCEPT !.buf = {i}]
  /\ UNCHANGED <<rows, users, openerPending, run, kept, faults>>

Prepared(i) ==
  /\ run[i].stage = "preparing" /\ Becomes(i, "streaming")
  /\ UNCHANGED <<rows, users, openerPending, handle, kept, faults>>

(* A rejected read before runToolLoop has no handler: the handle stays. *)
PrepFails(i) ==
  /\ run[i].stage = "preparing" /\ faults < MaxFaults
  /\ faults' = faults + 1 /\ Becomes(i, "broken")
  /\ UNCHANGED <<rows, users, openerPending, handle, kept>>

Chunk(i) ==
  /\ run[i].stage \in {"streaming", "tool"} /\ Live
  /\ handle' = [handle EXCEPT !.buf = @ \cup {i}]
  /\ UNCHANGED <<rows, users, openerPending, run, kept, faults>>

UseTool(i) ==
  /\ run[i].stage = "streaming" /\ ~IsGreeting(i) /\ run[i].rounds < MaxRounds
  /\ run' = [run EXCEPT ![i].stage = "tool", ![i].rounds = @ + 1]
  /\ UNCHANGED <<rows, users, openerPending, handle, kept, faults>>

ToolAnswers(i) ==
  /\ run[i].stage = "tool" /\ Becomes(i, "streaming")
  /\ UNCHANGED <<rows, users, openerPending, handle, kept, faults>>

(* What is stored is the engine's text, not what the handle has gathered. *)
(* Fault: the live buffer is stored. *)
FromBuffer(i) == Update("complete", handle.buf, FALSE, run[i].row)
FromEngine(i) == Update("complete", {i}, TRUE, run[i].row)

(* The engine is through: without a handle the reply is dropped. *)
Finish(i) ==
  /\ run[i].stage = "streaming"
  /\ IF Live
     THEN /\ rows' = FromEngine(i)
          /\ openerPending' = (openerPending /\ ~IsGreeting(i))
          /\ Becomes(i, "finalising")
     ELSE Becomes(i, "over") /\ UNCHANGED <<rows, openerPending>>
  /\ UNCHANGED <<users, handle, kept, faults>>

(* Its transaction is aborted: nothing of it is written. *)
FinishAborts(i) ==
  /\ run[i].stage = "streaming" /\ Live /\ faults < MaxFaults
  /\ faults' = faults + 1 /\ Becomes(i, "unwritten")
  /\ UNCHANGED <<rows, users, openerPending, handle, kept>>

Finalised(i) ==
  /\ run[i].stage = "finalising" /\ Becomes(i, "done")
  /\ UNCHANGED <<rows, users, openerPending, handle, kept, faults>>

(* The 200 ms timer frees the handle this stream installed. *)
(* Fault: it frees the handle of the chat. *)
AnyStream(i) == TRUE
OwnStream(i) == handle.owner = i

Timer(i) ==
  /\ run[i].stage = "done" /\ Becomes(i, "over")
  /\ handle' = IF OwnStream(i) THEN NoHandle ELSE handle
  /\ UNCHANGED <<rows, users, openerPending, kept, faults>>

(* The rejection handlers.  A first greeting is withdrawn and stays pending;   *)
(* any other attempt leaves the chat's buffer in its row.                     *)
Rejected(i) ==
  /\ IF ~Live THEN Becomes(i, "over") /\ UNCHANGED rows
     ELSE /\ rows' = IF run[i].kind = "opener" THEN Removed(run[i].row)
                     ELSE Partly(run[i].row, handle.buf)
          /\ Becomes(i, "failing")
  /\ UNCHANGED <<users, handle, kept>>

UpstreamFails(i) ==
  /\ run[i].stage = "streaming" /\ faults < MaxFaults /\ faults' = faults + 1
  /\ Rejected(i) /\ UNCHANGED openerPending

(* What follows the engine lands here too: the rejected last transaction, and  *)
(* of a reply the reads after it, when the row is complete already.           *)
Unwritten(i) ==
  /\ run[i].stage = "unwritten" /\ Rejected(i) /\ UNCHANGED <<openerPending, faults>>

FinaliseFails(i) ==
  /\ run[i].stage = "finalising" /\ ~IsGreeting(i)
  /\ faults < MaxFaults /\ faults' = faults + 1
  /\ Rejected(i) /\ UNCHANGED openerPending

AbortLands(i) ==
  /\ Rejects(i) /\ Rejected(i) /\ UNCHANGED <<openerPending, faults>>

(* After the await, the handle of the chat goes, whoever installed it. *)
(* Fault: the slot is not freed. *)
NotFreed(i) == handle
Freed(i) == NoHandle

Failed(i) ==
  /\ run[i].stage = "failing" /\ Becomes(i, "over")
  /\ handle' = Freed(i)
  /\ UNCHANGED <<rows, users, openerPending, kept, faults>>

-----------------------------------------------------------------------------
(* abortPreserve: Stop, a barge-in, the panic switch, a stranded tab.  The     *)
(* handle goes in the same task, before the rejection can land.               *)
(* Fault: the handle is removed after the await of the update. *)
StillThere == handle
HandleAfterStop == NoHandle

Stop ==
  /\ Live
  /\ run' = [run EXCEPT ![handle.owner].stopped = Heeds(handle.owner)]
  /\ handle' = HandleAfterStop
  /\ rows' = Partly(handle.row, handle.buf)
  /\ kept' = kept \cup ({handle.row} \cap Present)
  /\ openerPending' = (openerPending /\ ~handle.opener)
  /\ UNCHANGED <<users, faults>>

(* The footer under a last message that is incomplete while nothing is live. *)
Interrupted ==
  {r \in Present : /\ ~Live /\ rows[r].state = "incomplete"
                   /\ \A s \in Present \cup Said : s <= r}

(* Retry reads the chat, ... *)
FooterRetry(i) == \E r \in Interrupted :
  LET asked == {u \in Said : u <= r}
  IN  /\ IF asked = {} THEN Asks(i, "reroll", 0, 0, 0, "retrying")
         ELSE Asks(i, "send", r, users[Max(asked)], Max(asked), "retrying")
      /\ UNCHANGED <<rows, users, openerPending, handle, kept, faults>>

(* ... rolls a greeting again, or deletes the reply, ... *)
RetryGreeting(i) == run[i].stage = "retrying" /\ run[i].msg = 0 /\ Rerolls(i, 0)

DropReply(i) ==
  /\ run[i].stage = "retrying" /\ run[i].msg # 0 /\ Becomes(i, "retracting")
  /\ rows' = Removed(run[i].row) /\ kept' = kept \ {run[i].row}
  /\ UNCHANGED <<users, openerPending, handle, faults>>

(* ... then the user message before it, awaits the drain of that deletion, and *)
(* sends the text again.                                                      *)
Retract(i) ==
  /\ run[i].stage = "retracting" /\ Becomes(i, "retracted")
  /\ users' = [users EXCEPT ![run[i].msg] = 0]
  /\ UNCHANGED <<rows, openerPending, handle, kept, faults>>

Resend(i) ==
  /\ run[i].stage = "retracted" /\ Becomes(i, "asked")
  /\ UNCHANGED <<rows, users, openerPending, handle, kept, faults>>

(* mutateSynced throws: before its transaction offline, after it when the drain *)
(* is rejected.  Nothing is sent.                                             *)
RetractFails(i) ==
  /\ run[i].stage \in {"retracting", "retracted"} /\ Becomes(i, "over")
  /\ UNCHANGED <<rows, users, openerPending, handle, kept, faults>>

FooterDiscard == \E r \in Interrupted :
  /\ rows' = Removed(r) /\ kept' = kept \ {r}
  /\ UNCHANGED <<users, openerPending, handle, run, faults>>

(* The page is reloaded: streams, handles, locks and toasts end with it. *)
Reload ==
  /\ faults < MaxFaults /\ faults' = faults + 1
  /\ \E i \in Attempts : run[i].stage \notin {"unborn", "over"}
  /\ run' = [i \in Attempts |-> IF run[i].stage = "unborn" THEN Unborn
                                ELSE [run[i] EXCEPT !.stage = "over"]]
  /\ handle' = NoHandle
  /\ UNCHANGED <<rows, users, openerPending, kept>>

-----------------------------------------------------------------------------
(* At most one greeting is ever in the chat, however many requests for one     *)
(* passed the first look (startOpener's two idempotence guards).              *)
OpenerOnce == Cardinality(Greetings) <= 1

(* What the user stopped stays until the user rolls it again, discards it or   *)
(* asks for another: no late rejection of the stopped stream withdraws it.    *)
(* What still can is a greeting stream of that row which no abort reached: it *)
(* had lost the handle and fails later, or its last transaction had failed.   *)
PreservedIsKept == \A r \in kept \ Present : \E i \in Attempts :
                     run[i].kind = "opener" /\ run[i].row = r /\ ~run[i].stopped

(* A row marked complete holds the whole text of one stream, never a mixture   *)
(* of overlapping ones or a prefix: complete rows are never offered a retry.  *)
CompleteIsWhole == \A r \in Attempts : rows[r].state = "complete" =>
                     rows[r].whole /\ Cardinality(rows[r].by) = 1

(* A message that was deleted is not brought back by the stream it was for:    *)
(* peers may already have its absence.                                        *)
DiscardedStaysGone == [][\A r \in Attempts : rows[r].state = "gone" =>
                           rows'[r].state = "gone"]_vars

(* The stream that replaced another keeps its handle through the other's       *)
(* success and delayed clean-up: only a stop, a discard, a failure, a newer   *)
(* stream or a reload takes it away.                                          *)
Finishing(i) == run[i].stage \in {"finalising", "done"} /\ run'[i].stage # run[i].stage
SuccessSparesOthers == [][\A i \in Attempts :
  Finishing(i) /\ Live /\ handle.owner # i /\ faults' = faults => handle' = handle]_vars

(* The handle that locks the composer is freed and the user can send again,    *)
(* unless the stream broke before it began: that handle has nobody left.      *)
SendComesBack == Live ~> ~Live \/ \E i \in Attempts : run[i].stage = "broken"

(* Not kept (README): "Regenerate this reply" clears the reply it is shown on, the  *)
(* last one, and so never a reply that a later user message follows.          *)
RerollsThatReply == [][\A r \in Present \ Greetings :
  rows[r].state = "complete" /\ rows' = Cleared(r) => \A u \in Said : u <= r]_vars

(* Not kept (README): "your message is kept": a text that was in the chat is in it  *)
(* still, or a retry that took it out is on the way to put it back.           *)
OnItsWay == {"retracted", "asked", "checked", "compacting", "compacted", "refused"}
Texts == {users[u] : u \in Said} \cup
         {run[i].text : i \in {j \in Attempts : run[j].kind = "send" /\ run[j].text # j
                                               /\ run[j].stage \in OnItsWay}}
UserTextKept == [][faults' = faults => Texts \subseteq Texts']_vars

-----------------------------------------------------------------------------
(* What makes these inductive: rows are numbered in order and there is one for *)
(* every attempt that may still need one; what the handle and the attempts     *)
(* name has been created; no live stream's own greeting is at once kept.       *)
Owing == {i \in Attempts : run[i].stage \in OnItsWay \cup
           {"unborn", "editing", "retrying", "retracting", "discarding"}}
RowsInOrder == /\ Begun = 1 .. Cardinality(Begun)
               /\ Cardinality(Begun) + Cardinality(Owing) <= MaxAttempts

NamedRowsBegun ==
  /\ \A i \in Attempts : \/ run[i].row \in Begun
                         \/ run[i].row = 0 /\ run[i].stage # "located"
  /\ Live => /\ handle.owner \in Attempts /\ handle.row \in Begun
             /\ handle.owner \notin Owing /\ run[handle.owner].stage # "located"
  /\ kept \subseteq Begun

OneGreeting == \A r, s \in Greetings : r = s

OpenersGoStraight == \A i \in Attempts : run[i].kind = "opener" =>
  /\ run[i].stage \in {"asked", "streaming", "finalising", "unwritten", "done",
                        "failing", "over"}
  /\ run[i].stage = "unwritten" => ~run[i].stopped
  /\ run[i].stage = "asked" => run[i].row = 0 /\ ~run[i].stopped

OpenersNotKept == \A i \in Attempts :
  run[i].kind = "opener" /\ Live /\ handle.owner = i =>
    ~handle.reused /\ handle.row = run[i].row /\ run[i].row \notin kept

RejectedOpenersGone == \A i \in Attempts :
  run[i].kind = "opener" /\ Rejects(i) /\ Live => run[i].row \notin Present

IndInv == /\ TypeOK /\ RowsInOrder /\ NamedRowsBegun /\ OneGreeting /\ CompleteIsWhole
          /\ OpenersGoStraight /\ OpenersNotKept /\ RejectedOpenersGone /\ PreservedIsKept

-----------------------------------------------------------------------------
Asking(i) == \/ Send(i) \/ Regenerate(i) \/ EditReplace(i) \/ StartOpener(i)
             \/ FooterRetry(i)
Continues(i) == \/ Edited(i) \/ RetryGreeting(i) \/ DropReply(i) \/ Retract(i) \/ Resend(i)
                \/ Check(i) \/ CompactOk(i) \/ Post(i) \/ Discarded(i) \/ Locate(i)
                \/ Reroll(i) \/ Greet(i) \/ Prepared(i) \/ ToolAnswers(i)
                \/ Finish(i) \/ Finalised(i) \/ Unwritten(i) \/ Timer(i) \/ Failed(i)
Turns(i) == \/ Compact(i) \/ CompactFails(i) \/ TakeToast(i) \/ ToastGone(i)
            \/ Describe(i) \/ PrepFails(i) \/ Chunk(i) \/ UseTool(i) \/ UpstreamFails(i)
            \/ EditFails(i) \/ RetractFails(i) \/ FinishAborts(i) \/ FinaliseFails(i)

Next ==
  \/ \E i \in Attempts : AbortLands(i)
  \/ Settled /\ \/ \E i \in Attempts : Asking(i) \/ Continues(i) \/ Turns(i)
                \/ Stop \/ FooterDiscard \/ Reload

Spec == Init /\ [][Next]_vars

(* Every await of the page settles: the database answers, a tool returns, the  *)
(* model ends its answer.  Nothing obliges the user to do anything.           *)
FairSpec == Spec /\ \A i \in Attempts :
              WF_vars(AbortLands(i)) /\ WF_vars(Settled /\ Continues(i))

=============================================================================
