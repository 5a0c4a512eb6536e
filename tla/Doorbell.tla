------------------------------ MODULE Doorbell ------------------------------
(***************************************************************************)
(* The doorbell of one account: the sockets over which the sync service      *)
(* tells the account's devices that something new was pushed.                *)
(*                                                                         *)
(* On the service, the hub keeps the account's sockets and one Redis         *)
(* subscription for all of them, made for the first and given up with the    *)
(* last (doorbell/hub.ts).  On each device, the consumer keeps one socket    *)
(* while its lifecycle gate is open (sync/doorbell.ts).  In between, events  *)
(* travel: either end may close a socket before the other has heard of it,   *)
(* Redis answers late, a ticket fetch outlives the gate it was made for.     *)
(*                                                                         *)
(* A poke itself is one message to whoever is registered and subscribed: it  *)
(* is not a state here, who would get it is.                                *)
(***************************************************************************)
EXTENDS Integers, Sequences, FiniteSets

CONSTANTS Devices,
          Sockets,       \* names of sockets, used again once both ends are done
          NoSocket,
          NoDevice,
          MaxSockets,    \* env.MAX_SOCKETS_PER_ACCOUNT
          MaxCommands,   \* bound: Redis commands on their way
          MaxUpsets,     \* bound: gate changes, failures, restarts
          Latching       \* may the auth service refuse a refresh?

ASSUME DoorbellAssumption ==
  /\ IsFiniteSet(Sockets) /\ NoSocket \notin Sockets /\ NoDevice \notin Devices
  /\ MaxSockets \in Nat \ {0} /\ MaxCommands \in Nat \ {0} /\ MaxUpsets \in Nat
  /\ Latching \in BOOLEAN

VARIABLES members,    \* the hub's sockets of the account
          gauge,      \* doorbell_connections
          commands,   \* SUBSCRIBE and UNSUBSCRIBE on their way to Redis
          subscribed, \* whether Redis forwards the account's channel
          sock,       \* the two ends of every socket
          client,     \* each device's consumer
          gate,       \* linked, unlocked, visible and not offline
          latched,    \* auth degraded
          upsets

hubVars == <<members, gauge, commands, subscribed>>
envVars == <<gate, latched, upsets>>
vars == <<hubVars, sock, client, envVars>>

Closing == {"4401", "4500", "1006"}    \* close codes; 1006 is a broken line

Socket ==
  [owner : Devices \cup {NoDevice},
   near : {"none", "new", "open", "closed"},        \* the device's end
   far : {"none", "open", "closing", "gone"},       \* the service's end
   news : Seq({"open"} \cup Closing)]               \* events not yet seen

Unused == [owner |-> NoDevice, near |-> "none", far |-> "none", news |-> <<>>]

Consumer ==
  [socket : Sockets \cup {NoSocket}, connecting : BOOLEAN, timer : BOOLEAN,
   refreshed : BOOLEAN, fetches : Nat, refreshing : BOOLEAN]

Asleep == [socket |-> NoSocket, connecting |-> FALSE, timer |-> FALSE,
           refreshed |-> FALSE, fetches |-> 0, refreshing |-> FALSE]

(* connect, up to the request for a ticket.                                  *)
Connected(c) ==
  IF c.connecting \/ c.socket # NoSocket THEN c
  ELSE [c EXCEPT !.connecting = TRUE, !.fetches = @ + 1]

Disconnected(c) ==
  [c EXCEPT !.socket = NoSocket, !.connecting = FALSE, !.timer = FALSE,
            !.refreshed = FALSE]

Evaluated(c, open) ==
  IF ~open THEN Disconnected(c)
  ELSE IF c.socket = NoSocket /\ ~c.connecting /\ ~c.timer THEN Connected(c)
  ELSE c

(* initDoorbell evaluates the gate as it finds it.                            *)
Init ==
  /\ members = {} /\ gauge = 0 /\ commands = <<>> /\ subscribed = FALSE
  /\ sock = [s \in Sockets |-> Unused]
  /\ gate \in [Devices -> BOOLEAN]
  /\ client = [d \in Devices |-> Evaluated(Asleep, gate[d])]
  /\ latched = [d \in Devices |-> FALSE]
  /\ upsets = 0

Upset == upsets < MaxUpsets /\ upsets' = upsets + 1

-----------------------------------------------------------------------------
(* The hub.                                                                  *)

(* The device hears of a close unless it hung up itself.                      *)
Hearing(s, event) ==
  IF sock[s].near = "closed" THEN <<>> ELSE Append(sock[s].news, event)

Told(s, code) == [sock[s] EXCEPT !.far = "closing", !.news = Hearing(s, code)]

(* add: the first socket of the account asks for the subscription.            *)
Register(s) ==
  /\ members' = members \cup {s}
  /\ gauge' = gauge + 1
  /\ commands' = IF members = {} THEN Append(commands, "subscribe") ELSE commands

Full == Cardinality(members) >= MaxSockets

(* The request is upgraded; one socket too many is closed at once.            *)
Upgrade(s) ==
  /\ sock[s].near # "none" /\ sock[s].far = "none"
  /\ Len(commands) < MaxCommands
  /\ IF Full
     THEN /\ sock' = [sock EXCEPT ![s] =
               [sock[s] EXCEPT !.far = "closing",
                         !.news = IF @ = <<>> /\ sock[s].near = "new"
                                  THEN <<"open", "4401">> ELSE @]]
          /\ UNCHANGED <<members, gauge, commands>>
     ELSE /\ sock' = [sock EXCEPT ![s] =
               [sock[s] EXCEPT !.far = "open", !.news = Hearing(s, "open")]]
          /\ Register(s)
  /\ UNCHANGED <<subscribed, client, envVars>>

(* The ticket is spent or expired, or the service is not reached.             *)
NoUpgrade(s) ==
  /\ sock[s].near # "none" /\ sock[s].far = "none"
  /\ sock' = [sock EXCEPT ![s] =
               [sock[s] EXCEPT !.far = "gone", !.news = Hearing(s, "1006")]]
  /\ UNCHANGED <<hubVars, client, envVars>>

Registered(s) == s \in members

LastOne(s) == members = {s}

(* remove, called when the socket has closed.                                 *)
Remove(s) ==
  /\ sock[s].far = "closing" \/ (sock[s].far = "open" /\ sock[s].near = "closed")
  /\ Len(commands) < MaxCommands
  /\ sock' = [sock EXCEPT ![s] = [sock[s] EXCEPT !.far = "gone"]]
  /\ members' = members \ {s}
  /\ gauge' = IF Registered(s) THEN gauge - 1 ELSE gauge
  /\ commands' = IF LastOne(s) THEN Append(commands, "unsubscribe") ELSE commands
  /\ UNCHANGED <<subscribed, client, envVars>>

(* Fault: the tick looks at the sockets of linked devices only.                *)
HeldByItsDevice(s) == s \in members /\ client[sock[s].owner].socket = s

Expirable(s) == s \in members

(* The tick closes a socket whose token has expired.                          *)
Expire(s) ==
  /\ Expirable(s) /\ sock[s].far = "open"
  /\ sock' = [sock EXCEPT ![s] = Told(s, "4401")]
  /\ UNCHANGED <<hubVars, client, envVars>>

(* The line breaks.                                                           *)
Break(s) ==
  /\ Upset
  /\ sock[s].far = "open"
  /\ sock' = [sock EXCEPT ![s] = Told(s, "1006")]
  /\ UNCHANGED <<hubVars, client, gate, latched>>

Answer(command) ==
  /\ commands # <<>> /\ Head(commands) = command
  /\ commands' = Tail(commands)

SubscribeOk ==
  /\ Answer("subscribe")
  /\ subscribed' = TRUE
  /\ UNCHANGED <<members, gauge, sock, client, envVars>>

(* Fault: the rejected subscription is only logged.                           *)
NoDependents == {}

(* Every socket now registered for the account goes.                          *)
Dependents == members

(* SUBSCRIBE is rejected, whatever became of it at Redis.                      *)
SubscribeFails ==
  /\ Upset
  /\ Answer("subscribe")
  /\ subscribed' \in {subscribed, TRUE}
  /\ members' = members \ Dependents
  /\ gauge' = gauge - Cardinality(Dependents)
  /\ sock' = [s \in Sockets |->
       IF s \in Dependents /\ sock[s].far = "open" THEN Told(s, "4500") ELSE sock[s]]
  /\ UNCHANGED <<client, gate, latched>>

(* UNSUBSCRIBE is executed, or fails unnoticed.                               *)
Unsubscribe ==
  /\ Answer("unsubscribe")
  /\ subscribed' \in {FALSE, subscribed}
  /\ UNCHANGED <<members, gauge, sock, client, envVars>>

(* The service starts again.                                                  *)
Restart ==
  /\ Upset
  /\ members' = {} /\ gauge' = 0 /\ commands' = <<>> /\ subscribed' = FALSE
  /\ sock' = [s \in Sockets |->
       IF sock[s].far \in {"open", "closing"}
       THEN [sock[s] EXCEPT !.far = "gone", !.news = Hearing(s, "1006")]
       ELSE sock[s]]
  /\ UNCHANGED <<client, gate, latched>>

(* Both ends are done: the name is free again.                                *)
Forget(s) ==
  /\ sock[s].near = "closed" /\ sock[s].far = "gone"
  /\ sock' = [sock EXCEPT ![s] = Unused]
  /\ UNCHANGED <<hubVars, client, envVars>>

-----------------------------------------------------------------------------
(* The consumer.                                                             *)

(* Fault: the latch is not part of the gate.                                  *)
OpenThoughRefused(d) == gate[d]

Open(d) == gate[d] /\ ~latched[d]

HungUp(s) == [sock EXCEPT ![s] = [sock[s] EXCEPT !.near = "closed", !.news = <<>>]]

(* evaluate, called on every change of the lifecycle stores.                  *)
Evaluate(d, open) ==
  /\ client' = [client EXCEPT ![d] = Evaluated(@, open)]
  /\ sock' = IF open \/ client[d].socket = NoSocket THEN sock
             ELSE HungUp(client[d].socket)

(* A lifecycle store changes, and the gate with it or not.                    *)
Lifecycle(d) ==
  /\ Upset
  /\ UNCHANGED <<hubVars, latched>>
  /\ gate' \in {[gate EXCEPT ![d] = open] : open \in BOOLEAN}
  /\ Evaluate(d, Open(d)')

(* A background refresh is refused: the latch closes the gate, silently.      *)
Degrade(d) ==
  /\ Latching /\ Upset
  /\ latched' = [latched EXCEPT ![d] = TRUE]
  /\ UNCHANGED <<hubVars, sock, client, gate>>

(* A refresh or an unlock succeeds: the session store changes, and the latch  *)
(* is cleared after it.                                                      *)
Restore(d) ==
  /\ latched[d]
  /\ Evaluate(d, Open(d))
  /\ latched' = [latched EXCEPT ![d] = FALSE]
  /\ UNCHANGED <<hubVars, gate, upsets>>

(* The ticket is there, and the gate is looked at again.                      *)
TicketOk(d) ==
  /\ client[d].fetches > 0
  /\ \/ /\ Open(d)
        /\ \E s \in Sockets :
             /\ sock[s] = Unused
             /\ sock' = [sock EXCEPT ![s] = [sock[s] EXCEPT !.owner = d, !.near = "new"]]
             /\ client' = [client EXCEPT ![d] =
                  [client[d] EXCEPT !.socket = s, !.connecting = FALSE, !.fetches = @ - 1]]
     \/ /\ ~Open(d)
        /\ client' = [client EXCEPT ![d] =
             [client[d] EXCEPT !.connecting = FALSE, !.fetches = @ - 1]]
        /\ UNCHANGED sock
  /\ UNCHANGED <<hubVars, envVars>>

(* Fault: a failed fetch is left to the next lifecycle change.                 *)
NoRetry(d) == client[d].timer

(* scheduleReconnect.                                                        *)
Retry(d) == TRUE

TicketFails(d) ==
  /\ client[d].fetches > 0
  /\ client' = [client EXCEPT ![d] =
       [client[d] EXCEPT !.connecting = FALSE, !.fetches = @ - 1, !.timer = Retry(d)]]
  /\ UNCHANGED <<hubVars, sock, envVars>>

TimerFires(d) ==
  /\ client[d].timer
  /\ LET c == [client[d] EXCEPT !.timer = FALSE] IN
     client' = [client EXCEPT ![d] = IF Open(d) THEN Connected(c) ELSE c]
  /\ UNCHANGED <<hubVars, sock, envVars>>

Hears(s, event) ==
  /\ sock[s].news # <<>> /\ Head(sock[s].news) = event
  /\ sock' = [sock EXCEPT ![s] =
       [sock[s] EXCEPT !.news = Tail(@),
                 !.near = IF event = "open" THEN "open" ELSE "closed"]]
  /\ UNCHANGED <<hubVars, envVars>>

(* Listeners look away unless the socket is still the current one.            *)
Current(s) == client[sock[s].owner].socket = s

HearOpen(s) ==
  LET d == sock[s].owner IN
  /\ Hears(s, "open")
  /\ client' = IF Current(s) THEN [client EXCEPT ![d] = [client[d] EXCEPT !.refreshed = FALSE]] ELSE client

(* handleClose: an expired token is refreshed once a cycle before the retry.   *)
HearClose(s, code) ==
  LET d == sock[s].owner
      c == [client[d] EXCEPT !.socket = NoSocket]
  IN /\ Hears(s, code)
     /\ client' =
          IF ~Current(s) THEN client
          ELSE [client EXCEPT ![d] =
            IF code = "4401" /\ ~c.refreshed
            THEN [c EXCEPT !.refreshed = TRUE, !.refreshing = TRUE]
            ELSE [c EXCEPT !.timer = @ \/ Open(d)]]

(* The refresh that handleClose awaits returns; there is one at a time, shared *)
(* by whoever awaits it.  A new token is a change of the session store; a     *)
(* refusal sets the latch.                                                   *)
Refreshed(d) ==
  LET back == [client[d] EXCEPT !.refreshing = FALSE] IN
  /\ client[d].refreshing
  /\ \/ /\ client' = [client EXCEPT ![d] =
             [Evaluated(back, Open(d)) EXCEPT !.timer = @ \/ gate[d]]]
        /\ sock' = IF Open(d) \/ client[d].socket = NoSocket THEN sock
                   ELSE HungUp(client[d].socket)
        /\ latched' = [latched EXCEPT ![d] = FALSE]
     \/ /\ client' = [client EXCEPT ![d] = [back EXCEPT !.timer = @ \/ Open(d)]]
        /\ UNCHANGED <<sock, latched>>
     \/ /\ Latching
        /\ client' = [client EXCEPT ![d] = back]
        /\ latched' = [latched EXCEPT ![d] = TRUE]
        /\ UNCHANGED sock
  /\ UNCHANGED <<hubVars, gate, upsets>>

-----------------------------------------------------------------------------
Next ==
  \/ \E s \in Sockets :
       \/ Upgrade(s) \/ NoUpgrade(s) \/ Remove(s) \/ Expire(s) \/ Break(s)
       \/ Forget(s) \/ HearOpen(s) \/ (\E code \in Closing : HearClose(s, code))
  \/ \E d \in Devices :
       \/ Lifecycle(d) \/ Degrade(d) \/ Restore(d)
       \/ TicketOk(d) \/ TicketFails(d) \/ TimerFires(d) \/ Refreshed(d)
  \/ SubscribeOk \/ SubscribeFails \/ Unsubscribe \/ Restart

Spec == Init /\ [][Next]_vars

(* Timers fire, events and answers arrive, tokens expire, and a ticket, an    *)
(* upgrade and a subscription asked for again and again are granted.          *)
Fairness ==
  /\ \A s \in Sockets :
       /\ SF_vars(Upgrade(s)) /\ WF_vars(Remove(s)) /\ WF_vars(Expire(s))
       /\ WF_vars(Forget(s)) /\ WF_vars(HearOpen(s))
       /\ \A code \in Closing : WF_vars(HearClose(s, code))
  /\ \A d \in Devices :
       SF_vars(TicketOk(d)) /\ WF_vars(TimerFires(d)) /\ WF_vars(Refreshed(d))
  /\ WF_vars(SubscribeOk) /\ WF_vars(Unsubscribe)

FairSpec == Spec /\ Fairness

-----------------------------------------------------------------------------
(* Properties.                                                               *)

(* Type correctness.                                                         *)
TypeOK ==
  /\ members \subseteq Sockets
  /\ gauge \in Nat
  /\ commands \in Seq({"subscribe", "unsubscribe"})
  /\ subscribed \in BOOLEAN
  /\ sock \in [Sockets -> Socket]
  /\ client \in [Devices -> Consumer]
  /\ gate \in [Devices -> BOOLEAN]
  /\ latched \in [Devices -> BOOLEAN]
  /\ upsets \in 0 .. MaxUpsets

(* The last word the hub had, or will have had, at Redis.                     *)
LastWord ==
  IF commands # <<>> THEN commands[Len(commands)] = "subscribe" ELSE subscribed

(* No socket is held as apparently healthy and never rung: while the account  *)
(* has sockets, the subscription is there or on its way, whatever the order   *)
(* in which the last one left, the next one came and Redis answered.          *)
NoDeafSocket == members # {} => LastWord

(* The gauge counts the registered sockets: a socket that is closed, torn     *)
(* down and then reported closed is counted out once.                         *)
GaugeExact == gauge = Cardinality(members)

(* What the above rest on: a socket the hub counts is one it has not finished  *)
(* with, so that no name is counted twice.                                   *)
HeldInv == \A s \in members : sock[s].far \in {"open", "closing"}

IndInv == TypeOK /\ HeldInv /\ GaugeExact /\ NoDeafSocket

(* While the gate is open the consumer has a socket, or something will get it *)
(* one: no ending of a fetch, a refresh or a socket leaves it asleep, unless   *)
(* the latch was set, which is cleared after the stores have been looked at.   *)
Awake(d) == \/ client[d].socket # NoSocket \/ client[d].connecting
            \/ client[d].timer \/ client[d].refreshing

AwakeWhileOpen ==
  \A d \in Devices : []~latched[d] => [](Open(d) => Awake(d))

(* "A degraded engine stays stopped": while the auth service refuses this      *)
(* device, no timer, lifecycle change or late ticket makes a new attempt.      *)
QuietStep(d) ==
  latched[d] /\ latched'[d] =>
    /\ client'[d].fetches <= client[d].fetches
    /\ client'[d].socket \in {client[d].socket, NoSocket}

QuietWhileDegraded == [][\A d \in Devices : QuietStep(d)]_vars

(* A device that is never refused and whose gate stays open is registered     *)
(* again and again, in spite of leaked sockets that count against the          *)
(* account's limit until they expire.                                         *)
Reachable(d) == client[d].socket \in members

EventuallyReachable ==
  \A d \in Devices : ([]~latched[d]) /\ <>[]gate[d] => []<>Reachable(d)

=============================================================================
