--------------------------- MODULE DoorbellProofs ---------------------------
(***************************************************************************)
(* Theorems of Doorbell, for every number of devices and sockets, every       *)
(* limit and every number of upsets.                                        *)
(***************************************************************************)
EXTENDS Doorbell, FiniteSetTheorems, TLAPS

-----------------------------------------------------------------------------
(* Types.                                                                    *)

(* What a device is told of a socket is a sequence of events.                 *)
LEMMA HearingType ==
  ASSUME TypeOK, NEW s \in Sockets, NEW event \in {"open"} \cup Closing
  PROVE  Hearing(s, event) \in Seq({"open"} \cup Closing)
<1>1. sock[s].news \in Seq({"open"} \cup Closing)
  BY DEF TypeOK, Socket
<1> QED BY <1>1 DEF Hearing

(* Closing an end, told or not, leaves a socket.                              *)
LEMMA ToldType ==
  ASSUME TypeOK, NEW s \in Sockets, NEW code \in Closing
  PROVE  Told(s, code) \in Socket
<1>1. Hearing(s, code) \in Seq({"open"} \cup Closing)
  BY HearingType
<1>2. sock[s] \in Socket
  BY DEF TypeOK
<1> QED BY <1>1, <1>2 DEF Told, Socket

(* Looking at the gate leaves a consumer.                                     *)
LEMMA EvaluatedType ==
  ASSUME NEW c \in Consumer, NEW open \in BOOLEAN
  PROVE  /\ Evaluated(c, open) \in Consumer
         /\ Connected(c) \in Consumer
<1>1. Connected(c) \in Consumer
  <2>1. c.fetches \in Nat
    BY DEF Consumer
  <2>2. c.fetches + 1 \in Nat
    BY <2>1
  <2>3. [c EXCEPT !.connecting = TRUE, !.fetches = c.fetches + 1] \in Consumer
    BY <2>2 DEF Consumer
  <2> QED BY <2>3 DEF Connected
<1>2. Disconnected(c) \in Consumer
  BY DEF Disconnected, Consumer
<1> QED BY <1>1, <1>2 DEF Evaluated

(* An end hung up is an end of a socket.                                      *)
LEMMA HungUpType ==
  ASSUME TypeOK, NEW s
  PROVE  HungUp(s) \in [Sockets -> Socket]
<1>1. CASE s \in Sockets
  <2>1. sock[s] \in Socket /\ <<>> \in Seq({"open"} \cup Closing)
    BY <1>1 DEF TypeOK
  <2>2. [sock[s] EXCEPT !.near = "closed", !.news = <<>>] \in Socket
    BY <2>1 DEF Socket
  <2> QED BY <1>1, <2>2 DEF HungUp, TypeOK
<1>2. CASE s \notin Sockets
  BY <1>2 DEF HungUp, TypeOK
<1> QED BY <1>1, <1>2

(* The sockets keep their type.                                              *)
LEMMA SockType ==
  ASSUME TypeOK, [Next]_vars
  PROVE  sock' \in [Sockets -> Socket]
<1> USE DEF TypeOK
<1>1. ASSUME NEW s \in Sockets, Upgrade(s) PROVE sock' \in [Sockets -> Socket]
  <2>1. sock[s] \in Socket
    OBVIOUS
  <2>2. Hearing(s, "open") \in Seq({"open"} \cup Closing)
    BY HearingType
  <2>3. [sock[s] EXCEPT !.far = "open", !.news = Hearing(s, "open")] \in Socket
    BY <2>1, <2>2 DEF Socket
  <2>4. <<"open", "4401">> \in Seq({"open"} \cup Closing)
    BY DEF Closing
  <2> DEFINE news == IF sock[s].news = <<>> /\ sock[s].near = "new"
                     THEN <<"open", "4401">> ELSE sock[s].news
             refused == [sock[s] EXCEPT !.far = "closing", !.news = news]
             admitted == [sock[s] EXCEPT !.far = "open", !.news = Hearing(s, "open")]
  <2>5. news \in Seq({"open"} \cup Closing)
    BY <2>1, <2>4 DEF Socket
  <2>6. refused \in Socket
    <3> HIDE DEF news
    <3> QED BY <2>1, <2>5 DEF Socket
  <2>7. sock' = [sock EXCEPT ![s] = refused] \/ sock' = [sock EXCEPT ![s] = admitted]
    BY <1>1 DEF Upgrade
  <2> HIDE DEF refused, admitted
  <2> QED BY <2>3, <2>6, <2>7 DEF admitted
<1>2. ASSUME NEW s \in Sockets, NoUpgrade(s) PROVE sock' \in [Sockets -> Socket]
  <2>1. Hearing(s, "1006") \in Seq({"open"} \cup Closing)
    BY HearingType DEF Closing
  <2>2. [sock[s] EXCEPT !.far = "gone", !.news = Hearing(s, "1006")] \in Socket
    BY <2>1 DEF Socket
  <2> QED BY <1>2, <2>2 DEF NoUpgrade
<1>3. ASSUME NEW s \in Sockets, Remove(s) PROVE sock' \in [Sockets -> Socket]
  <2>1. [sock[s] EXCEPT !.far = "gone"] \in Socket
    BY DEF Socket
  <2> QED BY <1>3, <2>1 DEF Remove
<1>4. ASSUME NEW s \in Sockets, Expire(s) \/ Break(s) PROVE sock' \in [Sockets -> Socket]
  <2>1. Told(s, "4401") \in Socket /\ Told(s, "1006") \in Socket
    BY ToldType DEF Closing
  <2> QED BY <1>4, <2>1 DEF Expire, Break
<1>5. ASSUME NEW s \in Sockets, Forget(s) PROVE sock' \in [Sockets -> Socket]
  <2>1. Unused \in Socket
    BY DEF Unused, Socket
  <2> QED BY <1>5, <2>1 DEF Forget
<1>6. ASSUME NEW s \in Sockets, NEW event, Hears(s, event)
      PROVE  sock' \in [Sockets -> Socket]
  <2>1. sock[s] \in Socket /\ sock[s].news # <<>>
    BY <1>6 DEF Hears
  <2>2. Tail(sock[s].news) \in Seq({"open"} \cup Closing)
    BY <2>1 DEF Socket
  <2> DEFINE near == IF event = "open" THEN "open" ELSE "closed"
             heard == [sock[s] EXCEPT !.news = Tail(sock[s].news), !.near = near]
  <2>3. near \in {"open", "closed"}
    OBVIOUS
  <2>4. heard \in Socket
    <3> HIDE DEF near
    <3> QED BY <2>1, <2>2, <2>3 DEF Socket
  <2>5. sock' = [sock EXCEPT ![s] = heard]
    BY <1>6 DEF Hears
  <2> HIDE DEF heard
  <2> QED BY <2>4, <2>5
<1>7. ASSUME NEW d \in Devices, Lifecycle(d) \/ Restore(d)
      PROVE  sock' \in [Sockets -> Socket]
  BY <1>7, HungUpType DEF Lifecycle, Restore, Evaluate
<1>8. ASSUME NEW d \in Devices, TicketOk(d) PROVE sock' \in [Sockets -> Socket]
  <2> DEFINE made(s) == [sock[s] EXCEPT !.owner = d, !.near = "new"]
  <2>1. ASSUME NEW s \in Sockets PROVE made(s) \in Socket
    BY DEF Socket
  <2>2. sock' = sock \/ \E s \in Sockets : sock' = [sock EXCEPT ![s] = made(s)]
    BY <1>8 DEF TicketOk
  <2> HIDE DEF made
  <2> QED BY <2>1, <2>2
<1>9. ASSUME NEW d \in Devices, Refreshed(d) PROVE sock' \in [Sockets -> Socket]
  BY <1>9, HungUpType DEF Refreshed
<1>10. CASE SubscribeFails
  <2>1. \A s \in Sockets : Told(s, "4500") \in Socket
    BY ToldType DEF Closing
  <2> QED BY <1>10, <2>1 DEF SubscribeFails
<1>11. CASE Restart
  <2>1. ASSUME NEW s \in Sockets
        PROVE  [sock[s] EXCEPT !.far = "gone", !.news = Hearing(s, "1006")] \in Socket
    <3>1. Hearing(s, "1006") \in Seq({"open"} \cup Closing)
      BY HearingType DEF Closing
    <3> QED BY <3>1 DEF Socket
  <2> QED BY <1>11, <2>1 DEF Restart
<1>12. CASE \/ SubscribeOk \/ Unsubscribe \/ UNCHANGED vars
            \/ \E d \in Devices : Degrade(d) \/ TicketFails(d) \/ TimerFires(d)
  BY <1>12 DEF SubscribeOk, Unsubscribe, vars, Degrade, TicketFails, TimerFires
<1> QED
  BY <1>1, <1>2, <1>3, <1>4, <1>5, <1>6, <1>7, <1>8, <1>9, <1>10, <1>11, <1>12
  DEF Next, HearOpen, HearClose

(* The consumers keep their type.                                            *)
LEMMA ClientType ==
  ASSUME TypeOK, [Next]_vars
  PROVE  client' \in [Devices -> Consumer]
<1> USE DEF TypeOK
<1>1. ASSUME NEW d \in Devices
      PROVE  /\ client[d] \in Consumer
             /\ \A open \in BOOLEAN : Evaluated(client[d], open) \in Consumer
  BY EvaluatedType
<1>2. ASSUME NEW d \in Devices, Lifecycle(d) PROVE client' \in [Devices -> Consumer]
  <2>1. Open(d)' \in BOOLEAN
    BY <1>2 DEF Lifecycle, Open
  <2> QED BY <1>1, <1>2, <2>1 DEF Lifecycle, Evaluate
<1>3. ASSUME NEW d \in Devices, Restore(d) PROVE client' \in [Devices -> Consumer]
  <2>1. Open(d) \in BOOLEAN
    BY DEF Open
  <2> QED BY <1>1, <1>3, <2>1 DEF Restore, Evaluate
<1>4. ASSUME NEW d \in Devices, TicketOk(d) \/ TicketFails(d)
      PROVE  client' \in [Devices -> Consumer]
  <2>1. client[d].fetches \in Nat
    BY <1>1 DEF Consumer
  <2>2. client[d].fetches > 0
    BY <1>4 DEF TicketOk, TicketFails
  <2>3. client[d].fetches - 1 \in Nat
    BY <2>1, <2>2
  <2> DEFINE taken(s) == [client[d] EXCEPT !.socket = s, !.connecting = FALSE,
                                           !.fetches = client[d].fetches - 1]
             dropped == [client[d] EXCEPT !.connecting = FALSE,
                                          !.fetches = client[d].fetches - 1]
             retried == [client[d] EXCEPT !.connecting = FALSE,
                                          !.fetches = client[d].fetches - 1, !.timer = TRUE]
  <2>4. \A s \in Sockets : taken(s) \in Consumer
    BY <1>1, <2>3 DEF Consumer
  <2>5. dropped \in Consumer /\ retried \in Consumer
    BY <1>1, <2>3 DEF Consumer
  <2>6. \/ \E s \in Sockets : client' = [client EXCEPT ![d] = taken(s)]
        \/ client' = [client EXCEPT ![d] = dropped]
        \/ client' = [client EXCEPT ![d] = retried]
    BY <1>4 DEF TicketOk, TicketFails, Retry
  <2> HIDE DEF taken, dropped, retried
  <2> QED BY <2>4, <2>5, <2>6
<1>5. ASSUME NEW d \in Devices, TimerFires(d) PROVE client' \in [Devices -> Consumer]
  <2>1. [client[d] EXCEPT !.timer = FALSE] \in Consumer
    BY <1>1 DEF Consumer
  <2>2. Connected([client[d] EXCEPT !.timer = FALSE]) \in Consumer
    BY <2>1, EvaluatedType
  <2> QED BY <1>5, <2>1, <2>2 DEF TimerFires
<1>6. ASSUME NEW s \in Sockets, HearOpen(s) PROVE client' \in [Devices -> Consumer]
  <2>1. ASSUME NEW d \in Devices PROVE [client[d] EXCEPT !.refreshed = FALSE] \in Consumer
    <3>1. client[d] \in Consumer
      BY <1>1
    <3> QED BY <3>1 DEF Consumer
  <2> QED BY <1>6, <2>1 DEF HearOpen
<1>7. ASSUME NEW s \in Sockets, NEW code \in Closing, HearClose(s, code)
      PROVE  client' \in [Devices -> Consumer]
  <2> DEFINE d == sock[s].owner
             c == [client[d] EXCEPT !.socket = NoSocket]
             refresh == [c EXCEPT !.refreshed = TRUE, !.refreshing = TRUE]
             retry == [c EXCEPT !.timer = c.timer \/ Open(d)]
  <2>1. CASE d \in Devices
    <3>1. c \in Consumer /\ Open(d) \in BOOLEAN
      BY <1>1, <2>1 DEF Consumer, Open
    <3>2. c.timer \in BOOLEAN /\ (c.timer \/ Open(d)) \in BOOLEAN
      BY <3>1 DEF Consumer
    <3>3. refresh \in Consumer /\ retry \in Consumer
      <4> HIDE DEF c
      <4> QED BY <3>1, <3>2 DEF Consumer
    <3>4. \/ client' = client
          \/ client' = [client EXCEPT ![d] = refresh]
          \/ client' = [client EXCEPT ![d] = retry]
      BY <1>7 DEF HearClose
    <3> HIDE DEF refresh, retry, d
    <3> QED BY <2>1, <3>3, <3>4
  <2>2. CASE d \notin Devices
    <3>1. \/ client' = client
          \/ client' = [client EXCEPT ![d] = refresh]
          \/ client' = [client EXCEPT ![d] = retry]
      BY <1>7 DEF HearClose
    <3> HIDE DEF refresh, retry, d
    <3> QED BY <2>2, <3>1
  <2> QED BY <2>1, <2>2
<1>8. ASSUME NEW d \in Devices, Refreshed(d) PROVE client' \in [Devices -> Consumer]
  <2> DEFINE back == [client[d] EXCEPT !.refreshing = FALSE]
  <2>1. back \in Consumer /\ Open(d) \in BOOLEAN /\ gate[d] \in BOOLEAN
    BY <1>1 DEF Consumer, Open
  <2>2. Evaluated(back, Open(d)) \in Consumer
    BY <2>1, EvaluatedType
  <2>3. /\ [Evaluated(back, Open(d)) EXCEPT !.timer = @ \/ gate[d]] \in Consumer
        /\ [back EXCEPT !.timer = @ \/ Open(d)] \in Consumer
    BY <2>1, <2>2 DEF Consumer
  <2>4. \/ client' = [client EXCEPT ![d] = [Evaluated(back, Open(d)) EXCEPT !.timer = @ \/ gate[d]]]
        \/ client' = [client EXCEPT ![d] = [back EXCEPT !.timer = @ \/ Open(d)]]
        \/ client' = [client EXCEPT ![d] = back]
    BY <1>8 DEF Refreshed
  <2> HIDE DEF back
  <2> QED BY <2>1, <2>3, <2>4
<1>9. CASE \/ SubscribeOk \/ SubscribeFails \/ Unsubscribe \/ Restart \/ UNCHANGED vars
           \/ \E d \in Devices : Degrade(d)
           \/ \E s \in Sockets : \/ Upgrade(s) \/ NoUpgrade(s) \/ Remove(s)
                                 \/ Expire(s) \/ Break(s) \/ Forget(s)
  BY <1>9 DEF SubscribeOk, SubscribeFails, Unsubscribe, Restart, vars, Degrade,
              Upgrade, NoUpgrade, Remove, Expire, Break, Forget
<1> QED
  BY <1>2, <1>3, <1>4, <1>5, <1>6, <1>7, <1>8, <1>9 DEF Next

(* The hub moves only when a socket is upgraded or removed, when Redis         *)
(* answers, or when the service starts again.                                *)
LEMMA HubSteps ==
  ASSUME [Next]_vars
  PROVE  \/ \E s \in Sockets : Upgrade(s) \/ Remove(s)
         \/ SubscribeOk \/ SubscribeFails \/ Unsubscribe \/ Restart
         \/ UNCHANGED hubVars
BY DEF Next, vars, NoUpgrade, Expire, Break, Forget, HearOpen, HearClose, Hears,
       Lifecycle, Degrade, Restore, TicketOk, TicketFails, TimerFires, Refreshed

(* Everything but the sockets and the consumers keeps its type; the gauge is  *)
(* the business of GaugeStep.                                                *)
LEMMA RestType ==
  ASSUME TypeOK, [Next]_vars
  PROVE  /\ members' \subseteq Sockets
         /\ commands' \in Seq({"subscribe", "unsubscribe"})
         /\ subscribed' \in BOOLEAN
         /\ gate' \in [Devices -> BOOLEAN]
         /\ latched' \in [Devices -> BOOLEAN]
         /\ upsets' \in 0 .. MaxUpsets
<1> USE DEF TypeOK
<1>1. upsets' \in 0 .. MaxUpsets
  <2>1. ASSUME Upset PROVE upsets' \in 0 .. MaxUpsets
    BY <2>1, DoorbellAssumption DEF Upset
  <2>2. Upset \/ UNCHANGED upsets
    BY DEF Next, vars, hubVars, envVars, Upgrade, NoUpgrade, Remove, Expire, Break,
           Forget, HearOpen, HearClose, Hears, Lifecycle, Degrade, Restore, TicketOk,
           TicketFails, TimerFires, Refreshed, SubscribeOk, SubscribeFails,
           Unsubscribe, Restart
  <2> QED BY <2>1, <2>2
<1>2. gate' \in [Devices -> BOOLEAN] /\ latched' \in [Devices -> BOOLEAN]
  BY DEF Next, vars, hubVars, envVars, Upgrade, NoUpgrade, Remove, Expire, Break,
         Forget, HearOpen, HearClose, Hears, Lifecycle, Degrade, Restore, TicketOk,
         TicketFails, TimerFires, Refreshed, SubscribeOk, SubscribeFails,
         Unsubscribe, Restart
<1>3. ASSUME NEW s \in Sockets, Upgrade(s) \/ Remove(s)
      PROVE  /\ members' \subseteq Sockets /\ subscribed' \in BOOLEAN
             /\ commands' \in Seq({"subscribe", "unsubscribe"})
  <2>1. \A c \in {"subscribe", "unsubscribe"} :
          Append(commands, c) \in Seq({"subscribe", "unsubscribe"})
    OBVIOUS
  <2>2. \/ UNCHANGED commands
        \/ commands' \in {Append(commands, "subscribe"), Append(commands, "unsubscribe")}
    BY <1>3 DEF Upgrade, Remove, Register
  <2>3. members' \subseteq members \cup {s} /\ UNCHANGED subscribed
    BY <1>3 DEF Upgrade, Remove, Register
  <2> QED BY <2>1, <2>2, <2>3
<1>4. ASSUME SubscribeOk \/ SubscribeFails \/ Unsubscribe \/ Restart
      PROVE  /\ members' \subseteq Sockets /\ subscribed' \in BOOLEAN
             /\ commands' \in Seq({"subscribe", "unsubscribe"})
  <2>1. commands # <<>> => Tail(commands) \in Seq({"subscribe", "unsubscribe"})
    OBVIOUS
  <2>2. commands' = <<>> \/ (commands # <<>> /\ commands' = Tail(commands))
    <3>1. CASE Restart
      BY <3>1 DEF Restart
    <3>2. CASE SubscribeOk \/ SubscribeFails \/ Unsubscribe
      BY <3>2 DEF SubscribeOk, SubscribeFails, Unsubscribe, Answer
    <3> QED BY <1>4, <3>1, <3>2
  <2>3. commands' \in Seq({"subscribe", "unsubscribe"})
    <3>1. <<>> \in Seq({"subscribe", "unsubscribe"})
      OBVIOUS
    <3> HIDE DEF TypeOK
    <3> QED BY <2>1, <2>2, <3>1
  <2>4. members' \subseteq members /\ subscribed' \in {TRUE, FALSE, subscribed}
    BY <1>4 DEF SubscribeOk, SubscribeFails, Unsubscribe, Restart
  <2> QED BY <2>3, <2>4
<1>5. ASSUME UNCHANGED hubVars
      PROVE  /\ members' \subseteq Sockets /\ subscribed' \in BOOLEAN
             /\ commands' \in Seq({"subscribe", "unsubscribe"})
  BY <1>5 DEF hubVars
<1>6. \/ \E s \in Sockets : Upgrade(s) \/ Remove(s)
      \/ SubscribeOk \/ SubscribeFails \/ Unsubscribe \/ Restart
      \/ UNCHANGED hubVars
  BY HubSteps
<1> QED BY <1>1, <1>2, <1>3, <1>4, <1>5, <1>6

-----------------------------------------------------------------------------
(* The hub.                                                                  *)

(* A counted socket is not finished with: what is upgraded is counted, what    *)
(* is finished is counted out, and a name is free only after that.            *)
LEMMA HeldStep ==
  ASSUME TypeOK, HeldInv, [Next]_vars
  PROVE  HeldInv'
<1> USE DEF HeldInv
<1>1. ASSUME NEW s \in Sockets, Upgrade(s) PROVE HeldInv'
  <2>1. s \notin members
    BY <1>1 DEF Upgrade
  <2>2. \A t \in members : t # s /\ t \in Sockets /\ sock'[t] = sock[t]
    BY <1>1, <2>1 DEF Upgrade, TypeOK
  <2>3. CASE members' = members
    BY <2>2, <2>3
  <2>4. CASE members' # members
    <3>1. members' = members \cup {s}
      BY <1>1, <2>4 DEF Upgrade, Register
    <3>2. sock' = [sock EXCEPT ![s] =
                     [sock[s] EXCEPT !.far = "open", !.news = Hearing(s, "open")]]
      BY <1>1, <2>4 DEF Upgrade
    <3>3. sock[s] \in Socket
      BY DEF TypeOK
    <3>4. sock'[s].far = "open"
      BY <3>2, <3>3 DEF TypeOK, Socket
    <3> QED BY <2>2, <3>1, <3>4
  <2> QED BY <2>3, <2>4
<1>2. ASSUME NEW s \in Sockets, NoUpgrade(s) \/ Remove(s) \/ Forget(s)
      PROVE  HeldInv'
  <2>1. s \notin members'
    BY <1>2 DEF NoUpgrade, Remove, Forget, hubVars
  <2>2. members' \subseteq members
    BY <1>2 DEF NoUpgrade, Remove, Forget, hubVars
  <2>3. \A t \in Sockets \ {s} : sock'[t] = sock[t]
    BY <1>2 DEF NoUpgrade, Remove, Forget, TypeOK
  <2> QED BY <2>1, <2>2, <2>3 DEF TypeOK
<1>11. ASSUME NEW d \in Devices, TicketOk(d) PROVE HeldInv'
  <2>1. CASE sock' = sock
    BY <1>11, <2>1 DEF TicketOk, hubVars
  <2>2. CASE sock' # sock
    <3>1. PICK t \in Sockets :
            /\ sock[t] = Unused
            /\ sock' = [sock EXCEPT ![t] = [sock[t] EXCEPT !.owner = d, !.near = "new"]]
      BY <1>11, <2>2 DEF TicketOk
    <3>2. t \notin members
      BY <3>1 DEF Unused
    <3> QED BY <1>11, <3>1, <3>2 DEF TicketOk, hubVars, TypeOK
  <2> QED BY <2>1, <2>2
<1>3. ASSUME NEW s \in Sockets, Expire(s) \/ Break(s) PROVE HeldInv'
  <2>1. PICK code \in Closing : sock' = [sock EXCEPT ![s] = Told(s, code)]
    BY <1>3 DEF Expire, Break, Closing
  <2>2. Told(s, code).far = "closing"
    BY DEF Told, TypeOK, Socket
  <2> QED BY <1>3, <2>1, <2>2 DEF Expire, Break, hubVars, TypeOK
<1>4. ASSUME UNCHANGED members, \A t \in Sockets : sock'[t].far = sock[t].far
      PROVE  HeldInv'
  BY <1>4 DEF TypeOK
<1>5. ASSUME NEW s, NEW e, e \in Socket, e.far = sock[s].far,
             sock' = [sock EXCEPT ![s] = e]
      PROVE  \A t \in Sockets : sock'[t].far = sock[t].far
  BY <1>5 DEF TypeOK
<1>6. ASSUME NEW s PROVE \A t \in Sockets : HungUp(s)[t].far = sock[t].far
  BY DEF HungUp, TypeOK, Socket
<1>7. ASSUME NEW s \in Sockets, HearOpen(s) \/ \E code \in Closing : HearClose(s, code)
      PROVE  HeldInv'
  <2>1. PICK event : Hears(s, event)
    BY <1>7 DEF HearOpen, HearClose
  <2>2. \A t \in Sockets : sock'[t].far = sock[t].far
    BY <2>1 DEF Hears, TypeOK, Socket
  <2> QED BY <1>4, <2>1, <2>2 DEF Hears, hubVars
<1>8. ASSUME NEW d \in Devices, Lifecycle(d) \/ Restore(d) \/ Refreshed(d) PROVE HeldInv'
  <2>1. sock' = sock \/ sock' = HungUp(client[d].socket)
    BY <1>8 DEF Lifecycle, Restore, Refreshed, Evaluate
  <2>2. UNCHANGED members
    BY <1>8 DEF Lifecycle, Restore, Refreshed, hubVars
  <2> QED BY <1>4, <1>6, <2>1, <2>2
<1>9. CASE SubscribeFails \/ Restart
  BY <1>9 DEF SubscribeFails, Restart, Dependents
<1>10. CASE \/ SubscribeOk \/ Unsubscribe \/ UNCHANGED vars
            \/ \E d \in Devices : Degrade(d) \/ TicketFails(d) \/ TimerFires(d)
  BY <1>10 DEF SubscribeOk, Unsubscribe, vars, hubVars, Degrade, TicketFails, TimerFires
<1> QED
  BY <1>1, <1>2, <1>3, <1>7, <1>8, <1>9, <1>10, <1>11 DEF Next

(* A set of counted sockets is finite, and its size moves by one with each.   *)
LEMMA Counting ==
  ASSUME TypeOK
  PROVE  /\ Cardinality(members) \in Nat
         /\ \A s : s \notin members =>
              Cardinality(members \cup {s}) = Cardinality(members) + 1
         /\ \A s \in members : Cardinality(members \ {s}) = Cardinality(members) - 1
<1>1. IsFiniteSet(members)
  BY FS_Subset, DoorbellAssumption DEF TypeOK
<1> QED BY <1>1, FS_CardinalityType, FS_AddElement, FS_RemoveElement

(* The gauge counts the registered sockets.                                   *)
LEMMA GaugeStep ==
  ASSUME TypeOK, HeldInv, GaugeExact, [Next]_vars
  PROVE  GaugeExact' /\ gauge' \in Nat
<1> USE DEF GaugeExact
<1>1. ASSUME NEW s \in Sockets, Upgrade(s) PROVE GaugeExact' /\ gauge' \in Nat
  <2>1. s \notin members
    BY <1>1 DEF Upgrade, HeldInv
  <2>2. \/ members' = members \cup {s} /\ gauge' = gauge + 1
        \/ UNCHANGED <<members, gauge>>
    BY <1>1 DEF Upgrade, Register
  <2> QED BY <2>1, <2>2, Counting
<1>2. ASSUME NEW s \in Sockets, Remove(s) PROVE GaugeExact' /\ gauge' \in Nat
  <2>1. members' = members \ {s}
    BY <1>2 DEF Remove
  <2>2. CASE s \in members
    <3>1. gauge' = gauge - 1 /\ Cardinality(members') = Cardinality(members) - 1
      BY <1>2, <2>1, <2>2, Counting DEF Remove, Registered
    <3>2. Cardinality(members') \in Nat
      <4>1. IsFiniteSet(members')
        BY <2>1, FS_Subset, DoorbellAssumption DEF TypeOK
      <4> QED BY <4>1, FS_CardinalityType
    <3> QED BY <3>1, <3>2
  <2>3. CASE s \notin members
    <3>1. members' = members
      BY <2>1, <2>3
    <3> QED BY <1>2, <2>3, <3>1, Counting DEF Remove, Registered
  <2> QED BY <2>2, <2>3
<1>3. CASE SubscribeFails \/ Restart
  <2>1. members' = {}
    BY <1>3 DEF SubscribeFails, Restart, Dependents
  <2>2. gauge' = 0 \/ gauge' = Cardinality(members) - Cardinality(members)
    BY <1>3 DEF SubscribeFails, Restart, Dependents
  <2>3. gauge' = 0
    BY <2>2, Counting
  <2> QED BY <2>1, <2>3, FS_EmptySet
<1>4. CASE UNCHANGED <<members, gauge>>
  BY <1>4 DEF TypeOK
<1>5. \/ \E s \in Sockets : Upgrade(s) \/ Remove(s)
      \/ SubscribeFails \/ Restart \/ UNCHANGED <<members, gauge>>
  BY HubSteps DEF SubscribeOk, Unsubscribe, hubVars
<1> QED BY <1>1, <1>2, <1>3, <1>4, <1>5

(* While there are sockets, the last word at Redis is or will be to subscribe: *)
(* the first socket says so last, and no word to the contrary is said before   *)
(* the last socket goes.                                                     *)
LEMMA DeafStep ==
  ASSUME TypeOK, NoDeafSocket, [Next]_vars
  PROVE  NoDeafSocket'
<1> USE DEF NoDeafSocket, LastWord, TypeOK
<1>1. ASSUME NEW s \in Sockets, Upgrade(s) PROVE NoDeafSocket'
  <2>1. CASE UNCHANGED <<members, commands>>
    BY <1>1, <2>1 DEF Upgrade
  <2>2. CASE Register(s) /\ members = {}
    <3>1. commands' = Append(commands, "subscribe")
      BY <2>2 DEF Register
    <3>2. commands' # <<>> /\ commands'[Len(commands')] = "subscribe"
      BY <3>1
    <3> QED BY <3>2
  <2>3. CASE Register(s) /\ members # {}
    BY <1>1, <2>3 DEF Upgrade, Register
  <2> QED BY <1>1, <2>1, <2>2, <2>3 DEF Upgrade
<1>2. ASSUME NEW s \in Sockets, Remove(s) PROVE NoDeafSocket'
  <2>1. CASE LastOne(s)
    BY <1>2, <2>1 DEF Remove, LastOne
  <2>2. CASE ~LastOne(s)
    BY <1>2, <2>2 DEF Remove, LastOne
  <2> QED BY <2>1, <2>2
<1>3. CASE SubscribeFails \/ Restart
  BY <1>3 DEF SubscribeFails, Restart, Dependents
<1>4. CASE SubscribeOk \/ Unsubscribe
  <2>1. commands # <<>> /\ commands' = Tail(commands) /\ UNCHANGED members
    BY <1>4 DEF SubscribeOk, Unsubscribe, Answer
  <2>2. CASE Tail(commands) # <<>>
    <3>1. Tail(commands)[Len(Tail(commands))] = commands[Len(commands)]
      <4>1. commands \in Seq({"subscribe", "unsubscribe"}) /\ commands # <<>>
        BY <2>1
      <4> HIDE DEF TypeOK
      <4>2. /\ Len(commands) \in Nat /\ Len(Tail(commands)) = Len(commands) - 1
            /\ Len(Tail(commands)) > 0
        BY <4>1, <2>2
      <4>3. \A i \in 1 .. Len(Tail(commands)) : Tail(commands)[i] = commands[i + 1]
        BY <4>1
      <4> QED BY <4>2, <4>3
    <3> QED BY <2>1, <2>2, <3>1
  <2>3. CASE Tail(commands) = <<>>
    <3>1. commands[Len(commands)] = Head(commands)
      <4>1. commands \in Seq({"subscribe", "unsubscribe"}) /\ commands # <<>>
        BY <2>1
      <4> HIDE DEF TypeOK
      <4>2. Len(commands) \in Nat /\ Len(Tail(commands)) = Len(commands) - 1
        BY <4>1
      <4>3. Len(Tail(commands)) = Len(<<>>)
        BY <2>3, Zenon
      <4>4. Len(commands) = 1
        BY <4>2, <4>3
      <4> QED BY <4>1, <4>4
    <3> QED BY <1>4, <2>1, <2>3, <3>1 DEF SubscribeOk, Unsubscribe, Answer
  <2> QED BY <2>2, <2>3
<1>5. CASE UNCHANGED hubVars
  BY <1>5 DEF hubVars
<1> QED BY <1>1, <1>2, <1>3, <1>4, <1>5, HubSteps

-----------------------------------------------------------------------------
(* The theorems.                                                             *)

(* The inductive invariant holds in every reachable state.                    *)
THEOREM Invariance == Spec => []IndInv
<1>1. Init => IndInv
  <2> SUFFICES ASSUME Init PROVE IndInv
    OBVIOUS
  <2>1. Asleep \in Consumer
    BY DEF Asleep, Consumer
  <2>2. \A d \in Devices : Evaluated(Asleep, gate[d]) \in Consumer
    BY <2>1, EvaluatedType DEF Init
  <2>3. Unused \in Socket
    BY DEF Unused, Socket
  <2>4. TypeOK
    <3>1. members \subseteq Sockets /\ gauge \in Nat /\ subscribed \in BOOLEAN
      BY DEF Init
    <3>2. commands \in Seq({"subscribe", "unsubscribe"})
      BY DEF Init
    <3>3. sock \in [Sockets -> Socket] /\ client \in [Devices -> Consumer]
      BY <2>2, <2>3 DEF Init
    <3>4. gate \in [Devices -> BOOLEAN] /\ latched \in [Devices -> BOOLEAN]
      BY DEF Init
    <3>5. upsets \in 0 .. MaxUpsets
      BY DoorbellAssumption DEF Init
    <3> QED BY <3>1, <3>2, <3>3, <3>4, <3>5 DEF TypeOK
  <2>5. HeldInv /\ GaugeExact /\ NoDeafSocket
    BY FS_EmptySet DEF Init, HeldInv, GaugeExact, NoDeafSocket
  <2> QED BY <2>4, <2>5 DEF IndInv
<1>2. IndInv /\ [Next]_vars => IndInv'
  <2> SUFFICES ASSUME IndInv, [Next]_vars PROVE IndInv'
    OBVIOUS
  <2>1. HeldInv' /\ GaugeExact' /\ gauge' \in Nat /\ NoDeafSocket'
    BY HeldStep, GaugeStep, DeafStep DEF IndInv
  <2>2. TypeOK'
    BY <2>1, SockType, ClientType, RestType DEF IndInv, TypeOK
  <2> QED BY <2>1, <2>2 DEF IndInv
<1> QED BY <1>1, <1>2, PTL DEF Spec

(* The variables keep their types.                                           *)
THEOREM TypeCorrect == Spec => []TypeOK
<1>1. IndInv => TypeOK
  BY DEF IndInv
<1> QED BY <1>1, Invariance, PTL

(* However sockets come and go and whatever Redis answers, an account with     *)
(* sockets is subscribed or about to be, and the gauge counts its sockets.    *)
THEOREM SocketsAreServed == Spec => [](NoDeafSocket /\ GaugeExact)
<1>1. IndInv => NoDeafSocket /\ GaugeExact
  BY DEF IndInv
<1> QED BY <1>1, Invariance, PTL

(* A device the auth service refuses makes no new attempt.                    *)
LEMMA QuietNext ==
  ASSUME TypeOK, [Next]_vars, NEW d \in Devices
  PROVE  QuietStep(d)
<1> SUFFICES ASSUME latched[d], latched'[d]
             PROVE  /\ client'[d].fetches <= client[d].fetches
                    /\ client'[d].socket \in {client[d].socket, NoSocket}
  BY DEF QuietStep
<1> DEFINE Quiet == /\ client'[d].fetches <= client[d].fetches
                    /\ client'[d].socket \in {client[d].socket, NoSocket}
<1>1. client[d] \in Consumer /\ client[d].fetches \in Nat /\ ~Open(d)
  BY DEF TypeOK, Consumer, Open
<1>2. CASE client'[d] = client[d]
  BY <1>1, <1>2
<1>3. ASSUME NEW c \in Consumer, c.fetches = client[d].fetches,
             c.socket \in {client[d].socket, NoSocket}, client'[d] = c
      PROVE  Quiet
  BY <1>1, <1>3
<1>4. ASSUME NEW e \in Devices, Lifecycle(e) PROVE Quiet
  <2>1. ~Open(d)'
    BY DEF Open
  <2>2. CASE e = d
    <3>1. client'[d] = Disconnected(client[d])
      BY <1>4, <2>1, <2>2 DEF Lifecycle, Evaluate, Evaluated, TypeOK
    <3> QED BY <1>1, <3>1 DEF Disconnected, Consumer
  <2>3. CASE e # d
    BY <1>2, <1>4, <2>3 DEF Lifecycle, Evaluate, TypeOK
  <2> QED BY <2>2, <2>3
<1>5. ASSUME NEW e \in Devices, Restore(e) PROVE Quiet
  <2>1. e # d
    BY <1>5 DEF Restore, TypeOK
  <2> QED BY <1>2, <1>5, <2>1 DEF Restore, Evaluate, TypeOK
<1>6. ASSUME NEW e \in Devices, TicketOk(e) \/ TicketFails(e) PROVE Quiet
  <2>1. CASE e = d
    <3> DEFINE dropped == [client[d] EXCEPT !.connecting = FALSE,
                                            !.fetches = client[d].fetches - 1]
               retried == [client[d] EXCEPT !.connecting = FALSE,
                                            !.fetches = client[d].fetches - 1, !.timer = TRUE]
    <3>1. \/ client' = [client EXCEPT ![d] = dropped]
          \/ client' = [client EXCEPT ![d] = retried]
      BY <1>1, <1>6, <2>1 DEF TicketOk, TicketFails, Retry
    <3>2. client'[d] = dropped \/ client'[d] = retried
      BY <3>1 DEF TypeOK
    <3>3. client'[d].fetches = client[d].fetches - 1 /\ client'[d].socket = client[d].socket
      BY <1>1, <3>2 DEF Consumer
    <3> QED BY <1>1, <3>3
  <2>2. CASE e # d
    BY <1>2, <1>6, <2>2 DEF TicketOk, TicketFails, TypeOK
  <2> QED BY <2>1, <2>2
<1>7. ASSUME NEW e \in Devices, TimerFires(e) PROVE Quiet
  <2>1. CASE e = d
    <3>1. client'[d] = [client[d] EXCEPT !.timer = FALSE]
      BY <1>1, <1>7, <2>1 DEF TimerFires, TypeOK
    <3> QED BY <1>1, <3>1 DEF Consumer
  <2>2. CASE e # d
    BY <1>2, <1>7, <2>2 DEF TimerFires, TypeOK
  <2> QED BY <2>1, <2>2
<1>8. ASSUME NEW s \in Sockets, HearOpen(s) PROVE Quiet
  BY <1>1, <1>8 DEF HearOpen, TypeOK, Consumer
<1>9. ASSUME NEW s \in Sockets, NEW code \in Closing, HearClose(s, code) PROVE Quiet
  <2>1. CASE sock[s].owner = d
    <3>1. \/ client'[d] = client[d]
          \/ client'[d].fetches = client[d].fetches /\ client'[d].socket = NoSocket
      BY <1>1, <1>9, <2>1 DEF HearClose, TypeOK, Consumer
    <3> QED BY <1>1, <3>1
  <2>2. CASE sock[s].owner # d
    BY <1>2, <1>9, <2>2 DEF HearClose, TypeOK
  <2> QED BY <2>1, <2>2
<1>10. ASSUME NEW e \in Devices, Refreshed(e) PROVE Quiet
  <2>1. CASE e = d
    <3> DEFINE back == [client[d] EXCEPT !.refreshing = FALSE]
               retried == [back EXCEPT !.timer = back.timer \/ Open(d)]
    <3>1. latched' # [latched EXCEPT ![d] = FALSE]
      BY DEF TypeOK
    <3>2. client' = [client EXCEPT ![d] = retried] \/ client' = [client EXCEPT ![d] = back]
      BY <1>10, <2>1, <3>1 DEF Refreshed
    <3>3. client'[d] = retried \/ client'[d] = back
      <4> HIDE DEF retried, back
      <4> QED BY <3>2 DEF TypeOK
    <3>4. back.fetches = client[d].fetches /\ back.socket = client[d].socket
      BY <1>1 DEF Consumer
    <3>5. back \in Consumer
      BY <1>1 DEF Consumer
    <3>6. retried.fetches = back.fetches /\ retried.socket = back.socket
      <4> HIDE DEF back
      <4> QED BY <3>5 DEF Consumer
    <3> HIDE DEF retried, back
    <3> QED BY <1>1, <3>3, <3>4, <3>6
  <2>2. CASE e # d
    BY <1>2, <1>10, <2>2 DEF Refreshed, TypeOK
  <2> QED BY <2>1, <2>2
<1>11. CASE \/ SubscribeOk \/ SubscribeFails \/ Unsubscribe \/ Restart \/ UNCHANGED vars
            \/ \E e \in Devices : Degrade(e)
            \/ \E s \in Sockets : \/ Upgrade(s) \/ NoUpgrade(s) \/ Remove(s)
                                  \/ Expire(s) \/ Break(s) \/ Forget(s)
  BY <1>2, <1>11 DEF SubscribeOk, SubscribeFails, Unsubscribe, Restart, vars, Degrade,
              Upgrade, NoUpgrade, Remove, Expire, Break, Forget
<1> QED
  BY <1>4, <1>5, <1>6, <1>7, <1>8, <1>9, <1>10, <1>11 DEF Next

(* A degraded engine stays stopped, whatever was under way when it was         *)
(* refused.                                                                  *)
THEOREM DegradedIsQuiet == Spec => QuietWhileDegraded
<1>1. TypeOK /\ [Next]_vars => \A d \in Devices : QuietStep(d)
  BY QuietNext
<1>2. TypeOK /\ [Next]_vars => [\A d \in Devices : QuietStep(d)]_vars
  BY <1>1
<1> HIDE DEF QuietStep
<1> QED BY <1>2, TypeCorrect, PTL DEF Spec, QuietWhileDegraded

=============================================================================
