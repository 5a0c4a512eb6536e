----------------------------- MODULE ChangeFeed -----------------------------
(***************************************************************************)
(* What the devices of an account may assume of the record store, without   *)
(* its tables, transactions and pages: the changes of the account form one  *)
(* log, a rev is an index into it, a pushed batch is appended at one moment  *)
(* or not at all, and each of its changes was decided against the log below  *)
(* it.  A device reads the log in order; of the changes it passes it may     *)
(* miss those that a later one has replaced, and no other.                  *)
(***************************************************************************)
EXTENDS Integers, Sequences

CONSTANTS Ids,          \* blind ids of one account
          Collections,
          Readers       \* devices reading the log

VARIABLES log,     \* the changes of the account, in the order of their revs
          cursor,  \* how far a device has read
          known,   \* the rev of the change a device holds for an id, 0 for none
          told     \* <<id, rev>> some writer was told is in the log

vars == <<log, cursor, known, told>>

(* base is the rev the writer had seen of the id.                            *)
Change == [id : Ids, collection : Collections, deleted : BOOLEAN, base : Nat]

Revs(l, i) == {r \in DOMAIN l : l[r].id = i}

(* The last change of an id that lies below n.                               *)
LastBelow(l, i, n, q) ==
  /\ q \in Revs(l, i) /\ q < n
  /\ \A r \in Revs(l, i) : r < n => r <= q

Newest(l, i, q) == LastBelow(l, i, Len(l) + 1, q)

(* Change r may follow what is below it: an id stays in its collection, a     *)
(* write is made on the last change of its id, a deletion is recorded once,   *)
(* and only a provider comes back after its deletion.                       *)
Decided(l, r) ==
  \A q \in DOMAIN l : LastBelow(l, l[r].id, r, q) =>
    /\ l[r].collection = l[q].collection
    /\ IF l[r].deleted THEN ~l[q].deleted
       ELSE /\ l[r].base = q
            /\ l[q].deleted => l[r].collection = "providers"

Init ==
  /\ log = <<>>
  /\ cursor = [d \in Readers |-> 0]
  /\ known = [d \in Readers |-> [i \in Ids |-> 0]]
  /\ told = {}

(* The changes of a batch that were accepted go to the end of the log.        *)
Grow ==
  /\ log' \in Seq(Change)
  /\ Len(log) < Len(log')
  /\ \A r \in DOMAIN log : log'[r] = log[r]
  /\ \A r \in DOMAIN log' \ DOMAIN log : Decided(log', r)
  /\ UNCHANGED <<cursor, known, told>>

(* A device reads on to n.  What it takes in are changes between its old      *)
(* place and the new one, among them every one that is the last of its id.   *)
Read(d) ==
  \E n \in cursor[d] .. Len(log) :
    /\ cursor' = [cursor EXCEPT ![d] = n]
    /\ \E k \in [Ids -> 0 .. n] :
         /\ known' = [known EXCEPT ![d] = k]
         /\ \A i \in Ids :
              /\ k[i] # known[d][i] => cursor[d] < k[i] /\ k[i] \in Revs(log, i)
              /\ \A q \in Revs(log, i) :
                   cursor[d] < q /\ q <= n /\ Newest(log, i, q) => k[i] = q
    /\ UNCHANGED <<log, told>>

(* A writer learns the revs of changes that are in the log.                   *)
Tell ==
  /\ told \subseteq told'
  /\ \A t \in told' \ told : t[2] \in Revs(log, t[1])
  /\ UNCHANGED <<log, cursor, known>>

Next == Grow \/ Tell \/ \E d \in Readers : Read(d)

Spec == Init /\ [][Next]_vars

=============================================================================
