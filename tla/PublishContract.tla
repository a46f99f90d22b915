--------------------------- MODULE PublishContract --------------------------
(***************************************************************************)
(* What the durable outbox promises the rest of the daemon, event by       *)
(* event, whatever rounds, restarts, merges and relay policies happen      *)
(* underneath:                                                             *)
(*                                                                         *)
(*   - an event is absent, pending, published or failed; only a pending    *)
(*     event settles, only a failed one is reopened, and only a settled    *)
(*     one is forgotten;                                                   *)
(*   - it is published only on the word of a quorum of some write-relay    *)
(*     set, and its delivery proof is written once, on that word too.      *)
(***************************************************************************)
EXTENDS Integers, FiniteSets

CONSTANTS Event, Relay,
          Required(_)     \* the acceptances a write-relay set of n relays asks for

VARIABLES status,         \* where each event's delivery stands
          okBy,           \* the relays whose OK for it was heard
          proven          \* the events with a delivery proof

vars == <<status, okBy, proven>>

Status == {"absent", "pending", "published", "failed"}

Init ==
  /\ status = [e \in Event |-> "absent"]
  /\ okBy = [e \in Event |-> {}]
  /\ proven = {}

(* Some write-relay set has its quorum among the relays in ok.             *)
QuorumIn(ok) ==
  \E conf \in SUBSET Relay :
    conf # {} /\ Cardinality(conf \cap ok) >= Required(Cardinality(conf))

Submit(e) ==
  /\ status[e] = "absent"
  /\ status' = [status EXCEPT ![e] = "pending"]
  /\ UNCHANGED <<okBy, proven>>

(* A round hears from relays; it may prove and settle what is pending.     *)
Hear(e) ==
  \E ok \in SUBSET Relay :
    /\ okBy' = [okBy EXCEPT ![e] = @ \cup ok]
    /\ proven' \in {proven, proven \cup {e}}
    /\ e \in proven' \ proven => QuorumIn(okBy'[e])
    /\ \/ UNCHANGED status
       \/ /\ status[e] = "pending"
          /\ \/ status' = [status EXCEPT ![e] = "failed"]
             \/ status' = [status EXCEPT ![e] = "published"] /\ QuorumIn(okBy'[e])

Reopen(set) ==
  /\ \A e \in set : status[e] = "failed"
  /\ status' = [e \in Event |-> IF e \in set THEN "pending" ELSE status[e]]
  /\ UNCHANGED <<okBy, proven>>

Expire(set) ==
  /\ \A e \in set : status[e] \in {"published", "failed"}
  /\ status' = [e \in Event |-> IF e \in set THEN "absent" ELSE status[e]]
  /\ UNCHANGED <<okBy, proven>>

Next == \/ \E e \in Event : Submit(e) \/ Hear(e)
        \/ \E set \in SUBSET Event : Reopen(set) \/ Expire(set)

Spec == Init /\ [][Next]_vars

=============================================================================
