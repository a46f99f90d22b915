------------------------------- MODULE Outbox -------------------------------
(***************************************************************************)
(* The durable publish outbox (localstore.Outbox, bbolt): what one entry   *)
(* and one delivery proof hold, and what each transaction of the outbox    *)
(* makes of them.  Every operator is the effect of one bbolt transaction.  *)
(***************************************************************************)
EXTENDS Integers, FiniteSets

CONSTANT Relay    \* the relays a publisher may be configured to write to

ASSUME RelayAssumption == IsFiniteSet(Relay)

(* One relay's state for one event.  "dialed" is an open relay whose last  *)
(* dial failure the event has already counted (SeenDialFailure); "open"    *)
(* stands for a pending relay and for one the entry does not name.         *)
RelayStatus == {"open", "dialed", "accepted", "rejected"}
Fresh == [r \in Relay |-> "open"]

(* The write relays and the quorum a delivery round counted against.       *)
Policy   == [relays : SUBSET Relay, required : Nat]
NoPolicy == [relays |-> {}, required |-> 0]

Entry == [state : {"absent", "pending", "published", "failed"},
          rounds : Nat, delivered : BOOLEAN,
          relays : [Relay -> RelayStatus], policy : Policy]
NoEntry == [state |-> "absent", rounds |-> 0, delivered |-> FALSE,
            relays |-> Fresh, policy |-> NoPolicy]
NewEntry == [NoEntry EXCEPT !.state = "pending"]

Settled(en) == en.state \in {"published", "failed"}

(* Admission is idempotent by event id, whatever the state of the entry.   *)
Enqueue(en, new) == IF en.state = "absent" THEN new ELSE en

(* Per-relay merge of a stored entry with an incoming round: acceptance    *)
(* wins, then permanent rejection, and a counted dial failure is kept.     *)
MergeStatus(stored, incoming) ==
  IF \/ stored = "accepted"
     \/ stored = "rejected" /\ incoming # "accepted"
     \/ incoming = "open"
  THEN stored
  ELSE incoming

MergeRelayDeliveries_LastWins(stored, incoming) == incoming    \* mutant: no merge

MergeRelayDeliveries_KnownOnly(stored, incoming) ==    \* mutant: relays new to the row are dropped
  [r \in {q \in Relay : stored[q] # "open"} |-> MergeStatus(stored[r], incoming[r])]

MergeRelayDeliveries(stored, incoming) ==
  [r \in Relay |-> MergeStatus(stored[r], incoming[r])]

(* A round as the publisher commits it.                                    *)
Round == [rounds : Nat, relays : [Relay -> RelayStatus], delivered : BOOLEAN,
          policy : Policy, state : {"pending", "published", "failed"}]

(* commitRound: rounds of one entry may overlap, so a commit merges, and a *)
(* settled entry is never reopened.                                        *)
CommitRound(en, rd) ==
  IF en.state # "pending" THEN en
  ELSE [state     |-> rd.state,
        rounds    |-> IF rd.rounds > en.rounds THEN rd.rounds ELSE en.rounds,
        delivered |-> en.delivered \/ rd.delivered,
        relays    |-> MergeRelayDeliveries(en.relays, rd.relays),
        policy    |-> IF rd.delivered /\ rd.policy.relays # {}
                      THEN rd.policy ELSE en.policy]

(* A delivery proof: the policy of the round and the relays that said OK.  *)
NoProof == [relays |-> {}, required |-> 0, ok |-> {}]
Proof   == [relays : SUBSET Relay, required : Nat, ok : SUBSET Relay]

ValidFor(pf) ==
  /\ pf.required >= 1
  /\ pf.ok \subseteq pf.relays
  /\ Cardinality(pf.ok) >= pf.required
  /\ pf.required <= Cardinality(pf.relays)

CanonicalDeliveryProof_NotRejected(rd) ==    \* mutant: an unanswered relay counts as OK
  [relays |-> rd.policy.relays, required |-> rd.policy.required,
   ok |-> {r \in rd.policy.relays : rd.relays[r] # "rejected"}]

CanonicalDeliveryProof(rd) ==
  [relays |-> rd.policy.relays, required |-> rd.policy.required,
   ok |-> {r \in rd.policy.relays : rd.relays[r] = "accepted"}]

(* Whether a round can be committed at all: the entry must still exist,    *)
(* and a proof that is due must be valid, else the transaction is aborted. *)
CanCommit(en, pf, rd, eligible) ==
  /\ en.state # "absent"
  /\ rd.delivered /\ eligible /\ pf = NoProof => ValidFor(CanonicalDeliveryProof(rd))

RecordPublisherProof_OnSettle(pf, rd, eligible) ==    \* mutant: proofs wait for settlement
  IF rd.state = "published" /\ eligible /\ pf = NoProof
  THEN CanonicalDeliveryProof(rd) ELSE pf

(* A proof is written once, by a publisher round that reached the quorum.  *)
RecordPublisherProof(pf, rd, eligible) ==
  IF rd.delivered /\ eligible /\ pf = NoProof THEN CanonicalDeliveryProof(rd) ELSE pf

(* Operator retry of a failed entry: back to pending, with no memory of    *)
(* relays, rounds or delivery; the recorded policy is left alone.          *)
Retry(en) == [en EXCEPT !.state = "pending", !.rounds = 0,
                        !.delivered = FALSE, !.relays = Fresh]

=============================================================================
