----------------------------- MODULE MCDelivery -----------------------------
(***************************************************************************)
(* Instances of Delivery for TLC.                                          *)
(***************************************************************************)
EXTENDS Delivery, TLC

CONSTANTS r1, r2

AllRelays == -1           \* nostr.publish_quorum = every write relay

OneEvent    == {1}
TwoEvents   == {1, 2}
ThreeEvents == {1, 2, 3}

InlinePath       == [e \in Event |-> "inline"]
BeforeCommitPath == [e \in Event |-> "beforeCommit"]
(* Two versions queued by this daemon, the newest by another instance.     *)
EnqueuePath      == [e \in Event |-> IF e = 3 THEN "foreign" ELSE "enqueue"]

Symmetry == Permutations(Relay)

=============================================================================
