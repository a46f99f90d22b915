---------------------------- MODULE MCAdmission ----------------------------
(***************************************************************************)
(* Instances of Admission for TLC.                                         *)
(***************************************************************************)
EXTENDS Admission, TLC

CONSTANTS p1, p2, r1, r2, r3, e1, e2

OneToken   == [rate |-> 1, burst |-> 1]
TightLanes == [l \in Purpose |-> OneToken]
SumOfTight == [rate |-> 5, burst |-> 5]     \* the aggregate when it is not configured
TightWire  == [c \in Class |-> OneToken]

(* A token is two refill units: the bulk and state lanes and the wire      *)
(* share of other frames take two ticks to refill one.                     *)
SlowLanes == [l \in Purpose |->
                [rate |-> IF l \in {"bulk", "state"} THEN 1 ELSE 2, burst |-> 2]]
SumOfSlow == [rate |-> 8, burst |-> 10]
SlowWire  == [c \in Class |-> [rate |-> IF c = "other" THEN 1 ELSE 2, burst |-> 2]]

StatePurposes == [event \in Event |-> "state"]

Symmetry == Permutations(Publication) \cup Permutations(Relay)
PacedSymmetry == Permutations(Publication) \cup Permutations(Event) \cup Permutations(Operation)

=============================================================================
