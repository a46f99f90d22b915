----------------------------- MODULE MCInbound -----------------------------
(***************************************************************************)
(* Instances of Inbound for TLC.                                           *)
(***************************************************************************)
EXTENDS Inbound

CONSTANTS k1, k2, e1, e2, e3

(* One tick late, on time, and one tick beyond the accepted future skew.   *)
LateOnTimeFuture == [e \in Event |-> CASE e = e1 -> -1 [] e = e2 -> 0 [] OTHER -> 2]

=============================================================================
