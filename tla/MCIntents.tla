----------------------------- MODULE MCIntents -----------------------------
(***************************************************************************)
(* An instance of Intents for TLC: the relay consumer and an MCP write     *)
(* race two requests of one principal that carry the same intent_id, with  *)
(* the same body or with two.                                              *)
(***************************************************************************)
EXTENDS Intents, TLC

CONSTANTS relay, mcp, r1, r2, a1, b1, b2

RelayAndMCP == [c \in Caller |-> IF c = mcp THEN "mcp" ELSE "relay"]
OneActor == [r \in Request |-> a1]

(* A request is told apart by its body and its class, which are variables. *)
RequestSymmetry == Permutations(Request) \cup Permutations(Body)

=============================================================================
