----------------------------- MODULE LocalStore -----------------------------
(***************************************************************************)
(* The daemon's local event store, seen from one replaceable or            *)
(* addressable coordinate (internal/adapters/nostr/localstore).            *)
(*                                                                         *)
(* NIP-01 orders the versions of a coordinate totally: higher created_at,  *)
(* then lower id.  Nothing in the code reads more of an event than that    *)
(* order, so an event is a positive number, its position in the order, and *)
(* None is the absence of one.  The store keeps one version per coordinate *)
(* and at most one undelivered marker, each an event or None.              *)
(***************************************************************************)
EXTENDS Naturals

None == 0

(* The version held after ev is saved: a version that is not newer than    *)
(* the one held is refused.                                                *)
SaveEvent(held, ev) == IF ev > held THEN ev ELSE held

(* The marker after ev is saved: a version that was really stored clears   *)
(* the marker of an older one, in a transaction that follows the one that  *)
(* stored it.                                                              *)
ClearSuperseded(held, marker, ev) ==
  IF ev > held /\ ev > marker THEN None ELSE marker

(* The version held after ev is deleted by id.  The version that ev once   *)
(* replaced does not come back.                                            *)
DeleteEvent(held, ev) == IF held = ev THEN None ELSE held

MarkUndelivered_HeldWins(held, marker, ev) ==    \* mutant: the event's own copy counts as newer
  IF held >= ev \/ marker > ev THEN marker ELSE ev

(* The marker after the outbox reports ev abandoned: nothing is recorded   *)
(* when a newer version is held or a newer event is marked.                *)
MarkUndelivered(held, marker, ev) ==
  IF held > ev \/ marker > ev THEN marker ELSE ev

(* The marker after a publish quorum accepted ev: the marker of a newer    *)
(* event stays.                                                            *)
ClearUndelivered(marker, ev) == IF marker > ev THEN marker ELSE None

=============================================================================
