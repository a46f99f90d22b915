----------------------------- MODULE ScopedProofs ---------------------------
(***************************************************************************)
(* Proofs of the properties of Delivery that hold in a scope: for events   *)
(* that are not published inline, for events that only the outbox runner   *)
(* delivers, or for the first call of an event.  Each theorem names its    *)
(* scope in its hypotheses; relays, events, quorum, budget and everything  *)
(* else the environment does are arbitrary.                                *)
(***************************************************************************)
EXTENDS DeliveryProofs

-----------------------------------------------------------------------------
(* What the shared steps make of every field of a delivery.                *)

RunnerSteps == {"sending", "committed", "marking"}

LEMMA Begun ==
  ASSUME TypeOK, NEW e \in Event, NEW who \in {"caller", "runner"},
         NEW d \in DeliveryRecord, BeginRound(e, who, d)
  PROVE  /\ \A f \in Event \ {e} : delivery'[f] = delivery[f]
         /\ delivery'[e].holder = who /\ delivery'[e].step = "sending"
         /\ delivery'[e].tracked = d.tracked /\ delivery'[e].conf = writeRelays
         /\ delivery'[e].rounds = d.rounds
         /\ delivery'[e].relays = SyncRelays(d.relays, writeRelays)
         /\ delivery'[e].settled = d.settled /\ delivery'[e].delivered = d.delivered
         /\ delivery'[e].reported = d.reported /\ delivery'[e].announce = d.announce
<1> DEFINE relays == SyncRelays(d.relays, writeRelays)
           d1 == [d EXCEPT !.holder = who, !.step = "sending", !.conf = writeRelays,
                           !.relays = relays, !.scheduled = FALSE]
<1>1. delivery' = [delivery EXCEPT ![e] = d1]
  BY DEF BeginRound
<1>2. /\ d1.holder = who /\ d1.step = "sending" /\ d1.tracked = d.tracked
      /\ d1.conf = writeRelays /\ d1.rounds = d.rounds /\ d1.relays = relays
      /\ d1.settled = d.settled /\ d1.delivered = d.delivered
      /\ d1.reported = d.reported /\ d1.announce = d.announce
  <2> HIDE DEF relays
  <2> QED BY DEF DeliveryRecord
<1> HIDE DEF d1
<1>3. delivery'[e] = d1 /\ \A f \in Event \ {e} : delivery'[f] = delivery[f]
  BY <1>1 DEF TypeOK
<1> QED
  BY <1>2, <1>3

LEMMA Released ==
  ASSUME TypeOK, NEW e \in Event, Release(e)
  PROVE  /\ \A f \in Event \ {e} : delivery'[f] = delivery[f]
         /\ \/ delivery'[e] = NoDelivery
            \/ /\ ~delivery[e].settled /\ ~delivery'[e].settled
               /\ delivery'[e].holder = "none" /\ delivery'[e].step = "idle"
               /\ delivery'[e].tracked = delivery[e].tracked
               /\ delivery'[e].rounds = delivery[e].rounds
               /\ delivery'[e].relays = delivery[e].relays
               /\ delivery'[e].reported = delivery[e].reported
               /\ ~delivery'[e].announce
<1> DEFINE d  == delivery[e]
           d1 == [d EXCEPT !.holder = "none", !.step = "idle", !.conf = {},
                           !.announce = FALSE, !.scheduled = TRUE]
<1>1. \/ delivery' = [delivery EXCEPT ![e] = NoDelivery]
      \/ ~d.settled /\ delivery' = [delivery EXCEPT ![e] = d1]
  BY DEF Release
<1>2. /\ d1.holder = "none" /\ d1.step = "idle" /\ d1.tracked = d.tracked
      /\ d1.rounds = d.rounds /\ d1.relays = d.relays /\ d1.settled = d.settled
      /\ d1.reported = d.reported /\ ~d1.announce
  <2>1. d \in DeliveryRecord
    BY DEF TypeOK
  <2> HIDE DEF d
  <2> QED BY <2>1 DEF DeliveryRecord
<1> HIDE DEF d1
<1>3. CASE delivery' = [delivery EXCEPT ![e] = NoDelivery]
  BY <1>3 DEF TypeOK
<1>4. CASE ~d.settled /\ delivery' = [delivery EXCEPT ![e] = d1]
  <2>1. delivery'[e] = d1 /\ \A f \in Event \ {e} : delivery'[f] = delivery[f]
    BY <1>4 DEF TypeOK
  <2> QED BY <1>2, <1>4, <2>1
<1> QED
  BY <1>1, <1>3, <1>4

LEMMA Stepped ==
  ASSUME TypeOK, NEW e \in Event, NEW st,
         delivery' = [delivery EXCEPT ![e].step = st]
  PROVE  /\ \A f \in Event \ {e} : delivery'[f] = delivery[f]
         /\ delivery'[e].step = st /\ delivery'[e].holder = delivery[e].holder
         /\ delivery'[e].tracked = delivery[e].tracked
         /\ delivery'[e].conf = delivery[e].conf
         /\ delivery'[e].rounds = delivery[e].rounds
         /\ delivery'[e].relays = delivery[e].relays
         /\ delivery'[e].settled = delivery[e].settled
         /\ delivery'[e].delivered = delivery[e].delivered
         /\ delivery'[e].reported = delivery[e].reported
         /\ delivery'[e].announce = delivery[e].announce
<1> DEFINE d  == delivery[e]
           d1 == [d EXCEPT !.step = st]
<1>1. delivery' = [delivery EXCEPT ![e] = d1] /\ d \in DeliveryRecord
  BY DEF TypeOK
<1>2. /\ d1.step = st /\ d1.holder = d.holder /\ d1.tracked = d.tracked
      /\ d1.conf = d.conf /\ d1.rounds = d.rounds /\ d1.relays = d.relays
      /\ d1.settled = d.settled /\ d1.delivered = d.delivered
      /\ d1.reported = d.reported /\ d1.announce = d.announce
  <2> HIDE DEF d
  <2> QED BY <1>1 DEF DeliveryRecord
<1> HIDE DEF d1
<1>3. delivery'[e] = d1 /\ \A f \in Event \ {e} : delivery'[f] = delivery[f]
  BY <1>1 DEF TypeOK
<1> QED
  BY <1>2, <1>3

(* The verdict of a round, as EndRoundWith computes it.                    *)
RelaysAfter(e, o)  == ApplyRound(delivery[e].relays, o)
RoundsAfter(e, o)  == IF Countable(o) THEN CountRound(delivery[e].rounds) ELSE delivery[e].rounds
ReachedBy(e, o)    == QuorumReached(RelaysAfter(e, o), delivery[e].conf)
SettledBy(e, o)    == RoundSettles(RelaysAfter(e, o), delivery[e].conf, RoundsAfter(e, o))
Committed(e, o)    == RoundOf(delivery[e].conf, RoundsAfter(e, o), RelaysAfter(e, o),
                              ReachedBy(e, o), SettledBy(e, o))

(* The three ends of a round: committed, skipped, or its commit failed.    *)
Commits(e, o) ==
  /\ Countable(o) \/ SettledBy(e, o)
  /\ CanCommit(entry[e], proof[e], Committed(e, o), e \in Eligible)
  /\ entry' = [entry EXCEPT ![e] = CommitRound(@, Committed(e, o))]
  /\ proof' = [proof EXCEPT ![e] = RecordPublisherProof(@, Committed(e, o), e \in Eligible)]

Skips(e, o) == ~Countable(o) /\ ~SettledBy(e, o) /\ UNCHANGED <<entry, proof>>

LosesCommit(e, o) ==
  /\ CanCommit(entry[e], proof[e], Committed(e, o), e \in Eligible) => left.faults > 0
  /\ UNCHANGED <<entry, proof>>

LEMMA Ended ==
  ASSUME TypeOK, NEW e \in Event, NEW o \in RoundOutcomes(e), EndRoundWith(e, o)
  PROVE  /\ \A f \in Event \ {e} : delivery'[f] = delivery[f]
         /\ delivery[e].step = "sending" /\ delivery'[e].step = "committed"
         /\ delivery'[e].holder = delivery[e].holder
         /\ delivery'[e].tracked = delivery[e].tracked
         /\ delivery'[e].conf = delivery[e].conf
         /\ delivery'[e].rounds = RoundsAfter(e, o)
         /\ delivery'[e].relays = RelaysAfter(e, o)
         /\ delivery'[e].delivered = ReachedBy(e, o)
         /\ \/ /\ Commits(e, o) \/ Skips(e, o)
               /\ delivery'[e].settled = SettledBy(e, o)
               /\ delivery'[e].reported = (delivery[e].reported \/ ReachedBy(e, o))
               /\ delivery'[e].announce = (ReachedBy(e, o) /\ ~delivery[e].reported)
            \/ /\ LosesCommit(e, o)
               /\ ~delivery'[e].settled /\ ~delivery'[e].announce
               /\ delivery'[e].reported = delivery[e].reported
         /\ runner' = runner \/ (delivery[e].holder = "runner" /\ runner' = PassStopped)
         /\ acked' = [acked EXCEPT ![e] = @ \cup OKs(o)]
         /\ tried' = IF Tried(o) THEN [tried EXCEPT ![e] = CountRound(@)] ELSE tried
         /\ UNCHANGED <<store, marker, call, writeRelays, told, notified>>
         /\ left'.publishes = left.publishes /\ left'.changes = left.changes
         /\ left'.retries = left.retries
<1> DEFINE d         == delivery[e]
           relays    == RelaysAfter(e, o)
           rounds    == RoundsAfter(e, o)
           delivered == ReachedBy(e, o)
           settled   == SettledBy(e, o)
           after(ok) == [d EXCEPT !.step = "committed", !.rounds = rounds, !.relays = relays,
                                  !.settled = settled /\ ok, !.delivered = delivered,
                                  !.reported = d.reported \/ (ok /\ delivered),
                                  !.announce = ok /\ delivered /\ ~d.reported]
<1>1. d \in DeliveryRecord /\ left \in Left
  BY DEF TypeOK
<1>2. delivered \in BOOLEAN /\ settled \in BOOLEAN
  <2>1. d.conf \in SUBSET Relay /\ d.relays \in [Relay -> RelayStatus] /\ d.rounds \in Nat
    BY <1>1 DEF DeliveryRecord
  <2>2. relays \in [Relay -> RelayStatus] /\ rounds \in Nat
    BY <2>1, ApplyRoundType, CountRoundType DEF RelaysAfter, RoundsAfter
  <2> QED BY <2>1, <2>2, VerdictType DEF ReachedBy, SettledBy
<1>3. \/ (Commits(e, o) \/ Skips(e, o)) /\ delivery' = [delivery EXCEPT ![e] = after(TRUE)]
      \/ LosesCommit(e, o) /\ delivery' = [delivery EXCEPT ![e] = after(FALSE)]
  BY DEF EndRoundWith, Fault, Commits, Skips, LosesCommit, RelaysAfter, RoundsAfter,
         ReachedBy, SettledBy, Committed
<1>4. ASSUME NEW ok \in BOOLEAN, delivery' = [delivery EXCEPT ![e] = after(ok)]
      PROVE  /\ \A f \in Event \ {e} : delivery'[f] = delivery[f]
             /\ delivery'[e].step = "committed" /\ delivery'[e].holder = d.holder
             /\ delivery'[e].tracked = d.tracked /\ delivery'[e].conf = d.conf
             /\ delivery'[e].rounds = rounds /\ delivery'[e].relays = relays
             /\ delivery'[e].delivered = delivered
             /\ delivery'[e].settled = (settled /\ ok)
             /\ delivery'[e].reported = (d.reported \/ (ok /\ delivered))
             /\ delivery'[e].announce = (ok /\ delivered /\ ~d.reported)
  <2>1. delivery'[e] = after(ok) /\ \A f \in Event \ {e} : delivery'[f] = delivery[f]
    <3> HIDE DEF after
    <3> QED BY <1>4 DEF TypeOK
  <2> HIDE DEF d, relays, rounds, delivered, settled
  <2> QED BY <1>1, <2>1 DEF DeliveryRecord
<1>5. /\ d.step = "sending"
      /\ runner' = runner \/ (d.holder = "runner" /\ runner' = PassStopped)
      /\ acked' = [acked EXCEPT ![e] = @ \cup OKs(o)]
      /\ tried' = IF Tried(o) THEN [tried EXCEPT ![e] = CountRound(@)] ELSE tried
      /\ UNCHANGED <<store, marker, call, writeRelays, told, notified>>
  BY DEF EndRoundWith
<1>6. /\ left'.publishes = left.publishes /\ left'.changes = left.changes
      /\ left'.retries = left.retries
  <2>1. left' = left \/ left' = [left EXCEPT !.faults = @ - 1]
    BY DEF EndRoundWith, Fault
  <2> QED BY <1>1, <2>1 DEF Left
<1> HIDE DEF relays, rounds, delivered, settled, after
<1>7. CASE (Commits(e, o) \/ Skips(e, o)) /\ delivery' = [delivery EXCEPT ![e] = after(TRUE)]
  <2>1. /\ delivery'[e].settled = (settled /\ TRUE)
        /\ delivery'[e].reported = (d.reported \/ (TRUE /\ delivered))
        /\ delivery'[e].announce = (TRUE /\ delivered /\ ~d.reported)
    BY <1>4, <1>7
  <2>2. /\ (settled /\ TRUE) = settled
        /\ (d.reported \/ (TRUE /\ delivered)) = (d.reported \/ delivered)
        /\ (TRUE /\ delivered /\ ~d.reported) = (delivered /\ ~d.reported)
    BY <1>2
  <2>3. /\ delivery'[e].settled = SettledBy(e, o)
        /\ delivery'[e].reported = (delivery[e].reported \/ ReachedBy(e, o))
        /\ delivery'[e].announce = (ReachedBy(e, o) /\ ~delivery[e].reported)
    BY <2>1, <2>2, Zenon DEF delivered, settled
  <2>4. /\ \A f \in Event \ {e} : delivery'[f] = delivery[f]
        /\ delivery'[e].step = "committed" /\ delivery'[e].holder = d.holder
        /\ delivery'[e].tracked = d.tracked /\ delivery'[e].conf = d.conf
        /\ delivery'[e].rounds = rounds /\ delivery'[e].relays = relays
        /\ delivery'[e].delivered = delivered
    BY <1>4, <1>7
  <2> QED BY <1>5, <1>6, <1>7, <2>3, <2>4, Zenon DEF relays, rounds, delivered, settled
<1>8. CASE LosesCommit(e, o) /\ delivery' = [delivery EXCEPT ![e] = after(FALSE)]
  <2>1. /\ ~delivery'[e].settled /\ ~delivery'[e].announce
        /\ delivery'[e].reported = d.reported
    <3>1. /\ delivery'[e].settled = (settled /\ FALSE)
          /\ delivery'[e].reported = (d.reported \/ (FALSE /\ delivered))
          /\ delivery'[e].announce = (FALSE /\ delivered /\ ~d.reported)
      BY <1>4, <1>8
    <3>2. (d.reported \/ (FALSE /\ delivered)) = d.reported
      <4>1. d.reported \in BOOLEAN
        BY <1>1 DEF DeliveryRecord
      <4> QED BY <4>1
    <3> QED BY <3>1, <3>2
  <2> QED BY <1>4, <1>5, <1>6, <1>8, <2>1 DEF relays, rounds, delivered, settled
<1> QED
  BY <1>3, <1>7, <1>8

-----------------------------------------------------------------------------
(* The order of rounds when no event is published inline: the runner has   *)
(* one round at a time, on a delivery it tracks; a delivery is settled     *)
(* only while its round ends; the page holds no event the runner is busy   *)
(* with or has given up on; and a delivery of an entry that was given up   *)
(* on does not announce a quorum.                                          *)

NotInline == \A e \in Event : Path[e] # "inline"

Doomed(d) == d.step \in {"committed", "marking"} /\ Abandoned(d)

OrderOf(e, d, en, rn, ok) ==
  /\ d.step \in RunnerSteps <=> d.holder = "runner"
  /\ d.step # "idle" => d.tracked
  /\ d.holder = "runner" => rn.at \in {"idle", "paging"}
  /\ d.settled => d.step \in {"committed", "marking"}
  /\ d.announce => d.step = "committed" /\ d.delivered /\ ok # {}
  /\ (rn.at = "paging" /\ e \in rn.todo) => (d.holder # "runner" /\ en.state # "failed")
  /\ en.state = "failed" => \/ ~d.tracked
                            \/ d.reported /\ ~d.announce
                            \/ d.step \in OwnSteps
                            \/ Doomed(d)

Order == \A e \in Event : OrderOf(e, delivery[e], entry[e], runner, acked[e])

LEMMA NoDeliveryFields ==
  /\ NoDelivery.holder = "none" /\ NoDelivery.step = "idle" /\ ~NoDelivery.tracked
  /\ ~NoDelivery.settled /\ ~NoDelivery.announce /\ ~NoDelivery.reported
  /\ NoDelivery.rounds = 0 /\ NoDelivery.relays = Fresh /\ ~NoDelivery.delivered
BY DEF NoDelivery

LEMMA NewDeliveryFields ==
  /\ NewDelivery.holder = "none" /\ NewDelivery.step = "idle" /\ NewDelivery.tracked
  /\ ~NewDelivery.settled /\ ~NewDelivery.announce /\ ~NewDelivery.reported
  /\ NewDelivery.rounds = 0 /\ NewDelivery.relays = Fresh /\ ~NewDelivery.delivered
BY DEF NewDelivery, NoDelivery

LEMMA AckedGrows ==
  ASSUME TypeOK, DurableStep, NEW e \in Event
  PROVE  acked[e] \subseteq acked'[e]
BY DEF TypeOK, DurableStep, Submits, Hears, Reopens, Expires

(* What a publishing call that is not inline does to its event's delivery. *)
Opens(e) ==
  /\ ~delivery[e].tracked /\ delivery'[e].tracked
  /\ delivery'[e].step = "admitting" /\ delivery'[e].holder = "caller"
  /\ ~delivery'[e].settled /\ ~delivery'[e].announce

MovesOn(e) ==
  /\ delivery[e].step \in OwnSteps /\ delivery'[e].step \in OwnSteps
  /\ delivery'[e].holder = delivery[e].holder /\ delivery'[e].tracked = delivery[e].tracked
  /\ delivery'[e].settled = delivery[e].settled
  /\ delivery'[e].announce = delivery[e].announce

Records(e) ==
  /\ delivery[e].step = "recording"
  /\ delivery'[e].step = "idle" /\ delivery'[e].holder = "none" /\ delivery'[e].reported
  /\ delivery'[e].settled = delivery[e].settled
  /\ delivery'[e].announce = delivery[e].announce

LEMMA CallMoves ==
  ASSUME TypeOK, Shape, NEW e \in Event, Path[e] # "inline", CallStep(e)
  PROVE  /\ \/ delivery'[e] = delivery[e] \/ delivery'[e] = NoDelivery
            \/ Opens(e) \/ MovesOn(e) \/ Records(e)
         /\ \A f \in Event \ {e} : delivery'[f] = delivery[f] /\ entry'[f] = entry[f]
         /\ entry'[e].state = "failed" => entry[e].state = "failed"
         /\ runner' = runner
<1>0. /\ ShapeOf(Path[e], call[e], delivery[e])
      /\ delivery[e] \in DeliveryRecord /\ entry \in [Event -> Entry]
  BY DEF Shape, TypeOK
<1>1. \A f \in Event \ {e} : delivery'[f] = delivery[f]
  BY CallStepShape DEF Orderly
<1>2. runner' = runner
  BY DEF CallStep, CallProgress, PublishInline, EnqueueCall, PublishBeforeCommit,
         StartCall, Admit, AdmitFails, KeepOwnEvent, CallerRound, CallerWaits, FirstRound,
         AdmitDelivered, KeepDelivered, RecordDelivered, RecordFails, durable
<1>3. CASE \/ EnqueueCall(e) \/ PublishBeforeCommit(e) \/ KeepOwnEvent(e)
  <2>1. UNCHANGED <<delivery, entry>>
    BY <1>3 DEF EnqueueCall, PublishBeforeCommit, KeepOwnEvent, StartCall, durable
  <2> QED BY <1>2, <2>1
<1>4. CASE Admit(e)
  <2>1. delivery' = delivery /\ entry' = [entry EXCEPT ![e] = Enqueue(@, NewEntry)]
    BY <1>4 DEF Admit
  <2>2. /\ entry'[e] = Enqueue(entry[e], NewEntry)
        /\ \A f \in Event \ {e} : entry'[f] = entry[f]
    BY <1>0, <2>1
  <2>3. NewEntry.state = "pending"
    BY DEF NewEntry, NoEntry
  <2> QED BY <1>2, <2>1, <2>2, <2>3 DEF Enqueue
<1>5. CASE AdmitFails(e) \/ RecordFails(e)
  <2>1. /\ entry' = entry
        /\ delivery' = [delivery EXCEPT ![e] = NoDelivery] \/ delivery' = delivery
    BY <1>5 DEF AdmitFails, RecordFails, durable
  <2>2. delivery'[e] = NoDelivery \/ delivery'[e] = delivery[e]
    BY <2>1 DEF TypeOK
  <2> QED BY <1>1, <1>2, <2>1, <2>2
<1>6. CASE CallerRound(e) \/ CallerWaits(e)
  BY <1>0, <1>6 DEF CallerRound, CallerWaits, ShapeOf
<1>7. CASE FirstRound(e)
  <2>1. entry' = entry
    BY <1>7 DEF FirstRound, durable
  <2>2. PICK o \in Outcomes(Fresh, call[e].conf) :
          \/ delivery' = delivery
          \/ /\ ~delivery[e].tracked
             /\ delivery' = [delivery EXCEPT ![e] =
                  [NewDelivery EXCEPT !.holder = "caller", !.step = "admitting",
                     !.conf = call[e].conf, !.rounds = 1, !.relays = ApplyRound(Fresh, o),
                     !.delivered = TRUE]]
    BY <1>7 DEF FirstRound
  <2> DEFINE relays == ApplyRound(Fresh, o)
             d1     == [NewDelivery EXCEPT !.holder = "caller", !.step = "admitting",
                          !.conf = call[e].conf, !.rounds = 1, !.relays = relays,
                          !.delivered = TRUE]
  <2>3. CASE ~delivery[e].tracked /\ delivery' = [delivery EXCEPT ![e] = d1]
    <3>1. /\ d1.tracked /\ d1.step = "admitting" /\ d1.holder = "caller"
          /\ ~d1.settled /\ ~d1.announce
      <4>1. NewDelivery \in DeliveryRecord
        BY DeliveryTypes
      <4> HIDE DEF relays
      <4> QED BY <4>1, NewDeliveryFields DEF DeliveryRecord
    <3> HIDE DEF d1
    <3>2. delivery'[e] = d1
      BY <2>3 DEF TypeOK
    <3> QED BY <1>1, <1>2, <2>1, <2>3, <3>1, <3>2 DEF Opens
  <2> QED BY <1>1, <1>2, <2>1, <2>2, <2>3
<1>8. CASE AdmitDelivered(e) \/ KeepDelivered(e)
  <2>1. PICK st \in {"keeping", "recording"} : delivery' = [delivery EXCEPT ![e].step = st]
    BY <1>8 DEF AdmitDelivered, KeepDelivered
  <2>2. delivery[e].step \in OwnSteps
    BY <1>8 DEF AdmitDelivered, KeepDelivered, OwnSteps
  <2>3. MovesOn(e)
    BY <2>1, <2>2, Stepped DEF MovesOn, OwnSteps
  <2>4. \/ entry' = entry
        \/ \E new \in Entry : /\ new.state = "pending"
                              /\ entry' = [entry EXCEPT ![e] = Enqueue(@, new)]
    <3>1. CASE KeepDelivered(e)
      BY <3>1 DEF KeepDelivered
    <3>2. CASE AdmitDelivered(e)
      <4> DEFINE rd  == RoundOf(delivery[e].conf, delivery[e].rounds, delivery[e].relays, TRUE, FALSE)
                 new == [state |-> "pending", rounds |-> rd.rounds, delivered |-> TRUE,
                         relays |-> rd.relays, policy |-> rd.policy]
      <4>1. entry' = [entry EXCEPT ![e] = Enqueue(@, new)]
        BY <3>2 DEF AdmitDelivered
      <4>2. rd \in Round
        BY <1>0, RoundOfType DEF DeliveryRecord
      <4>3. new \in Entry /\ new.state = "pending"
        <5> HIDE DEF rd
        <5> QED BY <4>2 DEF Round, Entry
      <4> QED BY <4>1, <4>3
    <3> QED BY <1>8, <3>1, <3>2
  <2>5. /\ \A f \in Event \ {e} : entry'[f] = entry[f]
        /\ entry'[e].state = "failed" => entry[e].state = "failed"
    BY <1>0, <2>4 DEF Enqueue
  <2> QED BY <1>1, <1>2, <2>3, <2>5
<1>9. CASE RecordDelivered(e)
  <2> DEFINE d       == delivery[e]
             settled == RetryableRelays(d.relays, d.conf) = {}
             rd      == RoundOf(d.conf, d.rounds, d.relays, TRUE, settled)
             d1      == [d EXCEPT !.holder = "none", !.step = "idle", !.conf = {},
                                  !.reported = TRUE, !.scheduled = TRUE]
  <2>1. /\ d.step = "recording"
        /\ entry' = [entry EXCEPT ![e] = CommitRound(@, rd)]
        /\ \/ delivery' = [delivery EXCEPT ![e] = NoDelivery]
           \/ delivery' = [delivery EXCEPT ![e] = d1]
    BY <1>9 DEF RecordDelivered
  <2>2. /\ d1.step = "idle" /\ d1.holder = "none" /\ d1.reported
        /\ d1.settled = d.settled /\ d1.announce = d.announce
    <3> HIDE DEF d
    <3> QED BY <1>0 DEF DeliveryRecord, d
  <2>3. delivery'[e] = NoDelivery \/ Records(e)
    <3> HIDE DEF d1
    <3> QED BY <2>1, <2>2 DEF TypeOK, Records
  <2>4. rd.state # "failed"
    BY DEF RoundOf
  <2>5. /\ entry'[e] = CommitRound(entry[e], rd)
        /\ \A f \in Event \ {e} : entry'[f] = entry[f]
    BY <1>0, <2>1
  <2>6. entry'[e].state = "failed" => entry[e].state = "failed"
    <3> HIDE DEF rd
    <3> QED BY <2>4, <2>5 DEF CommitRound
  <2> QED BY <1>1, <1>2, <2>3, <2>5, <2>6
<1> QED
  BY <1>3, <1>4, <1>5, <1>6, <1>7, <1>8, <1>9 DEF CallStep, CallProgress, PublishInline

LEMMA QuorumHeard ==
  ASSUME NEW relays \in [Relay -> RelayStatus], NEW conf \in SUBSET Relay,
         QuorumReached(relays, conf)
  PROVE  \E r \in conf : relays[r] = "accepted"
<1> SUFFICES ASSUME AcceptedRelays(relays, conf) = {} PROVE FALSE
  BY DEF AcceptedRelays
<1>1. Cardinality(AcceptedRelays(relays, conf)) = 0
  BY FS_EmptySet
<1>2. Cardinality(conf) \in Nat /\ Cardinality(conf) > 0
  <2>1. IsFiniteSet(conf) /\ Cardinality(conf) \in Nat
    BY RelaySubsetFinite
  <2>2. Cardinality(conf) # 0
    BY <2>1, FS_EmptySet DEF QuorumReached
  <2> QED BY <2>1, <2>2
<1> QED
  BY <1>1, <1>2, RequiredType DEF QuorumReached

(* A commit gives an entry up only when it settles it below the quorum.    *)
LEMMA CommitFails ==
  ASSUME NEW en \in Entry, NEW conf, NEW rounds, NEW relays,
         NEW delivered \in BOOLEAN, NEW settled \in BOOLEAN,
         CommitRound(en, RoundOf(conf, rounds, relays, delivered, settled)).state = "failed"
  PROVE  en.state = "failed" \/ (en.state = "pending" /\ settled /\ ~delivered)
<1> DEFINE rd == RoundOf(conf, rounds, relays, delivered, settled)
<1>1. rd.state = "failed" => settled /\ ~delivered
  BY DEF RoundOf
<1> HIDE DEF rd
<1>2. CommitRound(en, rd).state = "failed" => en.state = "failed" \/ (en.state = "pending" /\ rd.state = "failed")
  BY DEF CommitRound
<1> QED
  BY <1>1, <1>2 DEF rd

LEMMA VerdictBoolean ==
  ASSUME TypeOK, NEW e \in Event, NEW o
  PROVE  /\ ReachedBy(e, o) \in BOOLEAN /\ SettledBy(e, o) \in BOOLEAN
         /\ RelaysAfter(e, o) \in [Relay -> RelayStatus] /\ RoundsAfter(e, o) \in Nat
<1>1. /\ delivery[e].conf \in SUBSET Relay /\ delivery[e].relays \in [Relay -> RelayStatus]
      /\ delivery[e].rounds \in Nat
  BY DEF TypeOK, DeliveryRecord
<1>2. RelaysAfter(e, o) \in [Relay -> RelayStatus] /\ RoundsAfter(e, o) \in Nat
  BY <1>1, ApplyRoundType, CountRoundType DEF RelaysAfter, RoundsAfter
<1> QED
  BY <1>1, <1>2, VerdictType DEF ReachedBy, SettledBy

LEMMA PassStoppedIdle ==
  ASSUME TypeOK
  PROVE  /\ PassStopped.at = "idle" /\ PassStopped.todo = {}
         /\ PassStopped.current = runner.current /\ PassStopped.page = NoPage
BY DEF PassStopped, TypeOK, RunnerRecord

(* A step on event e leaves the order of the others alone.                 *)
LEMMA OrderLocal ==
  ASSUME TypeOK, Order, DurableStep, NEW e \in Event,
         \A f \in Event \ {e} : delivery'[f] = delivery[f] /\ entry'[f] = entry[f],
         runner' = runner \/ runner' = PassStopped,
         OrderOf(e, delivery'[e], entry'[e], runner', acked'[e])
  PROVE  Order'
<1> SUFFICES ASSUME NEW f \in Event, f # e
             PROVE  OrderOf(f, delivery'[f], entry'[f], runner', acked'[f])
  BY DEF Order
<1>1. OrderOf(f, delivery[f], entry[f], runner, acked[f]) /\ acked[f] \subseteq acked'[f]
  BY AckedGrows DEF Order
<1>2. delivery'[f] = delivery[f] /\ entry'[f] = entry[f]
  OBVIOUS
<1>3. \/ runner' = runner
      \/ runner'.at = "idle"
  BY PassStoppedIdle
<1> QED
  BY <1>1, <1>2, <1>3 DEF OrderOf

LEMMA EndRoundOrder ==
  ASSUME TypeOK, Order, Evidence', DurableStep, NEW e \in Event,
         NEW o \in RoundOutcomes(e), EndRoundWith(e, o)
  PROVE  Order'
<1>0. /\ OrderOf(e, delivery[e], entry[e], runner, acked[e])
      /\ entry \in [Event -> Entry] /\ delivery[e] \in DeliveryRecord
  BY DEF Order, TypeOK
<1>1. /\ \A f \in Event \ {e} : delivery'[f] = delivery[f] /\ entry'[f] = entry[f]
      /\ runner' = runner \/ runner' = PassStopped
  <2>1. \A f \in Event \ {e} : delivery'[f] = delivery[f]
    BY Ended
  <2>2. \A f \in Event \ {e} : entry'[f] = entry[f]
    BY <1>0, Ended DEF Commits, Skips, LosesCommit
  <2>3. runner' = runner \/ runner' = PassStopped
    BY Ended
  <2> QED BY <2>1, <2>2, <2>3
<1>2. /\ delivery[e].step = "sending" /\ delivery[e].holder = "runner" /\ delivery[e].tracked
  BY <1>0, Ended DEF OrderOf, RunnerSteps
<1>3. /\ delivery'[e].step = "committed" /\ delivery'[e].holder = "runner"
      /\ delivery'[e].tracked
  BY <1>2, Ended
<1>4. runner'.at \in {"idle", "paging"} /\ ~(runner'.at = "paging" /\ e \in runner'.todo)
  BY <1>0, <1>1, <1>2, PassStoppedIdle DEF OrderOf
<1>5. delivery'[e].announce => delivery'[e].delivered /\ acked'[e] # {}
  <2> SUFFICES ASSUME delivery'[e].announce PROVE delivery'[e].delivered /\ acked'[e] # {}
    OBVIOUS
  <2>1. ReachedBy(e, o) /\ delivery'[e].delivered = ReachedBy(e, o)
    BY Ended
  <2>2. delivery'[e].relays = RelaysAfter(e, o) /\ delivery[e].conf \in SUBSET Relay
    BY <1>0, Ended DEF DeliveryRecord
  <2>3. \E r \in Relay : delivery'[e].relays[r] = "accepted"
    BY <2>1, <2>2, VerdictBoolean, QuorumHeard DEF ReachedBy
  <2> QED BY <2>1, <2>3 DEF Evidence, EvidenceFor, DeliverySound, AllIn
<1>6. entry'[e].state = "failed" => (delivery'[e].reported /\ ~delivery'[e].announce) \/ Doomed(delivery'[e])
  <2>1. CASE entry[e].state = "failed"
    <3>1. delivery[e].reported
      BY <1>0, <1>2, <2>1 DEF OrderOf, OwnSteps, Doomed
    <3>2. delivery'[e].reported /\ ~delivery'[e].announce
      BY <3>1, Ended
    <3> QED BY <3>2
  <2>2. CASE entry[e].state # "failed" /\ entry'[e].state = "failed"
    <3>1. Commits(e, o)
      BY <2>2, Ended DEF Skips, LosesCommit
    <3>2. entry'[e] = CommitRound(entry[e], Committed(e, o))
      BY <1>0, <3>1 DEF Commits
    <3>3. SettledBy(e, o) /\ ~ReachedBy(e, o)
      BY <1>0, <2>2, <3>2, VerdictBoolean, CommitFails DEF Committed
    <3>4. entry' # entry
      BY <2>2
    <3>5. delivery'[e].settled = SettledBy(e, o) /\ delivery'[e].delivered = ReachedBy(e, o)
      BY <3>4, Ended DEF LosesCommit
    <3> QED BY <1>3, <3>3, <3>5 DEF Doomed, Abandoned
  <2> QED BY <2>1, <2>2
<1>7. OrderOf(e, delivery'[e], entry'[e], runner', acked'[e])
  BY <1>3, <1>4, <1>5, <1>6 DEF OrderOf, RunnerSteps
<1> QED
  BY <1>1, <1>7, OrderLocal

LEMMA RoundStepOrder ==
  ASSUME TypeOK, Order, Evidence', DurableStep, NEW e \in Event, RoundStep(e)
  PROVE  Order'
<1>0. OrderOf(e, delivery[e], entry[e], runner, acked[e])
  BY DEF Order
<1>1. CASE EndRound(e)
  BY <1>1, EndRoundOrder DEF EndRound
<1>2. ASSUME Release(e), delivery[e].step \in {"committed", "marking"},
             UNCHANGED <<entry, runner, acked>>,
             delivery[e].step = "committed" => ~Abandoned(delivery[e]),
             delivery[e].step = "marking" => delivery[e].settled \/ entry[e].state # "failed" \/ delivery[e].reported
      PROVE  Order'
  <2>1. OrderOf(e, delivery'[e], entry'[e], runner', acked'[e])
    <3>1. CASE delivery'[e] = NoDelivery
      BY <1>0, <1>2, <3>1, NoDeliveryFields DEF OrderOf, RunnerSteps
    <3>2. CASE delivery'[e] # NoDelivery
      <4>1. /\ ~delivery[e].settled /\ ~delivery'[e].settled
            /\ delivery'[e].holder = "none" /\ delivery'[e].step = "idle"
            /\ delivery'[e].tracked = delivery[e].tracked
            /\ delivery'[e].reported = delivery[e].reported
            /\ ~delivery'[e].announce
        BY <1>2, <3>2, Released
      <4> QED BY <1>0, <1>2, <4>1 DEF OrderOf, RunnerSteps, OwnSteps, Doomed, Abandoned
    <3> QED BY <3>1, <3>2
  <2> QED BY <1>2, <2>1, Released, OrderLocal
<1>3. CASE Conclude(e)
  BY <1>2, <1>3 DEF Conclude
<1>4. CASE ForgetOwnEvent(e)
  BY <1>0, <1>4 DEF ForgetOwnEvent, OrderOf, RunnerSteps
<1>5. CASE MarkOwnEventUndelivered(e)
  <2>1. /\ Release(e) /\ delivery[e].step = "marking" /\ UNCHANGED <<entry, runner, acked>>
    BY <1>5 DEF MarkOwnEventUndelivered
  <2>2. delivery[e].settled \/ entry[e].state # "failed" \/ delivery[e].reported
    BY <1>0, <2>1 DEF OrderOf, OwnSteps, Doomed, Abandoned
  <2> QED BY <1>2, <2>1, <2>2
<1>6. CASE KeepAbandoned(e)
  <2>1. /\ delivery[e].step = "committed" /\ Abandoned(delivery[e])
        /\ delivery' = [delivery EXCEPT ![e].step = "marking"]
        /\ UNCHANGED <<entry, runner, acked>>
    BY <1>6 DEF KeepAbandoned, history
  <2>2. OrderOf(e, delivery'[e], entry'[e], runner', acked'[e])
    BY <1>0, <2>1, Stepped DEF OrderOf, RunnerSteps, Doomed, Abandoned
  <2> QED BY <2>1, <2>2, Stepped, OrderLocal
<1> QED
  BY <1>1, <1>3, <1>4, <1>5, <1>6 DEF RoundStep

LEMMA CallStepOrder ==
  ASSUME TypeOK, Shape, Order, DurableStep, NEW e \in Event, Path[e] # "inline", CallStep(e)
  PROVE  Order'
<1>0. /\ OrderOf(e, delivery[e], entry[e], runner, acked[e])
      /\ acked[e] \subseteq acked'[e]
  BY AckedGrows DEF Order
<1>1. /\ \A f \in Event \ {e} : delivery'[f] = delivery[f] /\ entry'[f] = entry[f]
      /\ entry'[e].state = "failed" => entry[e].state = "failed"
      /\ runner' = runner
  BY CallMoves
<1>2. OrderOf(e, delivery'[e], entry'[e], runner', acked'[e])
  <2>1. CASE delivery'[e] = delivery[e]
    BY <1>0, <1>1, <2>1 DEF OrderOf
  <2>2. CASE delivery'[e] = NoDelivery
    BY <1>0, <1>1, <2>2, NoDeliveryFields DEF OrderOf, RunnerSteps
  <2>3. CASE Opens(e)
    BY <1>0, <1>1, <2>3 DEF OrderOf, Opens, OwnSteps, RunnerSteps
  <2>4. CASE MovesOn(e)
    BY <1>0, <1>1, <2>4 DEF OrderOf, MovesOn, OwnSteps, RunnerSteps
  <2>5. CASE Records(e)
    BY <1>0, <1>1, <2>5 DEF OrderOf, Records, OwnSteps, RunnerSteps
  <2> QED BY <2>1, <2>2, <2>3, <2>4, <2>5, CallMoves
<1> QED
  BY <1>1, <1>2, OrderLocal

LEMMA TurnedPage ==
  ASSUME TypeOK, NEW e \in Event, runner.at = "paging"
  PROVE  /\ Turned(e).at \in {"idle", "paging"} /\ Turned(e).todo = runner.todo \ {e}
         /\ Turned(e).current = runner.current
         /\ \A f \in Event \ {e} : Turned(e).page[f] = runner.page[f]
         /\ Turned(e).page[e] = NoEntry
BY DEF Turned, TypeOK, RunnerRecord

(* The delivery a round of the runner starts from.                         *)
Found(e) == [NewDelivery EXCEPT !.rounds = runner.page[e].rounds,
                                !.relays = runner.page[e].relays]

LEMMA FoundFields ==
  ASSUME TypeOK, NEW e \in Event
  PROVE  /\ Found(e) \in DeliveryRecord
         /\ Found(e).tracked /\ ~Found(e).settled /\ ~Found(e).announce
         /\ ~Found(e).reported /\ ~Found(e).delivered
         /\ Found(e).rounds = runner.page[e].rounds
         /\ Found(e).relays = runner.page[e].relays
<1>1. runner.page[e].rounds \in Nat /\ runner.page[e].relays \in [Relay -> RelayStatus]
  BY DEF TypeOK, RunnerRecord, Entry
<1>2. Found(e) \in DeliveryRecord
  BY <1>1, DeliveryTypes DEF Found, DeliveryRecord
<1> QED
  BY <1>2, DeliveryTypes, NewDeliveryFields DEF Found, DeliveryRecord

LEMMA RunnerStepOrder ==
  ASSUME TypeOK, Order, DurableStep, RunnerStep
  PROVE  Order'
<1> USE DEF Order
<1>0. \A f \in Event : acked[f] \subseteq acked'[f]
  BY AckedGrows
<1>1. CASE RunnerStart \/ RestoreMark \/ RestoreDone \/ \E e \in Event : RestoreSave(e)
  <2>1. /\ runner.at \notin {"idle", "paging"} /\ runner'.at # "paging"
        /\ UNCHANGED <<delivery, entry, acked>>
    BY <1>1 DEF RunnerStart, RestoreMark, RestoreDone, RestoreSave, durable, history,
                TypeOK, RunnerRecord
  <2> QED BY <2>1 DEF OrderOf
<1>2. CASE ListPending
  <2>1. /\ ~RunnerBusy /\ runner'.at = "paging"
        /\ runner'.todo = {e \in Event : entry[e].state = "pending"}
        /\ UNCHANGED <<delivery, entry, acked>>
    BY <1>2 DEF ListPending, durable, history, TypeOK, RunnerRecord
  <2> QED BY <2>1 DEF OrderOf, RunnerBusy
<1>3. CASE Prune
  <2>1. UNCHANGED <<delivery, runner, acked>>
    BY <1>3 DEF Prune, history
  <2>2. \A f \in Event : entry'[f] = entry[f] \/ entry'[f] = NoEntry
    BY <1>3 DEF Prune
  <2>3. NoEntry.state = "absent"
    BY DEF NoEntry
  <2> QED BY <2>1, <2>2, <2>3 DEF OrderOf
<1>4. ASSUME NEW e \in Event, Redeliver(e)
      PROVE  Order'
  <2>1. /\ runner.at = "idle" /\ delivery[e].tracked /\ delivery[e].step = "idle"
        /\ BeginRound(e, "runner", delivery[e]) /\ UNCHANGED <<entry, runner, acked>>
    BY <1>4 DEF Redeliver, durable, history
  <2>2. delivery[e] \in DeliveryRecord /\ OrderOf(e, delivery[e], entry[e], runner, acked[e])
    BY DEF TypeOK
  <2>3. OrderOf(e, delivery'[e], entry'[e], runner', acked'[e])
    BY <2>1, <2>2, Begun DEF OrderOf, RunnerSteps, OwnSteps, Doomed
  <2> QED BY <2>1, <2>2, <2>3, Begun, OrderLocal
<1>5. ASSUME NEW e \in Event, Discover(e)
      PROVE  Order'
  <2>1. /\ runner.at = "paging" /\ e \in runner.todo /\ runner' = Turned(e)
        /\ BeginRound(e, "runner", Found(e)) /\ UNCHANGED <<entry, acked>>
    BY <1>5 DEF Discover, durable, history, Found
  <2>2. OrderOf(e, delivery[e], entry[e], runner, acked[e])
    OBVIOUS
  <2>3. OrderOf(e, delivery'[e], entry'[e], runner', acked'[e])
    BY <2>1, <2>2, FoundFields, TurnedPage, Begun DEF OrderOf, RunnerSteps
  <2>4. ASSUME NEW f \in Event, f # e PROVE OrderOf(f, delivery'[f], entry'[f], runner', acked'[f])
    <3>1. delivery'[f] = delivery[f]
      BY <2>1, <2>4, FoundFields, Begun
    <3> QED BY <2>1, <3>1, TurnedPage DEF OrderOf
  <2> QED BY <2>3, <2>4
<1>6. ASSUME NEW e \in Event, SkipTracked(e)
      PROVE  Order'
  <2>1. /\ runner.at = "paging" /\ runner' = Turned(e) /\ UNCHANGED <<delivery, entry, acked>>
    BY <1>6 DEF SkipTracked, durable, history
  <2> QED BY <2>1, TurnedPage DEF OrderOf
<1> QED
  BY <1>1, <1>2, <1>3, <1>4, <1>5, <1>6 DEF RunnerStep

LEMMA EnvironmentOrder ==
  ASSUME TypeOK, Order, Environment
  PROVE  Order'
<1> USE DEF Order
<1>1. CASE Crash
  <2>1. /\ delivery' = [e \in Event |-> NoDelivery] /\ runner' = Stopped
        /\ UNCHANGED <<entry, acked>>
    BY <1>1 DEF Crash, durable, history
  <2>2. Stopped.at = "stopped"
    BY DEF Stopped
  <2> QED BY <2>1, <2>2, NoDeliveryFields DEF OrderOf, RunnerSteps
<1>2. CASE ChangeRelays \/ \E e \in Event : InboundEvent(e)
  BY <1>2 DEF ChangeRelays, InboundEvent, durable, history
<1>3. CASE RetryAllFailed \/ \E e \in Event : OperatorRetry(e)
  <2>1. UNCHANGED <<delivery, runner, acked>>
    BY <1>3 DEF RetryAllFailed, OperatorRetry
  <2>2. \A f \in Event : entry'[f] = entry[f] \/ entry'[f] = Retry(entry[f])
    BY <1>3 DEF RetryAllFailed, OperatorRetry, TypeOK
  <2>3. \A f \in Event : Retry(entry[f]).state = "pending"
    BY DEF TypeOK, Entry, Retry
  <2> QED BY <2>1, <2>2, <2>3 DEF OrderOf
<1> QED
  BY <1>1, <1>2, <1>3 DEF Environment

(* Unless an event is published inline, rounds end in order: one round of  *)
(* the runner at a time, no round from a page for an event that was given  *)
(* up on since the page was read, and no announcement of such an event.    *)
THEOREM OrderCorrect ==
  ASSUME NotInline
  PROVE  Spec => []Order
<1>1. Init => Order
  BY NoDeliveryFields DEF Init, Order, OrderOf, RunnerSteps, NoEntry, Stopped
<1>2. TypeOK /\ Shape /\ Evidence' /\ Order /\ [Next]_vars => Order'
  <2> SUFFICES ASSUME TypeOK, Shape, Evidence', Order, [Next]_vars PROVE Order'
    OBVIOUS
  <2>0. DurableStep
    BY NextDurable
  <2>1. CASE UNCHANGED vars
    BY <2>1 DEF vars, durable, history, Order
  <2>2. ASSUME NEW e \in Event, RoundStep(e) PROVE Order'
    BY <2>0, <2>2, RoundStepOrder
  <2>3. ASSUME NEW e \in Event, CallStep(e) PROVE Order'
    BY <2>0, <2>3, CallStepOrder DEF NotInline
  <2> QED
    BY <2>0, <2>1, <2>2, <2>3, RunnerStepOrder, EnvironmentOrder DEF Next
<1> QED
  BY <1>1, <1>2, TypeCorrect, ShapeCorrect, EvidenceCorrect, PTL DEF Spec

-----------------------------------------------------------------------------
(* An event that was given up on is kept and marked, or somebody is on the *)
(* way to do so: the startup restoration, or the round that gave it up.    *)

ToRestore(e, rn) ==
  rn.at = "stopped" \/ (rn.at \in {"restoring", "remarking"} /\ e \in rn.todo)

MarkComes(e) ==
  \/ marker = e
  \/ runner.at = "remarking" /\ runner.current = e
  \/ delivery[e].step = "marking"

KeptOf(e) ==
  entry[e].state = "failed" =>
    \/ ToRestore(e, runner)
    \/ delivery[e].step = "committed" /\ Abandoned(delivery[e])
    \/ e <= store /\ (NewestAdmitted(e) => MarkComes(e))

Kept == \A e \in Event : KeptOf(e)

LEMMA VersionTypes ==
  ASSUME TypeOK
  PROVE  /\ store \in Nat /\ marker \in Nat /\ Event \subseteq Nat
         /\ \A e \in Event : e \in Nat /\ e > 0
         /\ runner.current \in Nat
<1>1. Event \subseteq Nat /\ None \in Nat
  BY DeliveryAssumption DEF None
<1>2. \A e \in Event : e \in Nat /\ e > 0
  BY DeliveryAssumption
<1>3. store \in Nat /\ marker \in Nat
  BY <1>1 DEF TypeOK
<1>4. runner.current \in Event \cup {None}
  BY DEF TypeOK, RunnerRecord
<1> QED
  BY <1>1, <1>2, <1>3, <1>4

(* Only the round of an inline caller takes a version back.                *)
LEMMA SavedGrows ==
  ASSUME TypeOK, NEW e \in Event, SaveOwn(e)
  PROVE  store' \in Nat /\ store' >= store /\ store' >= e
BY VersionTypes DEF SaveOwn, SaveEvent

LEMMA StoreGrows ==
  ASSUME TypeOK, Order, [Next]_vars
  PROVE  store' \in Nat /\ store' >= store
<1>0. store \in Nat
  BY VersionTypes
<1>1. ASSUME NEW e \in Event, RoundStep(e)
      PROVE  store' = store \/ SaveOwn(e)
  <2>1. ~ForgetOwnEvent(e)
    BY DEF Order, OrderOf, RunnerSteps, ForgetOwnEvent
  <2> QED BY <1>1, <2>1 DEF RoundStep, EndRound, EndRoundWith, Conclude, KeepAbandoned,
                            MarkOwnEventUndelivered
<1>2. ASSUME NEW e \in Event, CallStep(e)
      PROVE  store' = store \/ SaveOwn(e)
  BY <1>2 DEF CallStep, CallProgress, PublishInline, EnqueueCall, PublishBeforeCommit,
              StartCall, Admit, AdmitFails, KeepOwnEvent, CallerRound, CallerWaits, FirstRound,
              AdmitDelivered, KeepDelivered, RecordDelivered, RecordFails, durable
<1>3. CASE RunnerStep
  <2>1. store' = store \/ \E e \in Event : SaveOwn(e)
    BY <1>3 DEF RunnerStep, RunnerStart, RestoreMark, RestoreDone, ListPending, Prune,
                RestoreSave, Redeliver, Discover, SkipTracked, durable
  <2> QED BY <1>0, <2>1, SavedGrows
<1>4. CASE Environment
  <2>1. CASE Crash
    BY <1>0, <2>1, VersionTypes DEF Crash, SaveEvent
  <2>2. ASSUME ~Crash PROVE store' = store \/ \E e \in Event : SaveOwn(e)
    BY <1>4, <2>2 DEF Environment, RetryAllFailed, ChangeRelays, OperatorRetry,
                      InboundEvent, durable
  <2> QED BY <1>0, <2>1, <2>2, SavedGrows
<1>5. CASE UNCHANGED vars
  BY <1>0, <1>5 DEF vars, durable
<1> QED
  BY <1>0, <1>1, <1>2, <1>3, <1>4, <1>5, SavedGrows DEF Next

(* A call that returns has answered its caller, unless the process dies.   *)
LEMMA ReturnAnswers ==
  ASSUME TypeOK, Shape, NotInline, [Next]_vars, ~Crash, NEW f \in Event,
         call'[f] = NoCall, told'[f] = "none"
  PROVE  call[f] = NoCall /\ told[f] = "none"
<1>1. ASSUME NEW e \in Event, RoundStep(e)
      PROVE  call'[f] = call[f] /\ told'[f] = told[f]
  <2>0. ShapeOf(Path[e], call[e], delivery[e]) /\ Path[e] # "inline"
    BY DEF Shape, NotInline
  <2>1. CASE EndRound(e) \/ KeepAbandoned(e)
    BY <2>1 DEF EndRound, EndRoundWith, KeepAbandoned, history
  <2>2. CASE Conclude(e) \/ ForgetOwnEvent(e) \/ MarkOwnEventUndelivered(e)
    <3>1. Release(e) /\ delivery[e].step \in {"committed", "marking"}
      BY <2>2 DEF Conclude, ForgetOwnEvent, MarkOwnEventUndelivered
    <3>2. delivery[e].holder # "caller" /\ call[e].at # "waiting"
      BY <2>0, <3>1 DEF ShapeOf, OwnSteps
    <3> QED BY <3>1, <3>2, ReleaseShape
  <2> QED BY <1>1, <2>1, <2>2 DEF RoundStep
<1>2. ASSUME NEW e \in Event, CallStep(e)
      PROVE  call[f] = NoCall /\ told[f] = "none"
  <2>1. CASE f # e
    <3>1. call'[f] = call[f] /\ told'[f] = told[f]
      BY <1>2, <2>1, CallStepShape DEF Orderly
    <3> QED BY <3>1
  <2>2. CASE f = e
    <3>0. /\ ShapeOf(Path[e], call[e], delivery[e]) /\ Path[e] # "inline"
          /\ call \in [Event -> CallRecord] /\ told \in [Event -> {"none", "ok", "queued", "abandoned", "error"}]
      BY DEF Shape, NotInline, TypeOK
    <3>1. CASE EnqueueCall(e) \/ PublishBeforeCommit(e)
      <4>1. call'[e].at \in {"admit", "first"}
        BY <3>1, StartCallShape DEF EnqueueCall, PublishBeforeCommit
      <4> QED BY <2>2, <4>1 DEF NoCall
    <3>2. CASE Admit(e)
      <4>1. call'[e].at = "keep"
        BY <3>0, <3>2 DEF Admit, CallRecord
      <4> QED BY <2>2, <4>1 DEF NoCall
    <3>3. CASE AdmitFails(e) \/ RecordFails(e) \/ RecordDelivered(e)
      <4>1. told'[e] \in {"error", "ok"}
        BY <3>0, <3>3 DEF AdmitFails, RecordFails, RecordDelivered
      <4> QED BY <2>2, <4>1
    <3>4. CASE KeepOwnEvent(e)
      <4>1. Path[e] = "enqueue"
        BY <3>0, <3>4 DEF KeepOwnEvent, ShapeOf
      <4>2. told'[e] = "queued"
        BY <3>0, <3>4, <4>1 DEF KeepOwnEvent
      <4> QED BY <2>2, <4>2
    <3>5. CASE CallerRound(e) \/ CallerWaits(e)
      BY <3>0, <3>5 DEF CallerRound, CallerWaits, ShapeOf
    <3>6. CASE FirstRound(e)
      <4>1. \/ \E t \in {"ok", "error"} : told' = [told EXCEPT ![e] = t]
            \/ call' = [call EXCEPT ![e] = [at |-> "round", conf |-> {}]]
        BY <3>6 DEF FirstRound
      <4>2. told'[e] \in {"ok", "error"} \/ call'[e].at = "round"
        BY <3>0, <4>1
      <4> QED BY <2>2, <4>2 DEF NoCall
    <3>7. CASE AdmitDelivered(e) \/ KeepDelivered(e)
      <4>1. UNCHANGED <<call, told>>
        BY <3>7 DEF AdmitDelivered, KeepDelivered, history
      <4> QED BY <4>1
    <3> QED BY <1>2, <3>0, <3>1, <3>2, <3>3, <3>4, <3>5, <3>6, <3>7
            DEF CallStep, CallProgress, PublishInline
  <2> QED BY <2>1, <2>2
<1>3. CASE RunnerStep
  BY <1>3, RunnerStepShape
<1>4. CASE Environment
  BY <1>4 DEF Environment, RetryAllFailed, ChangeRelays, OperatorRetry, InboundEvent, history
<1>5. CASE UNCHANGED vars
  BY <1>5 DEF vars, history
<1> QED
  BY <1>1, <1>2, <1>3, <1>4, <1>5 DEF Next

(* Only pruning drops the entry of an event that was given up on.          *)
LEMMA OnlyPruneDrops ==
  ASSUME TypeOK, [Next]_vars, ~Prune, NEW f \in Event, entry[f].state = "failed"
  PROVE  entry'[f].state \in {"failed", "pending"}
<1>0. entry \in [Event -> Entry]
  BY DEF TypeOK
<1>1. ASSUME NEW e \in Event, NEW rd, entry' = [entry EXCEPT ![e] = CommitRound(@, rd)]
      PROVE  entry'[f].state = "failed"
  BY <1>0, <1>1 DEF CommitRound
<1>2. ASSUME NEW e \in Event, NEW new, entry' = [entry EXCEPT ![e] = Enqueue(@, new)]
      PROVE  entry'[f].state = "failed"
  BY <1>0, <1>2 DEF Enqueue
<1>3. ASSUME NEW e \in Event, RoundStep(e)
      PROVE  entry'[f].state = "failed"
  <2>1. entry' = entry \/ \E rd : entry' = [entry EXCEPT ![e] = CommitRound(@, rd)]
    BY <1>3 DEF RoundStep, EndRound, EndRoundWith, Conclude, ForgetOwnEvent, KeepAbandoned,
                MarkOwnEventUndelivered
  <2> QED BY <1>1, <2>1
<1>4. ASSUME NEW e \in Event, CallStep(e)
      PROVE  entry'[f].state = "failed"
  <2>1. \/ entry' = entry
        \/ \E rd : entry' = [entry EXCEPT ![e] = CommitRound(@, rd)]
        \/ \E new : entry' = [entry EXCEPT ![e] = Enqueue(@, new)]
    <3>1. CASE Admit(e) \/ AdmitDelivered(e)
      BY <3>1 DEF Admit, AdmitDelivered
    <3>2. CASE RecordDelivered(e)
      BY <3>2 DEF RecordDelivered
    <3>3. CASE ~(Admit(e) \/ AdmitDelivered(e) \/ RecordDelivered(e))
      BY <1>4, <3>3 DEF CallStep, CallProgress, PublishInline, EnqueueCall,
         PublishBeforeCommit, StartCall, AdmitFails, KeepOwnEvent, CallerRound, CallerWaits,
         FirstRound, KeepDelivered, RecordFails, durable
    <3> QED BY <3>1, <3>2, <3>3
  <2> QED BY <1>1, <1>2, <2>1
<1>5. CASE RunnerStep
  BY <1>5 DEF RunnerStep, RunnerStart, RestoreMark, RestoreDone, ListPending, RestoreSave,
              Redeliver, Discover, SkipTracked, durable
<1>6. CASE Environment
  <2>1. entry'[f] = entry[f] \/ entry'[f] = Retry(entry[f])
    BY <1>0, <1>6 DEF Environment, RetryAllFailed, ChangeRelays, Crash, OperatorRetry,
                InboundEvent, durable
  <2>2. Retry(entry[f]).state = "pending"
    BY <1>0 DEF Entry, Retry
  <2> QED BY <2>1, <2>2
<1>7. CASE UNCHANGED vars
  BY <1>7 DEF vars, durable
<1> QED
  BY <1>3, <1>4, <1>5, <1>6, <1>7 DEF Next

(* A version that looks untouched was untouched before, or was kept.       *)
LEMMA UntouchedBefore ==
  ASSUME TypeOK, Shape, AbsentIsEmpty, Evidence, Order, Kept, NotInline,
         [Next]_vars, ~Crash, NEW f \in Event, Untouched(f)'
  PROVE  Untouched(f) \/ f <= store'
<1>0. /\ call'[f] = NoCall /\ entry'[f].state = "absent" /\ told'[f] = "none" /\ acked'[f] = {}
  BY DEF Untouched
<1>1. call[f] = NoCall /\ told[f] = "none"
  BY <1>0, ReturnAnswers
<1>2. DurableStep
  BY NextDurable
<1>3. acked[f] = {}
  BY <1>0, <1>2, AckedGrows
<1>4. entry[f] \in Entry /\ Retry(entry[f]).state = "pending"
  BY DEF TypeOK, Entry, Retry
<1>5. CASE entry[f].state = "absent"
  BY <1>1, <1>3, <1>5 DEF Untouched
<1>6. CASE entry[f].state = "pending"
  <2>1. Progress(f)
    BY <1>2, DurableKeeps
  <2> QED BY <1>0, <1>4, <1>6, <2>1 DEF Progress, Settled
<1>7. CASE entry[f].state = "published"
  <2> DEFINE pol == entry[f].policy
  <2>1. /\ pol.relays # {} /\ pol.required = RequiredAcceptances(Cardinality(pol.relays))
        /\ Cardinality(pol.relays \cap acked[f]) >= pol.required
        /\ pol.relays \in SUBSET Relay
    BY <1>4, <1>7 DEF Evidence, EvidenceFor, EntrySound, Entry, Policy
  <2>2. Cardinality(pol.relays \cap acked[f]) = 0
    BY <1>3, FS_EmptySet
  <2>3. Cardinality(pol.relays) \in Nat /\ Cardinality(pol.relays) > 0
    BY <2>1, RelaySubsetFinite, FS_EmptySet
  <2> HIDE DEF pol
  <2> QED BY <2>1, <2>2, <2>3, RequiredType
<1>8. CASE entry[f].state = "failed"
  <2>1. Prune
    BY <1>0, <1>8, OnlyPruneDrops
  <2>2. runner.at = "idle" /\ ~RunnerBusy /\ store' = store
    BY <2>1 DEF Prune
  <2>3. delivery[f].step \notin RunnerSteps
    BY <2>2 DEF Order, OrderOf, RunnerBusy
  <2> QED BY <1>8, <2>2, <2>3 DEF Kept, KeptOf, ToRestore, RunnerSteps
<1> QED
  BY <1>4, <1>5, <1>6, <1>7, <1>8 DEF Entry

LEMMA NewestBefore ==
  ASSUME TypeOK, Shape, AbsentIsEmpty, Evidence, Order, Kept, NotInline,
         [Next]_vars, ~Crash, NEW e \in Event, NewestAdmitted(e)'
  PROVE  NewestAdmitted(e)
<1>1. store' <= e /\ store' \in Nat /\ store' >= store
  BY StoreGrows DEF NewestAdmitted
<1>2. store <= e
  BY <1>1, VersionTypes
<1>3. ASSUME NEW f \in Event, f > e PROVE Untouched(f)
  <2>1. Untouched(f)'
    BY <1>3 DEF NewestAdmitted
  <2>2. ~(f <= store')
    BY <1>1, <1>3, VersionTypes
  <2> QED BY <2>1, <2>2, UntouchedBefore
<1> QED
  BY <1>2, <1>3 DEF NewestAdmitted

(* A marker of the newest version outlives the saves and marks of others.  *)
LEMMA MarkerStays ==
  ASSUME TypeOK, Backed, NEW e \in Event, marker = e, NEW f \in Event \cup {None},
         store' <= e,
         \/ f \in Event /\ SaveOwn(f)
         \/ store' = store /\ f <= store /\ marker' = MarkUndelivered(store, marker, f)
  PROVE  marker' = e
<1>0. store' >= store /\ store' \in Nat /\ store \in Nat
  BY VersionTypes, SavedGrows
<1>1. /\ store = e /\ e \in Nat /\ e > 0 /\ f \in Nat
  BY <1>0, VersionTypes DEF Backed, None
<1> QED
  BY <1>1 DEF SaveOwn, SaveEvent, ClearSuperseded, MarkUndelivered

(* Marking the newest version, once it is held.                            *)
LEMMA NewestMarked ==
  ASSUME TypeOK, Backed, NEW e \in Event, e <= store, store' = store, store' <= e,
         marker' = MarkUndelivered(store, marker, e)
  PROVE  marker' = e
<1>1. /\ store \in Nat /\ marker \in Nat /\ e \in Nat /\ e > 0
  BY VersionTypes
<1>2. store = e /\ marker <= e
  BY <1>1 DEF Backed, None
<1> QED
  BY <1>1, <1>2 DEF MarkUndelivered

(* A step that leaves the delivery of e, and takes nothing from e.         *)
LEMMA KeptFrame ==
  ASSUME TypeOK, NEW e \in Event, KeptOf(e),
         entry'[e].state = "failed" => entry[e].state = "failed",
         delivery'[e] = delivery[e], store' \in Nat, store' >= store,
         ToRestore(e, runner) => ToRestore(e, runner'),
         NewestAdmitted(e)' => NewestAdmitted(e),
         NewestAdmitted(e) /\ NewestAdmitted(e)' /\ MarkComes(e) => MarkComes(e)'
  PROVE  KeptOf(e)'
<1>1. e <= store => e <= store'
  BY VersionTypes
<1> QED
  BY <1>1 DEF KeptOf

LEMMA EndRoundKept ==
  ASSUME TypeOK, Order, NEW f \in Event, NEW o \in RoundOutcomes(f), EndRoundWith(f, o),
         NEW e \in Event, KeptOf(e), NewestAdmitted(e)' => NewestAdmitted(e)
  PROVE  KeptOf(e)'
<1>0. /\ OrderOf(f, delivery[f], entry[f], runner, acked[f])
      /\ entry \in [Event -> Entry] /\ delivery[f] \in DeliveryRecord
  BY DEF Order, TypeOK
<1>1. /\ delivery[f].step = "sending" /\ delivery[f].holder = "runner"
      /\ runner.at \in {"idle", "paging"} /\ UNCHANGED <<store, marker>>
  BY <1>0, Ended DEF OrderOf, RunnerSteps
<1>2. ~ToRestore(e, runner) /\ runner.at # "remarking"
  BY <1>1 DEF ToRestore
<1>3. CASE f # e
  <2>1. delivery'[e] = delivery[e]
    BY <1>3, Ended
  <2>2. entry'[e] = entry[e]
    BY <1>0, <1>3, Ended DEF Commits, Skips, LosesCommit
  <2>3. MarkComes(e) => MarkComes(e)'
    BY <1>1, <1>2, <2>1 DEF MarkComes
  <2> QED BY <1>1, <1>2, <2>1, <2>2, <2>3, VersionTypes, KeptFrame
<1>4. CASE f = e /\ entry[e].state = "failed"
  <2>1. e <= store /\ (NewestAdmitted(e) => marker = e)
    BY <1>1, <1>2, <1>4 DEF KeptOf, MarkComes
  <2> QED BY <1>1, <2>1 DEF KeptOf, MarkComes
<1>5. CASE f = e /\ entry[e].state # "failed" /\ entry'[e].state = "failed"
  <2>1. Commits(e, o)
    BY <1>5, Ended DEF Skips, LosesCommit
  <2>2. entry'[e] = CommitRound(entry[e], Committed(e, o)) /\ entry' # entry
    BY <1>0, <1>5, <2>1 DEF Commits
  <2>3. SettledBy(e, o) /\ ~ReachedBy(e, o)
    BY <1>0, <1>5, <2>2, VerdictBoolean, CommitFails DEF Committed
  <2>4. /\ delivery'[e].settled = SettledBy(e, o) /\ delivery'[e].delivered = ReachedBy(e, o)
        /\ delivery'[e].step = "committed"
    BY <1>5, <2>2, Ended DEF LosesCommit
  <2> QED BY <2>3, <2>4 DEF KeptOf, Abandoned
<1>6. CASE entry'[e].state # "failed"
  BY <1>6 DEF KeptOf
<1> QED
  BY <1>3, <1>4, <1>5, <1>6

LEMMA RoundStepKept ==
  ASSUME TypeOK, Order, Backed, NEW f \in Event, RoundStep(f),
         NEW e \in Event, KeptOf(e), NewestAdmitted(e)' => NewestAdmitted(e),
         store' \in Nat, store' >= store
  PROVE  KeptOf(e)'
<1>0. /\ OrderOf(f, delivery[f], entry[f], runner, acked[f])
      /\ NewestAdmitted(e)' => store' <= e
  BY DEF Order, NewestAdmitted
<1>1. CASE EndRound(f)
  BY <1>1, EndRoundKept DEF EndRound
<1>2. CASE ForgetOwnEvent(f)
  BY <1>0, <1>2 DEF ForgetOwnEvent, OrderOf, RunnerSteps
<1>3. CASE Conclude(f)
  <2>1. /\ delivery[f].step = "committed" /\ ~Abandoned(delivery[f]) /\ Release(f)
        /\ marker' = IF delivery[f].announce THEN ClearUndelivered(marker, f) ELSE marker
        /\ UNCHANGED <<entry, store, runner>>
    BY <1>3 DEF Conclude
  <2>2. delivery[f].tracked /\ runner.at \in {"idle", "paging"}
    BY <1>0, <2>1 DEF OrderOf, RunnerSteps
  <2>3. CASE f # e
    <3>1. delivery'[e] = delivery[e]
      BY <2>1, <2>3, Released
    <3>2. ASSUME NewestAdmitted(e), marker = e PROVE marker' = e
      <4>1. CASE f > e
        <5>1. ~Untouched(f) => FALSE
          BY <3>2, <4>1 DEF NewestAdmitted
        <5>2. delivery[f].announce => FALSE
          BY <1>0, <5>1 DEF OrderOf, Untouched
        <5> QED BY <2>1, <3>2, <5>2
      <4>2. CASE e > f
        BY <2>1, <3>2, <4>2 DEF ClearUndelivered
      <4> QED BY <2>3, <4>1, <4>2, VersionTypes
    <3>3. NewestAdmitted(e) /\ MarkComes(e) => MarkComes(e)'
      BY <2>1, <3>1, <3>2 DEF MarkComes
    <3> QED BY <2>1, <3>1, <3>3, VersionTypes, KeptFrame
  <2>4. CASE f = e
    <3> SUFFICES ASSUME entry[e].state = "failed" PROVE KeptOf(e)'
      BY <2>1 DEF KeptOf
    <3>1. ~delivery[e].announce
      BY <1>0, <2>1, <2>2, <2>4 DEF OrderOf, OwnSteps, Doomed
    <3>2. e <= store /\ (NewestAdmitted(e) => marker = e)
      BY <2>1, <2>2, <2>4 DEF KeptOf, MarkComes, ToRestore
    <3> QED BY <2>1, <2>4, <3>1, <3>2 DEF KeptOf, MarkComes
  <2> QED BY <2>3, <2>4
<1>4. CASE KeepAbandoned(f)
  <2>1. /\ SaveOwn(f) /\ delivery' = [delivery EXCEPT ![f].step = "marking"]
        /\ UNCHANGED <<entry, runner>>
    BY <1>4 DEF KeepAbandoned
  <2>2. CASE f # e
    <3>1. delivery'[e] = delivery[e]
      BY <2>1, <2>2, Stepped
    <3>2. NewestAdmitted(e)' /\ MarkComes(e) => MarkComes(e)'
      BY <1>0, <2>1, <3>1, MarkerStays DEF MarkComes
    <3> QED BY <2>1, <3>1, <3>2, KeptFrame
  <2>3. CASE f = e
    <3>1. delivery'[e].step = "marking" /\ e <= store'
      BY <2>1, <2>3, Stepped, SavedGrows, VersionTypes
    <3> QED BY <3>1 DEF KeptOf, MarkComes
  <2> QED BY <2>2, <2>3
<1>5. CASE MarkOwnEventUndelivered(f)
  <2>1. /\ delivery[f].step = "marking" /\ Release(f) /\ UNCHANGED <<entry, store, runner>>
        /\ marker' = MarkUndelivered(store, marker, f)
    BY <1>5 DEF MarkOwnEventUndelivered
  <2>2. f <= store /\ runner.at \in {"idle", "paging"}
    BY <1>0, <2>1 DEF Backed, OrderOf, RunnerSteps
  <2>3. CASE f # e
    <3>1. delivery'[e] = delivery[e]
      BY <2>1, <2>3, Released
    <3>2. NewestAdmitted(e)' /\ MarkComes(e) => MarkComes(e)'
      BY <1>0, <2>1, <2>2, <3>1, MarkerStays DEF MarkComes
    <3> QED BY <2>1, <3>1, <3>2, KeptFrame
  <2>4. CASE f = e
    <3>1. NewestAdmitted(e)' => marker' = e
      BY <1>0, <2>1, <2>2, <2>4, NewestMarked
    <3> QED BY <2>1, <2>2, <2>4, <3>1 DEF KeptOf, MarkComes
  <2> QED BY <2>3, <2>4
<1> QED
  BY <1>1, <1>2, <1>3, <1>4, <1>5 DEF RoundStep

(* A call leaves a round of the runner alone.                              *)
LEMMA CallLeavesRounds ==
  ASSUME TypeOK, Shape, Order, NEW e \in Event, Path[e] # "inline", CallStep(e),
         delivery[e].step \in RunnerSteps
  PROVE  delivery'[e] = delivery[e]
<1>0. /\ ShapeOf(Path[e], call[e], delivery[e])
      /\ OrderOf(e, delivery[e], entry[e], runner, acked[e])
  BY DEF Shape, Order
<1>1. delivery[e].tracked /\ delivery[e].step \notin OwnSteps /\ delivery[e].step # "idle"
  BY <1>0 DEF OrderOf, RunnerSteps, OwnSteps
<1>2. CASE EnqueueCall(e) \/ PublishBeforeCommit(e) \/ Admit(e) \/ KeepOwnEvent(e)
  BY <1>2 DEF EnqueueCall, PublishBeforeCommit, Admit, KeepOwnEvent
<1>3. CASE AdmitFails(e)
  BY <1>1, <1>3 DEF AdmitFails
<1>4. CASE CallerRound(e) \/ CallerWaits(e)
  BY <1>0, <1>4 DEF CallerRound, CallerWaits, ShapeOf
<1>5. CASE FirstRound(e)
  BY <1>1, <1>5 DEF FirstRound
<1>6. CASE AdmitDelivered(e) \/ KeepDelivered(e) \/ RecordDelivered(e) \/ RecordFails(e)
  BY <1>1, <1>6 DEF AdmitDelivered, KeepDelivered, RecordDelivered, RecordFails, OwnSteps
<1> QED
  BY <1>2, <1>3, <1>4, <1>5, <1>6 DEF CallStep, CallProgress, PublishInline

LEMMA CallStepKept ==
  ASSUME TypeOK, Shape, Order, Backed, NEW f \in Event, Path[f] # "inline", CallStep(f),
         NEW e \in Event, KeptOf(e), NewestAdmitted(e)' => NewestAdmitted(e),
         store' \in Nat, store' >= store
  PROVE  KeptOf(e)'
<1>0. NewestAdmitted(e)' => store' <= e
  BY DEF NewestAdmitted
<1>1. /\ entry'[e].state = "failed" => entry[e].state = "failed"
      /\ runner' = runner
  BY CallMoves
<1>2. \/ UNCHANGED <<store, marker>>
      \/ SaveOwn(f)
  BY DEF CallStep, CallProgress, PublishInline, EnqueueCall, PublishBeforeCommit,
         StartCall, Admit, AdmitFails, KeepOwnEvent, CallerRound, CallerWaits, FirstRound,
         AdmitDelivered, KeepDelivered, RecordDelivered, RecordFails, durable
<1>3. NewestAdmitted(e)' /\ marker = e => marker' = e
  BY <1>0, <1>2, MarkerStays
<1>4. CASE delivery'[e] = delivery[e]
  <2>1. NewestAdmitted(e)' /\ MarkComes(e) => MarkComes(e)'
    BY <1>1, <1>3, <1>4 DEF MarkComes
  <2> QED BY <1>1, <1>4, <2>1, KeptFrame
<1>5. CASE delivery'[e] # delivery[e]
  <2>1. f = e
    BY <1>5, CallMoves
  <2>2. delivery[e].step \notin RunnerSteps
    BY <1>5, <2>1, CallLeavesRounds
  <2>3. e <= store => e <= store'
    BY VersionTypes
  <2> QED BY <1>1, <1>3, <2>2, <2>3 DEF KeptOf, MarkComes, RunnerSteps
<1> QED
  BY <1>4, <1>5

LEMMA RunnerStepKept ==
  ASSUME TypeOK, Order, Backed, RunnerStep,
         NEW e \in Event, KeptOf(e), NewestAdmitted(e)' => NewestAdmitted(e),
         store' \in Nat, store' >= store
  PROVE  KeptOf(e)'
<1>0. /\ NewestAdmitted(e)' => store' <= e
      /\ OrderOf(e, delivery[e], entry[e], runner, acked[e])
  BY DEF NewestAdmitted, Order
<1>1. CASE RunnerStart
  <2>1. /\ UNCHANGED entry /\ runner'.at = "restoring"
        /\ runner'.todo = {f \in Event : entry[f].state = "failed"}
    BY <1>1 DEF RunnerStart, durable, TypeOK, RunnerRecord
  <2> QED BY <2>1 DEF KeptOf, ToRestore
<1>2. ASSUME NEW f \in Event, RestoreSave(f)
      PROVE  KeptOf(e)'
  <2>1. /\ runner.at = "restoring" /\ SaveOwn(f) /\ UNCHANGED <<entry, delivery>>
        /\ runner'.at = "remarking" /\ runner'.todo = runner.todo \ {f} /\ runner'.current = f
    BY <1>2 DEF RestoreSave, TypeOK, RunnerRecord
  <2>2. CASE f = e
    <3>1. e <= store'
      BY <2>1, <2>2, SavedGrows, VersionTypes
    <3> QED BY <2>1, <2>2, <3>1 DEF KeptOf, MarkComes
  <2>3. CASE f # e
    <3>1. ToRestore(e, runner) => ToRestore(e, runner')
      BY <2>1, <2>3 DEF ToRestore
    <3>2. NewestAdmitted(e)' /\ MarkComes(e) => MarkComes(e)'
      BY <1>0, <2>1, MarkerStays DEF MarkComes
    <3> QED BY <2>1, <3>1, <3>2, KeptFrame
  <2> QED BY <2>2, <2>3
<1>3. CASE RestoreMark
  <2>1. /\ runner.at = "remarking" /\ UNCHANGED <<entry, store, delivery>>
        /\ marker' = MarkUndelivered(store, marker, runner.current)
        /\ runner'.at = "restoring" /\ runner'.todo = runner.todo
        /\ runner.current \in Event \cup {None}
    BY <1>3 DEF RestoreMark, TypeOK, RunnerRecord
  <2>2. runner.current <= store
    BY <2>1 DEF Backed
  <2>3. ToRestore(e, runner) => ToRestore(e, runner')
    BY <2>1 DEF ToRestore
  <2>4. NewestAdmitted(e)' /\ marker = e => marker' = e
    BY <1>0, <2>1, <2>2, MarkerStays
  <2>5. NewestAdmitted(e)' /\ runner.current = e => marker' = e
    BY <1>0, <2>1, <2>2, NewestMarked
  <2>6. NewestAdmitted(e)' /\ MarkComes(e) => MarkComes(e)'
    BY <2>1, <2>4, <2>5 DEF MarkComes
  <2> QED BY <2>1, <2>3, <2>6, KeptFrame
<1>4. CASE RestoreDone
  <2>1. /\ runner.at = "restoring" /\ runner.todo = {} /\ UNCHANGED <<durable, delivery>>
    BY <1>4 DEF RestoreDone
  <2>2. ~ToRestore(e, runner) /\ (MarkComes(e) => MarkComes(e)')
    BY <2>1 DEF ToRestore, MarkComes, durable
  <2> QED BY <2>1, <2>2, KeptFrame DEF durable
<1>5. CASE \/ ListPending \/ Prune
           \/ \E f \in Event : Redeliver(f) \/ Discover(f) \/ SkipTracked(f)
  <2>1. runner.at \in {"idle", "paging"} /\ UNCHANGED <<store, marker>>
    BY <1>5 DEF ListPending, Prune, Redeliver, Discover, SkipTracked, durable
  <2>2. entry'[e] = entry[e] \/ entry'[e] = NoEntry
    BY <1>5 DEF ListPending, Prune, Redeliver, Discover, SkipTracked, durable
  <2>3. NoEntry.state = "absent"
    BY DEF NoEntry
  <2>4. delivery'[e] = delivery[e] \/ delivery[e].step = "idle"
    <3>1. CASE ListPending \/ Prune \/ \E f \in Event : SkipTracked(f)
      BY <3>1 DEF ListPending, Prune, SkipTracked
    <3>2. ASSUME NEW f \in Event, Redeliver(f)
          PROVE  delivery'[e] = delivery[e] \/ delivery[e].step = "idle"
      <4>1. /\ delivery[f].step = "idle" /\ BeginRound(f, "runner", delivery[f])
            /\ delivery[f] \in DeliveryRecord
        BY <3>2 DEF Redeliver, TypeOK
      <4> QED BY <4>1, Begun
    <3>3. ASSUME NEW f \in Event, Discover(f)
          PROVE  delivery'[e] = delivery[e] \/ delivery[e].step = "idle"
      <4>1. ~delivery[f].tracked /\ BeginRound(f, "runner", Found(f))
        BY <3>3 DEF Discover, Found
      <4>2. delivery[f].step = "idle"
        BY <4>1 DEF Order, OrderOf
      <4> QED BY <4>1, <4>2, FoundFields, Begun
    <3> QED BY <1>5, <3>1, <3>2, <3>3
  <2>5. ~ToRestore(e, runner) /\ runner.at # "remarking"
    BY <2>1 DEF ToRestore
  <2>6. CASE delivery'[e] = delivery[e]
    <3>1. MarkComes(e) => MarkComes(e)'
      BY <2>1, <2>5, <2>6 DEF MarkComes
    <3> QED BY <2>1, <2>2, <2>3, <2>5, <2>6, <3>1, KeptFrame
  <2>7. CASE delivery[e].step = "idle"
    BY <2>1, <2>2, <2>3, <2>5, <2>7 DEF KeptOf, MarkComes
  <2> QED BY <2>4, <2>6, <2>7
<1> QED
  BY <1>1, <1>2, <1>3, <1>4, <1>5 DEF RunnerStep

LEMMA EnvironmentKept ==
  ASSUME TypeOK, Backed, Environment, ~Crash,
         NEW e \in Event, KeptOf(e), NewestAdmitted(e)' => NewestAdmitted(e),
         store' \in Nat, store' >= store
  PROVE  KeptOf(e)'
<1>0. NewestAdmitted(e)' => store' <= e
  BY DEF NewestAdmitted
<1>1. UNCHANGED <<delivery, runner>>
  BY DEF Environment, RetryAllFailed, ChangeRelays, OperatorRetry, InboundEvent
<1>2. entry'[e] = entry[e] \/ entry'[e] = Retry(entry[e])
  BY DEF Environment, RetryAllFailed, ChangeRelays, OperatorRetry, InboundEvent, durable, TypeOK
<1>3. Retry(entry[e]).state = "pending"
  BY DEF TypeOK, Entry, Retry
<1>4. UNCHANGED <<store, marker>> \/ \E f \in Event : SaveOwn(f)
  BY DEF Environment, RetryAllFailed, ChangeRelays, OperatorRetry, InboundEvent, durable
<1>5. NewestAdmitted(e)' /\ marker = e => marker' = e
  BY <1>0, <1>4, MarkerStays
<1>6. NewestAdmitted(e)' /\ MarkComes(e) => MarkComes(e)'
  BY <1>1, <1>5 DEF MarkComes
<1> QED
  BY <1>1, <1>2, <1>3, <1>6, KeptFrame

LEMMA KeptStep ==
  ASSUME TypeOK, Shape, AbsentIsEmpty, Evidence, Backed, Order, Kept, NotInline, [Next]_vars
  PROVE  Kept'
<1> SUFFICES ASSUME NEW e \in Event PROVE KeptOf(e)'
  BY DEF Kept
<1>0. KeptOf(e)
  BY DEF Kept
<1>1. CASE Crash
  BY <1>1 DEF Crash, KeptOf, ToRestore, Stopped
<1>2. CASE ~Crash
  <2>1. /\ NewestAdmitted(e)' => NewestAdmitted(e)
        /\ store' \in Nat /\ store' >= store
    BY <1>2, NewestBefore, StoreGrows
  <2>2. ASSUME NEW f \in Event, RoundStep(f) PROVE KeptOf(e)'
    BY <1>0, <2>1, <2>2, RoundStepKept
  <2>3. ASSUME NEW f \in Event, CallStep(f) PROVE KeptOf(e)'
    BY <1>0, <2>1, <2>3, CallStepKept DEF NotInline
  <2>4. CASE RunnerStep
    BY <1>0, <2>1, <2>4, RunnerStepKept
  <2>5. CASE Environment
    BY <1>0, <1>2, <2>1, <2>5, EnvironmentKept
  <2>6. CASE UNCHANGED vars
    BY <1>0, <2>6 DEF vars, durable, history, KeptOf, MarkComes, NewestAdmitted, Untouched
  <2> QED BY <2>2, <2>3, <2>4, <2>5, <2>6 DEF Next
<1> QED
  BY <1>1, <1>2

(* An event that is not published inline is never dropped silently: once   *)
(* the runner gave it up, and while no newer version is known, the store   *)
(* holds it and its coordinate is marked undelivered, whatever crashes,    *)
(* operator retries, failed transactions, policy changes and further calls *)
(* for it there are (deliverRound, restoreUndelivered, Prune).             *)
THEOREM NothingIsDroppedSilently ==
  ASSUME NotInline
  PROVE  Spec => []NeverSilentlyDropped
<1>1. Init => Kept
  BY DEF Init, Kept, KeptOf, NoEntry
<1>2. TypeOK /\ Backed /\ Order /\ Kept => NeverSilentlyDropped
  <2> SUFFICES ASSUME TypeOK, Backed, Order, Kept, NEW e \in Event,
                      entry[e].state = "failed", Quiet(e), NewestAdmitted(e)
               PROVE  store = e /\ marker = e
    BY DEF NeverSilentlyDropped
  <2>1. delivery[e].step = "idle" /\ runner.at \in {"idle", "paging"}
    BY DEF Quiet
  <2>2. e <= store /\ marker = e
    BY <2>1 DEF Kept, KeptOf, ToRestore, MarkComes
  <2>3. store <= e
    BY DEF NewestAdmitted
  <2> QED BY <2>2, <2>3, VersionTypes
<1>3. Spec => []Backed
  BY BackedCorrect DEF NotInline
<1>4. Spec => []Order
  BY OrderCorrect
<1> QED
  BY <1>1, <1>2, <1>3, <1>4, KeptStep, TypeCorrect, ShapeCorrect, EvidenceCorrect, PTL DEF Spec

-----------------------------------------------------------------------------
(* Queued events: Enqueue admits them and the runner alone delivers them.  *)
(* Seen from one event, every step is one of the following.                *)

QueuedOnly == \A e \in Event : Path[e] \in {"enqueue", "foreign"}

LEMMA QueuedNotInline == QueuedOnly => NotInline
BY DEF QueuedOnly, NotInline

Simple == \A e \in Event : /\ call[e].at \in {"idle", "admit", "keep"}
                           /\ delivery[e].step \notin OwnSteps
                           /\ delivery[e].holder # "caller"

Same(e) == entry'[e] = entry[e] /\ proof'[e] = proof[e] /\ tried'[e] = tried[e]

PageKept(e) ==
  (runner'.at = "paging" /\ e \in runner'.todo) =>
    (runner.at = "paging" /\ e \in runner.todo /\ runner'.page[e] = runner.page[e])

Parks(e) ==
  /\ delivery[e].step \in {"committed", "marking"} /\ ~delivery[e].settled
  /\ delivery'[e].step = "idle" /\ ~delivery'[e].settled /\ ~delivery'[e].announce
  /\ delivery'[e].tracked = delivery[e].tracked
  /\ delivery'[e].rounds = delivery[e].rounds
  /\ delivery'[e].relays = delivery[e].relays

Keeps(e) ==
  /\ delivery[e].step = "committed" /\ Abandoned(delivery[e])
  /\ delivery'[e].step = "marking" /\ Abandoned(delivery'[e]) /\ ~delivery'[e].announce

Begins(e) ==
  /\ \/ /\ delivery[e].tracked /\ delivery[e].step = "idle"
        /\ delivery'[e].rounds = delivery[e].rounds
        /\ delivery'[e].relays = SyncRelays(delivery[e].relays, writeRelays)
     \/ /\ runner.at = "paging" /\ e \in runner.todo
        /\ delivery'[e].rounds = runner.page[e].rounds
        /\ delivery'[e].relays = SyncRelays(runner.page[e].relays, writeRelays)
  /\ delivery'[e].tracked /\ delivery'[e].step = "sending" /\ delivery'[e].conf = writeRelays
  /\ ~delivery'[e].settled /\ ~delivery'[e].announce

Lists(e) ==
  /\ delivery'[e] = delivery[e]
  /\ e \in runner'.todo => entry[e].state = "pending" /\ runner'.page[e] = entry[e]

Edits(e) ==
  /\ delivery'[e] = delivery[e] /\ proof'[e] = proof[e]
  /\ \/ entry'[e] = Enqueue(entry[e], NewEntry) /\ tried'[e] = tried[e]
     \/ entry[e].state = "failed" /\ entry'[e] = Retry(entry[e]) /\ tried'[e] = 0
     \/ Settled(entry[e]) /\ entry'[e] = NoEntry /\ tried'[e] = tried[e]

Steps(e) ==
  \/ PageKept(e) /\ Same(e) /\ delivery'[e] \in {delivery[e], NoDelivery}
  \/ PageKept(e) /\ \E o \in RoundOutcomes(e) : EndRoundWith(e, o)
  \/ PageKept(e) /\ Same(e) /\ (Parks(e) \/ Keeps(e) \/ Begins(e))
  \/ PageKept(e) /\ Edits(e)
  \/ Same(e) /\ Lists(e)

LEMMA SimpleCorrect ==
  ASSUME QueuedOnly
  PROVE  Spec => []Simple
<1>1. Init => Simple
  BY NoDeliveryFields DEF Init, Simple, NoCall, OwnSteps
<1>2. TypeOK /\ Shape /\ Order /\ Simple /\ [Next]_vars => Simple'
  <2> SUFFICES ASSUME TypeOK, Shape, Order, Simple, [Next]_vars PROVE Simple'
    OBVIOUS
  <2>0. NoCall.at = "idle"
    BY DEF NoCall
  <2>1. ASSUME NEW e \in Event, RoundStep(e) PROVE Simple'
    <3>1. CASE EndRound(e)
      <4>1. /\ delivery'[e].step = "committed" /\ delivery'[e].holder = delivery[e].holder
            /\ call' = call /\ \A f \in Event \ {e} : delivery'[f] = delivery[f]
        BY <3>1, Ended DEF EndRound
      <4> QED BY <4>1 DEF Simple, OwnSteps
    <3>2. CASE Conclude(e) \/ ForgetOwnEvent(e) \/ MarkOwnEventUndelivered(e)
      <4>1. Release(e)
        BY <3>2 DEF Conclude, ForgetOwnEvent, MarkOwnEventUndelivered
      <4> QED BY <2>0, <4>1, ReleaseShape DEF Simple, OwnSteps
    <3>3. CASE KeepAbandoned(e)
      <4>1. delivery' = [delivery EXCEPT ![e].step = "marking"] /\ call' = call
        BY <3>3 DEF KeepAbandoned
      <4> QED BY <4>1, Stepped DEF Simple, OwnSteps
    <3> QED BY <2>1, <3>1, <3>2, <3>3 DEF RoundStep
  <2>2. ASSUME NEW e \in Event, CallStep(e) PROVE Simple'
    <3>0. /\ Path[e] \in {"enqueue", "foreign"} /\ call[e].at \in {"idle", "admit", "keep"}
          /\ delivery[e].step \notin OwnSteps /\ delivery \in [Event -> DeliveryRecord]
          /\ call \in [Event -> CallRecord]
      BY DEF QueuedOnly, Simple, TypeOK
    <3>1. CASE EnqueueCall(e)
      <4>1. delivery' = delivery /\ StartCall(e, "admit")
        BY <3>1 DEF EnqueueCall
      <4> QED BY <4>1, StartCallShape DEF Simple
    <3>2. CASE Admit(e)
      <4>1. /\ delivery' = delivery /\ call'[e].at = "keep"
            /\ \A f \in Event \ {e} : call'[f] = call[f]
        BY <3>0, <3>2 DEF Admit, CallRecord
      <4> QED BY <4>1 DEF Simple
    <3>3. CASE AdmitFails(e)
      <4>1. /\ call' = [call EXCEPT ![e] = NoCall]
            /\ delivery' = [delivery EXCEPT ![e] = NoDelivery] \/ delivery' = delivery
        BY <3>3 DEF AdmitFails
      <4>2. \A f \in Event : /\ call'[f] \in {NoCall, call[f]}
                             /\ delivery'[f] \in {NoDelivery, delivery[f]}
        BY <3>0, <4>1
      <4> QED BY <2>0, <4>2, NoDeliveryFields DEF Simple, OwnSteps
    <3>4. CASE KeepOwnEvent(e)
      <4>1. Path[e] = "enqueue"
        BY <3>0, <3>4 DEF KeepOwnEvent, Shape, ShapeOf
      <4>2. delivery' = delivery /\ call' = [call EXCEPT ![e] = NoCall]
        BY <3>4, <4>1 DEF KeepOwnEvent
      <4> QED BY <2>0, <3>0, <4>2 DEF Simple
    <3> QED BY <2>2, <3>0, <3>1, <3>2, <3>3, <3>4
            DEF CallStep, CallProgress, PublishInline, PublishBeforeCommit, CallerRound,
                CallerWaits, FirstRound, AdmitDelivered, KeepDelivered, RecordDelivered,
                RecordFails, OwnSteps
  <2>3. CASE RunnerStep
    BY <2>3, RunnerStepShape DEF Simple, OwnSteps
  <2>4. CASE Environment
    BY <2>0, <2>4, EnvironmentShape, NoDeliveryFields DEF Simple, OwnSteps
  <2>5. CASE UNCHANGED vars
    BY <2>5 DEF vars, Simple
  <2> QED BY <2>1, <2>2, <2>3, <2>4, <2>5 DEF Next
<1>3. Spec => []Order
  BY QueuedNotInline, OrderCorrect
<1> QED
  BY <1>1, <1>2, <1>3, TypeCorrect, ShapeCorrect, PTL DEF Spec

LEMMA RoundStepSteps ==
  ASSUME TypeOK, Order, Simple, NEW f \in Event, RoundStep(f), NEW e \in Event
  PROVE  Steps(e)
<1>0. OrderOf(f, delivery[f], entry[f], runner, acked[f])
  BY DEF Order
<1>1. ASSUME NEW o \in RoundOutcomes(f), EndRoundWith(f, o) PROVE Steps(e)
  <2>1. PageKept(e)
    BY <1>1, Ended, PassStoppedIdle DEF PageKept
  <2>2. CASE f = e
    BY <1>1, <2>1, <2>2 DEF Steps
  <2>3. CASE f # e
    <3>1. delivery'[e] = delivery[e]
      BY <1>1, <2>3, Ended
    <3>2. entry'[e] = entry[e] /\ proof'[e] = proof[e]
      BY <1>1, <2>3, Ended DEF Commits, Skips, LosesCommit, TypeOK
    <3>3. tried'[e] = tried[e]
      BY <1>1, <2>3, Ended DEF TypeOK
    <3> QED BY <2>1, <3>1, <3>2, <3>3 DEF Steps, Same
  <2> QED BY <2>2, <2>3
<1>2. ASSUME Release(f), delivery[f].step \in {"committed", "marking"},
             UNCHANGED <<entry, proof, runner, tried>>
      PROVE  Steps(e)
  <2>1. PageKept(e) /\ Same(e)
    BY <1>2 DEF PageKept, Same
  <2>2. delivery'[e] \in {delivery[e], NoDelivery} \/ Parks(e)
    BY <1>2, Released DEF Parks
  <2> QED BY <2>1, <2>2 DEF Steps
<1>3. CASE Conclude(f) \/ MarkOwnEventUndelivered(f)
  BY <1>2, <1>3 DEF Conclude, MarkOwnEventUndelivered
<1>4. CASE ForgetOwnEvent(f)
  BY <1>0, <1>4 DEF ForgetOwnEvent, OrderOf, RunnerSteps
<1>5. CASE KeepAbandoned(f)
  <2>1. /\ delivery[f].step = "committed" /\ Abandoned(delivery[f])
        /\ delivery' = [delivery EXCEPT ![f].step = "marking"]
        /\ UNCHANGED <<entry, proof, runner, tried>>
    BY <1>5 DEF KeepAbandoned, history
  <2>2. PageKept(e) /\ Same(e)
    BY <2>1 DEF PageKept, Same
  <2>3. delivery'[e] = delivery[e] \/ Keeps(e)
    BY <1>0, <2>1, Stepped DEF Keeps, Abandoned, OrderOf
  <2> QED BY <2>2, <2>3 DEF Steps
<1> QED
  BY <1>1, <1>3, <1>4, <1>5 DEF RoundStep, EndRound

LEMMA CallStepSteps ==
  ASSUME TypeOK, Simple, QueuedOnly, NEW f \in Event, CallStep(f), NEW e \in Event
  PROVE  Steps(e)
<1>0. /\ Path[f] \in {"enqueue", "foreign"} /\ call[f].at \in {"idle", "admit", "keep"}
      /\ delivery[f].step \notin OwnSteps
  BY DEF QueuedOnly, Simple
<1>1. CASE EnqueueCall(f) \/ KeepOwnEvent(f)
  <2>1. UNCHANGED <<entry, proof, delivery, runner, tried>>
    BY <1>1 DEF EnqueueCall, KeepOwnEvent, StartCall, durable, history
  <2> QED BY <2>1 DEF Steps, PageKept, Same
<1>2. CASE AdmitFails(f)
  <2>1. /\ UNCHANGED <<entry, proof, runner, tried>>
        /\ delivery' = [delivery EXCEPT ![f] = NoDelivery] \/ delivery' = delivery
    BY <1>2 DEF AdmitFails, durable
  <2>2. delivery'[e] \in {delivery[e], NoDelivery}
    BY <2>1 DEF TypeOK
  <2> QED BY <2>1, <2>2 DEF Steps, PageKept, Same
<1>3. CASE Admit(f)
  <2>1. /\ UNCHANGED <<proof, delivery, runner, tried>>
        /\ entry' = [entry EXCEPT ![f] = Enqueue(@, NewEntry)]
    BY <1>3 DEF Admit, history
  <2>2. entry'[e] = entry[e] \/ entry'[e] = Enqueue(entry[e], NewEntry)
    BY <2>1 DEF TypeOK
  <2>3. Same(e) \/ Edits(e)
    BY <2>1, <2>2 DEF Same, Edits
  <2> QED BY <2>1, <2>3 DEF Steps, PageKept
<1> QED
  BY <1>0, <1>1, <1>2, <1>3
     DEF CallStep, CallProgress, PublishInline, PublishBeforeCommit, CallerRound,
         CallerWaits, FirstRound, AdmitDelivered, KeepDelivered, RecordDelivered,
         RecordFails, OwnSteps

LEMMA RunnerStepSteps ==
  ASSUME TypeOK, Order, RunnerStep, NEW e \in Event
  PROVE  Steps(e)
<1>0. OrderOf(e, delivery[e], entry[e], runner, acked[e])
  BY DEF Order
<1>1. CASE RunnerStart \/ RestoreMark \/ RestoreDone \/ \E f \in Event : RestoreSave(f)
  <2>1. /\ runner'.at # "paging" /\ UNCHANGED <<delivery, entry, proof, tried>>
    BY <1>1 DEF RunnerStart, RestoreMark, RestoreDone, RestoreSave, durable, history,
                TypeOK, RunnerRecord
  <2> QED BY <2>1 DEF Steps, PageKept, Same
<1>2. CASE ListPending
  <2>1. /\ runner'.todo = {f \in Event : entry[f].state = "pending"}
        /\ runner'.page = [f \in Event |-> IF f \in {g \in Event : entry[g].state = "pending"}
                                           THEN entry[f] ELSE NoEntry]
        /\ UNCHANGED <<delivery, entry, proof, tried>>
    BY <1>2 DEF ListPending, durable, history, TypeOK, RunnerRecord
  <2>2. Lists(e)
    BY <2>1 DEF Lists
  <2> QED BY <2>1, <2>2 DEF Steps, Same
<1>3. CASE Prune
  <2>1. UNCHANGED <<delivery, runner, proof, tried>>
    BY <1>3 DEF Prune, history
  <2>2. entry'[e] = entry[e] \/ (Settled(entry[e]) /\ entry'[e] = NoEntry)
    BY <1>3 DEF Prune
  <2>3. Same(e) \/ Edits(e)
    BY <2>1, <2>2 DEF Same, Edits
  <2> QED BY <2>1, <2>3 DEF Steps, PageKept
<1>4. ASSUME NEW f \in Event, Redeliver(f)
      PROVE  Steps(e)
  <2>1. /\ delivery[f].tracked /\ delivery[f].step = "idle" /\ delivery[f] \in DeliveryRecord
        /\ BeginRound(f, "runner", delivery[f]) /\ UNCHANGED <<entry, proof, runner, tried>>
    BY <1>4 DEF Redeliver, durable, history, TypeOK
  <2>2. PageKept(e) /\ Same(e)
    BY <2>1 DEF PageKept, Same
  <2>3. CASE f # e
    <3>1. delivery'[e] = delivery[e]
      BY <2>1, <2>3, Begun
    <3> QED BY <2>2, <3>1 DEF Steps
  <2>4. CASE f = e
    <3>1. ~delivery[e].settled /\ ~delivery[e].announce
      BY <1>0, <2>1, <2>4 DEF OrderOf
    <3>2. Begins(e)
      BY <2>1, <2>4, <3>1, Begun DEF Begins
    <3> QED BY <2>2, <3>2 DEF Steps
  <2> QED BY <2>3, <2>4
<1>5. ASSUME NEW f \in Event, Discover(f)
      PROVE  Steps(e)
  <2>1. /\ runner.at = "paging" /\ f \in runner.todo /\ runner' = Turned(f)
        /\ BeginRound(f, "runner", Found(f)) /\ UNCHANGED <<entry, proof, tried>>
    BY <1>5 DEF Discover, durable, history, Found
  <2>2. PageKept(e) /\ Same(e)
    BY <2>1, TurnedPage DEF PageKept, Same
  <2>3. CASE f # e
    <3>1. delivery'[e] = delivery[e]
      BY <2>1, <2>3, FoundFields, Begun
    <3> QED BY <2>2, <3>1 DEF Steps
  <2>4. CASE f = e
    <3>1. Begins(e)
      BY <2>1, <2>4, FoundFields, Begun DEF Begins
    <3> QED BY <2>2, <3>1 DEF Steps
  <2> QED BY <2>3, <2>4
<1>6. ASSUME NEW f \in Event, SkipTracked(f)
      PROVE  Steps(e)
  <2>1. /\ runner.at = "paging" /\ runner' = Turned(f)
        /\ UNCHANGED <<delivery, entry, proof, tried>>
    BY <1>6 DEF SkipTracked, durable, history
  <2> QED BY <2>1, TurnedPage DEF Steps, PageKept, Same
<1> QED
  BY <1>1, <1>2, <1>3, <1>4, <1>5, <1>6 DEF RunnerStep

LEMMA EnvironmentSteps ==
  ASSUME TypeOK, Environment, NEW e \in Event
  PROVE  Steps(e)
<1>1. CASE Crash
  <2>1. /\ delivery'[e] = NoDelivery /\ runner'.at = "stopped" /\ UNCHANGED <<entry, proof, tried>>
    BY <1>1 DEF Crash, durable, history, Stopped
  <2> QED BY <2>1 DEF Steps, PageKept, Same
<1>2. CASE ChangeRelays \/ \E f \in Event : InboundEvent(f)
  <2>1. UNCHANGED <<delivery, runner, entry, proof, tried>>
    BY <1>2 DEF ChangeRelays, InboundEvent, durable, history
  <2> QED BY <2>1 DEF Steps, PageKept, Same
<1>3. CASE RetryAllFailed \/ \E f \in Event : OperatorRetry(f)
  <2>1. UNCHANGED <<delivery, runner, proof>>
    BY <1>3 DEF RetryAllFailed, OperatorRetry
  <2>2. \/ entry'[e] = entry[e] /\ tried'[e] = tried[e]
        \/ entry[e].state = "failed" /\ entry'[e] = Retry(entry[e]) /\ tried'[e] = 0
    BY <1>3 DEF RetryAllFailed, OperatorRetry, TypeOK
  <2>3. Same(e) \/ Edits(e)
    BY <2>1, <2>2 DEF Same, Edits
  <2> QED BY <2>1, <2>3 DEF Steps, PageKept
<1> QED
  BY <1>1, <1>2, <1>3 DEF Environment

LEMMA NextSteps ==
  ASSUME TypeOK, Order, Simple, QueuedOnly, [Next]_vars, NEW e \in Event
  PROVE  Steps(e)
<1>1. CASE UNCHANGED vars
  BY <1>1 DEF vars, durable, history, Steps, PageKept, Same
<1> QED
  BY <1>1, RoundStepSteps, CallStepSteps, RunnerStepSteps, EnvironmentSteps DEF Next

-----------------------------------------------------------------------------
(* Queued events under one relay policy: a delivery that is not settled,   *)
(* and the page it may be started from, know every acceptance the pending  *)
(* entry holds.                                                            *)

OnePolicy == left.changes = 0 /\ writeRelays = Relay

LEMMA OnePolicyCorrect ==
  ASSUME MaxRelayChanges = 0
  PROVE  Spec => []OnePolicy
<1>1. Init => OnePolicy
  BY DEF Init, OnePolicy
<1>2. TypeOK /\ OnePolicy /\ [Next]_vars => OnePolicy'
  <2> SUFFICES ASSUME TypeOK, OnePolicy, [Next]_vars PROVE OnePolicy'
    OBVIOUS
  <2>0. left \in Left /\ left.changes = 0 /\ writeRelays = Relay
    BY DEF TypeOK, OnePolicy
  <2>1. ASSUME \/ left' = left
               \/ left' = [left EXCEPT !.faults = @ - 1]
               \/ \E e \in Event : left' = [left EXCEPT !.publishes[e] = @ - 1]
               \/ left' = [left EXCEPT !.crashes = @ - 1]
               \/ left' = [left EXCEPT !.retries = @ - 1],
               writeRelays' = writeRelays
        PROVE  OnePolicy'
    BY <2>0, <2>1 DEF OnePolicy, Left
  <2>2. ASSUME NEW e \in Event, RoundStep(e) PROVE OnePolicy'
    BY <2>1, <2>2 DEF RoundStep, EndRound, EndRoundWith, Fault, Conclude, ForgetOwnEvent,
                      KeepAbandoned, MarkOwnEventUndelivered
  <2>3. ASSUME NEW e \in Event, CallStep(e) PROVE OnePolicy'
    <3>1. CASE PublishInline(e) \/ EnqueueCall(e) \/ PublishBeforeCommit(e)
      BY <2>1, <3>1 DEF PublishInline, EnqueueCall, PublishBeforeCommit, StartCall
    <3>2. CASE AdmitFails(e) \/ RecordFails(e)
      BY <2>1, <3>2 DEF AdmitFails, RecordFails, Fault
    <3>3. CASE \/ Admit(e) \/ KeepOwnEvent(e) \/ CallerRound(e) \/ CallerWaits(e)
               \/ FirstRound(e) \/ AdmitDelivered(e) \/ KeepDelivered(e) \/ RecordDelivered(e)
      BY <2>1, <3>3 DEF Admit, KeepOwnEvent, CallerRound, CallerWaits, FirstRound,
                        AdmitDelivered, KeepDelivered, RecordDelivered
    <3> QED BY <2>3, <3>1, <3>2, <3>3 DEF CallStep, CallProgress
  <2>4. CASE RunnerStep
    BY <2>1, <2>4 DEF RunnerStep, RunnerStart, RestoreMark, RestoreDone, ListPending, Prune,
                      RestoreSave, Redeliver, Discover, SkipTracked
  <2>5. CASE Environment
    BY <2>0, <2>1, <2>5 DEF Environment, RetryAllFailed, ChangeRelays, Crash, OperatorRetry,
                            InboundEvent
  <2>6. CASE UNCHANGED vars
    BY <2>6 DEF vars, OnePolicy
  <2> QED BY <2>2, <2>3, <2>4, <2>5, <2>6 DEF Next
<1> QED
  BY <1>1, <1>2, TypeCorrect, PTL DEF Spec

Covers(stored, relays) == \A r \in Relay : stored[r] = "accepted" => relays[r] = "accepted"

FlowOf(e) ==
  /\ delivery[e].step \in {"sending", "committed"} => delivery[e].conf = Relay
  /\ (delivery[e].tracked /\ ~delivery[e].settled) =>
       entry[e].state = "pending" /\ Covers(entry[e].relays, delivery[e].relays)
  /\ (runner.at = "paging" /\ e \in runner.todo) =>
       entry[e].state = "pending" /\ Covers(entry[e].relays, runner.page[e].relays)

Flow == \A e \in Event : FlowOf(e)

LEMMA FreshCovered ==
  ASSUME NEW relays
  PROVE  Covers(Fresh, relays)
BY DEF Covers, Fresh

LEMMA SyncAll ==
  ASSUME NEW relays \in [Relay -> RelayStatus]
  PROVE  SyncRelays(relays, Relay) = relays
BY DEF SyncRelays

(* Relays that answered for good are not asked again.                      *)
LEMMA RoundCovers ==
  ASSUME TypeOK, NEW e \in Event, NEW o \in RoundOutcomes(e)
  PROVE  Covers(delivery[e].relays, RelaysAfter(e, o))
<1>1. DOMAIN o = RetryableRelays(delivery[e].relays, delivery[e].conf)
  BY DEF RoundOutcomes, Outcomes
<1>2. \A r \in DOMAIN o : delivery[e].relays[r] # "accepted"
  BY <1>1 DEF RetryableRelays
<1> QED
  BY <1>2 DEF Covers, RelaysAfter, ApplyRound

(* What a commit makes of an entry that is pending.                        *)
LEMMA CommitPending ==
  ASSUME TypeOK, NEW e \in Event, NEW o, Commits(e, o), entry[e].state = "pending"
  PROVE  /\ entry'[e].relays = MergeRelayDeliveries(entry[e].relays, RelaysAfter(e, o))
         /\ entry'[e].state = IF ~SettledBy(e, o) THEN "pending"
                              ELSE IF ReachedBy(e, o) THEN "published" ELSE "failed"
         /\ entry'[e].rounds = IF RoundsAfter(e, o) > entry[e].rounds
                               THEN RoundsAfter(e, o) ELSE entry[e].rounds
<1>1. entry'[e] = CommitRound(entry[e], Committed(e, o))
  BY DEF Commits, TypeOK
<1>2. /\ Committed(e, o).relays = RelaysAfter(e, o) /\ Committed(e, o).rounds = RoundsAfter(e, o)
      /\ Committed(e, o).state = IF ~SettledBy(e, o) THEN "pending"
                                 ELSE IF ReachedBy(e, o) THEN "published" ELSE "failed"
  BY DEF Committed, RoundOf
<1> QED
  BY <1>1, <1>2 DEF CommitRound

LEMMA MergedAccepted ==
  ASSUME NEW stored, NEW relays, NEW r \in Relay
  PROVE  MergeRelayDeliveries(stored, relays)[r] = "accepted"
           <=> stored[r] = "accepted" \/ relays[r] = "accepted"
BY DEF MergeRelayDeliveries, MergeStatus

LEMMA EditedEntry ==
  ASSUME TypeOK, NEW e \in Event, Edits(e)
  PROVE  /\ entry[e].state = "pending" => entry'[e] = entry[e]
         /\ \/ entry'[e] = entry[e]
            \/ entry'[e].relays = Fresh /\ entry'[e].rounds = 0 /\ entry'[e].state \in {"absent", "pending"}
<1>1. entry[e] \in Entry
  BY DEF TypeOK
<1>2. /\ NewEntry.state = "pending" /\ NewEntry.relays = Fresh /\ NewEntry.rounds = 0
      /\ NoEntry.state = "absent" /\ NoEntry.relays = Fresh /\ NoEntry.rounds = 0
  BY DEF NewEntry, NoEntry
<1>3. /\ Retry(entry[e]).state = "pending" /\ Retry(entry[e]).relays = Fresh
      /\ Retry(entry[e]).rounds = 0
  BY <1>1 DEF Retry, Entry
<1> QED
  BY <1>2, <1>3 DEF Edits, Enqueue, Settled

(* A round, while it runs, has a pending entry and the whole relay set.    *)
LEMMA InFlight ==
  ASSUME TypeOK, Order, Flow, NEW e \in Event, delivery[e].step = "sending"
  PROVE  /\ delivery[e].tracked /\ ~delivery[e].settled /\ delivery[e].conf = Relay
         /\ entry[e].state = "pending" /\ Covers(entry[e].relays, delivery[e].relays)
         /\ ~(runner.at = "paging" /\ e \in runner.todo)
BY DEF Order, OrderOf, Flow, FlowOf, RunnerSteps

LEMMA EndRoundFlow ==
  ASSUME TypeOK, Order, Flow, NEW e \in Event, PageKept(e),
         NEW o \in RoundOutcomes(e), EndRoundWith(e, o)
  PROVE  FlowOf(e)'
<1>1. delivery[e].step = "sending"
  BY Ended
<1>2. /\ delivery[e].conf = Relay /\ entry[e].state = "pending"
      /\ Covers(entry[e].relays, delivery[e].relays)
      /\ ~(runner'.at = "paging" /\ e \in runner'.todo)
  BY <1>1, InFlight DEF PageKept
<1>3. delivery'[e].conf = Relay /\ delivery'[e].relays = RelaysAfter(e, o)
  BY <1>2, Ended
<1>4. Covers(entry[e].relays, RelaysAfter(e, o))
  BY <1>2, RoundCovers DEF Covers
<1>5. ASSUME ~delivery'[e].settled
      PROVE  entry'[e].state = "pending" /\ Covers(entry'[e].relays, RelaysAfter(e, o))
  <2>1. CASE entry' = entry
    BY <1>2, <1>4, <2>1
  <2>2. CASE entry' # entry
    <3>1. Commits(e, o) /\ ~SettledBy(e, o)
      BY <1>5, <2>2, Ended DEF Skips, LosesCommit
    <3>2. /\ entry'[e].relays = MergeRelayDeliveries(entry[e].relays, RelaysAfter(e, o))
          /\ entry'[e].state = "pending"
      BY <1>2, <3>1, CommitPending
    <3>3. Covers(entry'[e].relays, RelaysAfter(e, o))
      BY <1>4, <3>2, MergedAccepted DEF Covers
    <3> QED BY <3>2, <3>3
  <2> QED BY <2>1, <2>2
<1> QED
  BY <1>2, <1>3, <1>5 DEF FlowOf

LEMMA FlowStep ==
  ASSUME TypeOK, Order, OnePolicy, Flow, NEW e \in Event, Steps(e)
  PROVE  FlowOf(e)'
<1>0. FlowOf(e) /\ OrderOf(e, delivery[e], entry[e], runner, acked[e]) /\ writeRelays = Relay
  BY DEF Flow, Order, OnePolicy
<1>1. CASE PageKept(e) /\ Same(e) /\ delivery'[e] \in {delivery[e], NoDelivery}
  BY <1>0, <1>1, NoDeliveryFields DEF FlowOf, PageKept, Same
<1>2. CASE PageKept(e) /\ \E o \in RoundOutcomes(e) : EndRoundWith(e, o)
  BY <1>2, EndRoundFlow
<1>3. CASE PageKept(e) /\ Same(e) /\ Parks(e)
  BY <1>0, <1>3 DEF FlowOf, PageKept, Same, Parks
<1>4. CASE PageKept(e) /\ Same(e) /\ Keeps(e)
  BY <1>0, <1>4 DEF FlowOf, PageKept, Same, Keeps, Abandoned
<1>5. CASE PageKept(e) /\ Same(e) /\ Begins(e)
  <2>1. /\ delivery[e].relays \in [Relay -> RelayStatus]
        /\ runner.page[e].relays \in [Relay -> RelayStatus]
    BY DEF TypeOK, DeliveryRecord, RunnerRecord, Entry
  <2>2. \/ delivery[e].tracked /\ ~delivery[e].settled /\ delivery'[e].relays = delivery[e].relays
        \/ /\ runner.at = "paging" /\ e \in runner.todo
           /\ delivery'[e].relays = runner.page[e].relays
    BY <1>0, <1>5, <2>1, SyncAll DEF Begins, OrderOf
  <2> QED BY <1>0, <1>5, <2>2 DEF FlowOf, PageKept, Same, Begins
<1>6. CASE PageKept(e) /\ Edits(e)
  <2>1. /\ delivery'[e] = delivery[e] /\ entry[e].state = "pending" => entry'[e] = entry[e]
    BY <1>6, EditedEntry DEF Edits
  <2> QED BY <1>0, <1>6, <2>1 DEF FlowOf, PageKept, Edits
<1>7. CASE Same(e) /\ Lists(e)
  <2>1. entry'[e] = entry[e] /\ delivery'[e] = delivery[e]
    BY <1>7 DEF Same, Lists
  <2> QED BY <1>0, <1>7, <2>1 DEF FlowOf, Lists, Covers
<1> QED
  BY <1>1, <1>2, <1>3, <1>4, <1>5, <1>6, <1>7 DEF Steps

LEMMA FlowCorrect ==
  ASSUME QueuedOnly, MaxRelayChanges = 0
  PROVE  Spec => [](Order /\ Simple /\ OnePolicy /\ Flow)
<1>1. Init => Flow
  BY NoDeliveryFields DEF Init, Flow, FlowOf, Stopped
<1>2. TypeOK /\ Order /\ Simple /\ OnePolicy /\ Flow /\ [Next]_vars => Flow'
  BY NextSteps, FlowStep DEF Flow
<1>3. Spec => []Order /\ []Simple /\ []OnePolicy
  BY QueuedNotInline, OrderCorrect, SimpleCorrect, OnePolicyCorrect
<1> QED
  BY <1>1, <1>2, <1>3, TypeCorrect, PTL DEF Spec

(* With queued events and a relay policy that does not change, a round of  *)
(* the runner never contacts a relay whose acceptance the outbox holds, in *)
(* whatever order pages, rounds, failed commits, crashes and operator      *)
(* retries come (discoverLocal, restore, retryableRelays).                 *)
THEOREM NothingIsResent ==
  ASSUME QueuedOnly, MaxRelayChanges = 0
  PROVE  Spec => []NoResend
<1>1. TypeOK /\ Order /\ Flow => NoResend
  BY InFlight DEF NoResend, RetryableRelays, Covers
<1> QED
  BY <1>1, FlowCorrect, TypeCorrect, PTL

-----------------------------------------------------------------------------
(* Announcements.  With one policy and no failing transaction, a quorum of *)
(* acceptances is never known, to a delivery, an entry or a page, without  *)
(* its proof.                                                              *)

NoFault == left.faults = 0

LEMMA NoFaultCorrect ==
  ASSUME MaxFaults = 0
  PROVE  Spec => []NoFault
<1>1. Init => NoFault
  BY DEF Init, NoFault
<1>2. TypeOK /\ NoFault /\ [Next]_vars => NoFault'
  <2> SUFFICES ASSUME TypeOK, NoFault, [Next]_vars PROVE NoFault'
    OBVIOUS
  <2>0. left \in Left /\ left.faults = 0 /\ ~Fault
    BY DEF TypeOK, NoFault, Fault
  <2>1. ASSUME \/ left' = left
               \/ \E e \in Event : left' = [left EXCEPT !.publishes[e] = @ - 1]
               \/ left' = [left EXCEPT !.crashes = @ - 1]
               \/ left' = [left EXCEPT !.changes = @ - 1]
               \/ left' = [left EXCEPT !.retries = @ - 1]
        PROVE  NoFault'
    BY <2>0, <2>1 DEF NoFault, Left
  <2>2. ASSUME NEW e \in Event, RoundStep(e) PROVE NoFault'
    BY <2>0, <2>1, <2>2 DEF RoundStep, EndRound, EndRoundWith, Conclude, ForgetOwnEvent,
                      KeepAbandoned, MarkOwnEventUndelivered
  <2>3. ASSUME NEW e \in Event, CallStep(e) PROVE NoFault'
    <3>1. CASE PublishInline(e) \/ EnqueueCall(e) \/ PublishBeforeCommit(e)
      BY <2>1, <3>1 DEF PublishInline, EnqueueCall, PublishBeforeCommit, StartCall
    <3>2. CASE AdmitFails(e) \/ RecordFails(e)
      BY <2>0, <2>1, <3>2 DEF AdmitFails, RecordFails
    <3>3. CASE \/ Admit(e) \/ KeepOwnEvent(e) \/ CallerRound(e) \/ CallerWaits(e)
               \/ FirstRound(e) \/ AdmitDelivered(e) \/ KeepDelivered(e) \/ RecordDelivered(e)
      BY <2>1, <3>3 DEF Admit, KeepOwnEvent, CallerRound, CallerWaits, FirstRound,
                        AdmitDelivered, KeepDelivered, RecordDelivered
    <3> QED BY <2>3, <3>1, <3>2, <3>3 DEF CallStep, CallProgress
  <2>4. CASE RunnerStep
    BY <2>1, <2>4 DEF RunnerStep, RunnerStart, RestoreMark, RestoreDone, ListPending, Prune,
                      RestoreSave, Redeliver, Discover, SkipTracked
  <2>5. CASE Environment
    BY <2>1, <2>5 DEF Environment, RetryAllFailed, ChangeRelays, Crash, OperatorRetry,
                            InboundEvent
  <2>6. CASE UNCHANGED vars
    BY <2>6 DEF vars, NoFault
  <2> QED BY <2>2, <2>3, <2>4, <2>5, <2>6 DEF Next
<1> QED
  BY <1>1, <1>2, TypeCorrect, PTL DEF Spec

LEMMA FreshNoQuorum == ~QuorumReached(Fresh, Relay)
BY FreshType, QuorumHeard DEF Fresh

(* Acceptances alone decide about the quorum.                              *)
LEMMA SameAccepted ==
  ASSUME NEW a, NEW b, Covers(a, b), Covers(b, a)
  PROVE  QuorumReached(a, Relay) <=> QuorumReached(b, Relay)
<1>1. AcceptedRelays(a, Relay) = AcceptedRelays(b, Relay)
  BY DEF Covers, AcceptedRelays
<1> QED
  BY <1>1 DEF QuorumReached

LEMMA MoreAccepted ==
  ASSUME NEW a, NEW b, Covers(a, b), QuorumReached(a, Relay)
  PROVE  QuorumReached(b, Relay)
<1>1. AcceptedRelays(a, Relay) \subseteq AcceptedRelays(b, Relay)
  BY DEF Covers, AcceptedRelays
<1>2. /\ AcceptedRelays(a, Relay) \in SUBSET Relay /\ AcceptedRelays(b, Relay) \in SUBSET Relay
  BY DEF AcceptedRelays
<1>3. /\ Cardinality(AcceptedRelays(a, Relay)) \in Nat
      /\ Cardinality(AcceptedRelays(b, Relay)) \in Nat
      /\ Cardinality(AcceptedRelays(a, Relay)) <= Cardinality(AcceptedRelays(b, Relay))
  BY <1>1, <1>2, RelaySubsetFinite, FS_Subset
<1>4. Cardinality(Relay) \in Nat /\ RequiredAcceptances(Cardinality(Relay)) \in Nat
  BY RelaySubsetFinite, RequiredType
<1> QED
  BY <1>3, <1>4 DEF QuorumReached

(* A quorum makes a valid proof.                                           *)
LEMMA QuorumProves ==
  ASSUME NEW relays \in [Relay -> RelayStatus], NEW conf \in SUBSET Relay,
         QuorumReached(relays, conf), NEW rounds, NEW settled
  PROVE  /\ ValidFor(CanonicalDeliveryProof(RoundOf(conf, rounds, relays, TRUE, settled)))
         /\ CanonicalDeliveryProof(RoundOf(conf, rounds, relays, TRUE, settled)) # NoProof
<1> DEFINE pf == CanonicalDeliveryProof(RoundOf(conf, rounds, relays, TRUE, settled))
<1>1. /\ pf.relays = conf /\ pf.required = RequiredAcceptances(Cardinality(conf))
      /\ pf.ok = AcceptedRelays(relays, conf)
  BY DEF CanonicalDeliveryProof, RoundOf, AcceptedRelays
<1>2. IsFiniteSet(conf) /\ Cardinality(conf) \in Nat /\ conf # {}
  BY RelaySubsetFinite DEF QuorumReached
<1>3. Cardinality(conf) > 0
  BY <1>2, FS_EmptySet
<1>4. /\ RequiredAcceptances(Cardinality(conf)) \in Nat
      /\ RequiredAcceptances(Cardinality(conf)) >= 1
      /\ RequiredAcceptances(Cardinality(conf)) <= Cardinality(conf)
  BY <1>2, <1>3, RequiredType
<1>5. pf.ok \subseteq pf.relays /\ Cardinality(pf.ok) >= pf.required
  BY <1>1 DEF AcceptedRelays, QuorumReached
<1> HIDE DEF pf
<1>6. ValidFor(pf)
  BY <1>1, <1>4, <1>5 DEF ValidFor
<1>7. pf # NoProof
  BY <1>6 DEF ValidFor, NoProof
<1> QED
  BY <1>6, <1>7 DEF pf

(* A round that is skipped heard nothing.                                  *)
LEMMA SkippedHears ==
  ASSUME TypeOK, NEW e \in Event, NEW o \in RoundOutcomes(e), ~Countable(o)
  PROVE  RelaysAfter(e, o) = delivery[e].relays
<1>1. \A r \in DOMAIN o : o[r] \in {"backoff", "refused"}
  BY DEF Countable, AllAdmissionRefusals
<1>2. delivery[e].relays \in [Relay -> RelayStatus]
  BY DEF TypeOK, DeliveryRecord
<1> QED
  BY <1>1, <1>2 DEF RelaysAfter, ApplyRound, ClassifyPublishResult

ProvenOf(e) ==
  e \in Eligible =>
    /\ QuorumReached(entry[e].relays, Relay) => proof[e] # NoProof
    /\ (/\ delivery[e].tracked /\ ~delivery[e].settled
        /\ QuorumReached(delivery[e].relays, Relay)) => proof[e] # NoProof
    /\ (/\ runner.at = "paging" /\ e \in runner.todo
        /\ QuorumReached(runner.page[e].relays, Relay)) => proof[e] # NoProof
    /\ delivery[e].announce => proof[e] # NoProof

KnownIsProven == \A e \in Event : ProvenOf(e)

LEMMA EndRoundProven ==
  ASSUME TypeOK, Order, NoFault, Flow, NEW e \in Event, ProvenOf(e), PageKept(e),
         NEW o \in RoundOutcomes(e), EndRoundWith(e, o)
  PROVE  ProvenOf(e)'
<1> SUFFICES ASSUME e \in Eligible
             PROVE  /\ QuorumReached(entry'[e].relays, Relay) => proof'[e] # NoProof
                    /\ QuorumReached(delivery'[e].relays, Relay) => proof'[e] # NoProof
                    /\ ~(runner'.at = "paging" /\ e \in runner'.todo)
                    /\ delivery'[e].announce => proof'[e] # NoProof
  BY DEF ProvenOf
<1>1. delivery[e].step = "sending"
  BY Ended
<1>2. /\ delivery[e].conf = Relay /\ entry[e].state = "pending"
      /\ delivery[e].tracked /\ ~delivery[e].settled
      /\ Covers(entry[e].relays, delivery[e].relays)
      /\ ~(runner'.at = "paging" /\ e \in runner'.todo)
  BY <1>1, InFlight DEF PageKept
<1>3. delivery'[e].relays = RelaysAfter(e, o) /\ (delivery'[e].announce => ReachedBy(e, o))
  BY Ended
<1>4. ReachedBy(e, o) <=> QuorumReached(RelaysAfter(e, o), Relay)
  BY <1>2 DEF ReachedBy
<1>5. Covers(entry[e].relays, RelaysAfter(e, o))
  BY <1>2, RoundCovers DEF Covers
<1>6. /\ RelaysAfter(e, o) \in [Relay -> RelayStatus] /\ ReachedBy(e, o) \in BOOLEAN
  BY VerdictBoolean
<1>7. ReachedBy(e, o) =>
        /\ ValidFor(CanonicalDeliveryProof(Committed(e, o)))
        /\ CanonicalDeliveryProof(Committed(e, o)) # NoProof
        /\ Committed(e, o).delivered
  <2> SUFFICES ASSUME ReachedBy(e, o)
               PROVE  /\ ValidFor(CanonicalDeliveryProof(Committed(e, o)))
                      /\ CanonicalDeliveryProof(Committed(e, o)) # NoProof
                      /\ Committed(e, o).delivered
    OBVIOUS
  <2>1. ReachedBy(e, o) = TRUE
    BY <1>6
  <2>2. Committed(e, o) = RoundOf(Relay, RoundsAfter(e, o), RelaysAfter(e, o), TRUE, SettledBy(e, o))
    BY <1>2, <2>1 DEF Committed
  <2>3. Committed(e, o).delivered
    BY <2>2 DEF RoundOf
  <2> QED BY <1>4, <1>6, <2>2, <2>3, QuorumProves
<1>8. CASE Commits(e, o)
  <2>1. proof'[e] = RecordPublisherProof(proof[e], Committed(e, o), e \in Eligible)
    BY <1>8 DEF Commits, TypeOK
  <2>2. ReachedBy(e, o) => proof'[e] # NoProof
    BY <1>7, <2>1 DEF RecordPublisherProof
  <2>3. entry'[e].relays = MergeRelayDeliveries(entry[e].relays, RelaysAfter(e, o))
    BY <1>2, <1>8, CommitPending
  <2>4. Covers(entry'[e].relays, RelaysAfter(e, o)) /\ Covers(RelaysAfter(e, o), entry'[e].relays)
    BY <1>5, <2>3, MergedAccepted DEF Covers
  <2>5. QuorumReached(entry'[e].relays, Relay) => ReachedBy(e, o)
    BY <1>4, <2>4, SameAccepted
  <2> QED BY <1>2, <1>3, <1>4, <2>2, <2>5
<1>9. CASE Skips(e, o)
  <2>1. RelaysAfter(e, o) = delivery[e].relays /\ entry' = entry /\ proof' = proof
    BY <1>9, SkippedHears DEF Skips
  <2>2. ReachedBy(e, o) => proof[e] # NoProof
    BY <1>2, <1>4, <2>1 DEF ProvenOf
  <2>3. QuorumReached(entry[e].relays, Relay) => proof[e] # NoProof
    BY DEF ProvenOf
  <2> QED BY <1>2, <1>3, <1>4, <2>1, <2>2, <2>3
<1>10. CASE LosesCommit(e, o)
  <2>1. ~CanCommit(entry[e], proof[e], Committed(e, o), e \in Eligible)
    BY <1>10 DEF LosesCommit, NoFault
  <2>2. Committed(e, o).delivered => ReachedBy(e, o)
    BY DEF Committed, RoundOf
  <2> QED BY <1>2, <1>7, <2>1, <2>2 DEF CanCommit
<1> QED
  BY <1>8, <1>9, <1>10, Ended

LEMMA ProvenStep ==
  ASSUME TypeOK, Order, OnePolicy, NoFault, Flow, NEW e \in Event, ProvenOf(e), Steps(e)
  PROVE  ProvenOf(e)'
<1>0. OrderOf(e, delivery[e], entry[e], runner, acked[e]) /\ writeRelays = Relay
  BY DEF Order, OnePolicy
<1>1. CASE PageKept(e) /\ Same(e) /\ delivery'[e] \in {delivery[e], NoDelivery}
  BY <1>1, NoDeliveryFields DEF ProvenOf, PageKept, Same
<1>2. CASE PageKept(e) /\ \E o \in RoundOutcomes(e) : EndRoundWith(e, o)
  BY <1>2, EndRoundProven
<1>3. CASE PageKept(e) /\ Same(e) /\ Parks(e)
  BY <1>3 DEF ProvenOf, PageKept, Same, Parks
<1>4. CASE PageKept(e) /\ Same(e) /\ Keeps(e)
  BY <1>4 DEF ProvenOf, PageKept, Same, Keeps, Abandoned
<1>5. CASE PageKept(e) /\ Same(e) /\ Begins(e)
  <2>1. /\ delivery[e].relays \in [Relay -> RelayStatus]
        /\ runner.page[e].relays \in [Relay -> RelayStatus]
    BY DEF TypeOK, DeliveryRecord, RunnerRecord, Entry
  <2>2. \/ delivery[e].tracked /\ ~delivery[e].settled /\ delivery'[e].relays = delivery[e].relays
        \/ /\ runner.at = "paging" /\ e \in runner.todo
           /\ delivery'[e].relays = runner.page[e].relays
    BY <1>0, <1>5, <2>1, SyncAll DEF Begins, OrderOf
  <2> QED BY <1>5, <2>2 DEF ProvenOf, PageKept, Same, Begins
<1>6. CASE PageKept(e) /\ Edits(e)
  <2>1. /\ delivery'[e] = delivery[e] /\ proof'[e] = proof[e]
        /\ entry'[e] = entry[e] \/ entry'[e].relays = Fresh
    BY <1>6, EditedEntry DEF Edits
  <2> QED BY <1>6, <2>1, FreshNoQuorum DEF ProvenOf, PageKept
<1>7. CASE Same(e) /\ Lists(e)
  BY <1>7 DEF ProvenOf, Lists, Same
<1> QED
  BY <1>1, <1>2, <1>3, <1>4, <1>5, <1>6, <1>7 DEF Steps

(* With queued events, one relay policy and no failing transaction, the    *)
(* owner of an event is told of its delivery only when the quorum's proof  *)
(* is in the outbox, also by a round that was skipped (deliverRound,       *)
(* recordPublisherProof).                                                  *)
THEOREM AnnouncementsAreDurable ==
  ASSUME QueuedOnly, MaxRelayChanges = 0, MaxFaults = 0
  PROVE  Spec => AnnouncedIsDurable
<1> DEFINE Good == TypeOK /\ Order /\ Simple /\ OnePolicy /\ Flow /\ NoFault
<1>1. Init => KnownIsProven
  BY NoDeliveryFields, FreshNoQuorum DEF Init, KnownIsProven, ProvenOf, NoEntry, Stopped
<1>2. Good /\ KnownIsProven /\ [Next]_vars => KnownIsProven'
  BY NextSteps, ProvenStep DEF KnownIsProven
<1>3. Good /\ KnownIsProven /\ [Next]_vars
        => [\A e \in Eligible : e \in notified' \ notified => proof'[e] # NoProof]_notified
  <2> SUFFICES ASSUME Good, KnownIsProven, [Next]_vars, NEW e \in Eligible,
                      e \in notified' \ notified
               PROVE  proof'[e] # NoProof
    OBVIOUS
  <2>0. e \in Event
    BY DeliveryAssumption
  <2>1. ASSUME NEW f \in Event, Conclude(f) PROVE proof'[e] # NoProof
    <3>1. f = e /\ delivery[f].announce /\ proof' = proof
      BY <2>1 DEF Conclude
    <3> QED BY <2>0, <3>1 DEF KnownIsProven, ProvenOf
  <2>2. ASSUME NEW f \in Event, RoundStep(f), ~Conclude(f) PROVE FALSE
    BY <2>2 DEF RoundStep, EndRound, EndRoundWith, ForgetOwnEvent, KeepAbandoned,
                MarkOwnEventUndelivered, history
  <2>3. ASSUME NEW f \in Event, CallStep(f) PROVE FALSE
    <3>1. ~RecordDelivered(f)
      BY <2>3 DEF Simple, RecordDelivered, OwnSteps
    <3> QED BY <2>3, <3>1 DEF CallStep, CallProgress, PublishInline, EnqueueCall,
         PublishBeforeCommit, StartCall, Admit, AdmitFails, KeepOwnEvent, CallerRound,
         CallerWaits, FirstRound, AdmitDelivered, KeepDelivered, RecordFails, history
  <2>4. CASE RunnerStep
    BY <2>4 DEF RunnerStep, RunnerStart, RestoreMark, RestoreDone, ListPending, Prune,
                RestoreSave, Redeliver, Discover, SkipTracked, history
  <2>5. CASE Environment
    BY <2>5 DEF Environment, RetryAllFailed, ChangeRelays, Crash, OperatorRetry,
                InboundEvent, history
  <2>6. CASE UNCHANGED vars
    BY <2>6 DEF vars, history
  <2> QED BY <2>1, <2>2, <2>3, <2>4, <2>5, <2>6 DEF Next
<1>4. Spec => []Good
  <2>1. Spec => [](Order /\ Simple /\ OnePolicy /\ Flow) /\ []NoFault
    BY FlowCorrect, NoFaultCorrect
  <2> QED BY <2>1, TypeCorrect, PTL
<1> HIDE DEF Good
<1> QED
  BY <1>1, <1>2, <1>3, <1>4, PTL DEF Spec, AnnouncedIsDurable

-----------------------------------------------------------------------------
(* The attempt budget.  No count of rounds, in memory, in the entry or on  *)
(* the page, is ahead of the rounds that gave the relays a chance, and an  *)
(* entry that was given up on has its cause in it.                         *)

CountOf(e) ==
  /\ entry[e].rounds <= tried[e]
  /\ (delivery[e].tracked /\ ~delivery[e].settled) => delivery[e].rounds <= tried[e]
  /\ (runner.at = "paging" /\ e \in runner.todo) => runner.page[e].rounds <= tried[e]
  /\ entry[e].state = "failed" =>
       \/ tried[e] >= MaxAttempts
       \/ Cardinality({r \in Relay : entry[e].relays[r] # "rejected"})
            < RequiredAcceptances(Cardinality(Relay))

BudgetIsSpent == \A e \in Event : CountOf(e)

LEMMA CountMonotone ==
  ASSUME NEW n \in Nat, NEW m \in Nat, n <= m
  PROVE  CountRound(n) <= CountRound(m) /\ m <= CountRound(m)
BY DeliveryAssumption DEF CountRound

LEMMA TriedKeepsUp ==
  ASSUME TypeOK, NEW e \in Event, NEW o \in RoundOutcomes(e), EndRoundWith(e, o),
         delivery[e].rounds <= tried[e]
  PROVE  RoundsAfter(e, o) <= tried'[e] /\ tried[e] <= tried'[e] /\ tried'[e] \in Nat
<1>1. delivery[e].rounds \in Nat /\ tried \in [Event -> Nat]
  BY DEF TypeOK, DeliveryRecord
<1>2. tried' = IF Tried(o) THEN [tried EXCEPT ![e] = CountRound(@)] ELSE tried
  BY Ended
<1>3. Countable(o) => Tried(o)
  BY DEF Countable, AllAdmissionRefusals, Tried
<1>4. tried'[e] \in {tried[e], CountRound(tried[e])}
  BY <1>1, <1>2
<1>5. CASE Countable(o)
  <2>1. tried'[e] = CountRound(tried[e]) /\ RoundsAfter(e, o) = CountRound(delivery[e].rounds)
    BY <1>1, <1>2, <1>3, <1>5 DEF RoundsAfter
  <2> QED BY <1>1, <2>1, CountMonotone, CountRoundType
<1>6. CASE ~Countable(o)
  <2>1. RoundsAfter(e, o) = delivery[e].rounds
    BY <1>6 DEF RoundsAfter
  <2> QED BY <1>1, <1>4, <2>1, CountMonotone, CountRoundType
<1> QED
  BY <1>5, <1>6

(* A round that gives the event up within the budget leaves fewer relays   *)
(* that did not reject it than the quorum takes: those that accepted and   *)
(* those that may still be asked are all of them.                          *)
LEMMA GivenUp ==
  ASSUME NEW relays \in [Relay -> RelayStatus], NEW rounds \in Nat,
         RoundSettles(relays, Relay, rounds), ~QuorumReached(relays, Relay)
  PROVE  \/ rounds >= MaxAttempts
         \/ Cardinality({r \in Relay : relays[r] # "rejected"})
              < RequiredAcceptances(Cardinality(Relay))
<1> DEFINE A == AcceptedRelays(relays, Relay)
           T == RetryableRelays(relays, Relay)
           R == RequiredAcceptances(Cardinality(Relay))
<1> SUFFICES ASSUME ~(rounds >= MaxAttempts)
             PROVE  Cardinality({r \in Relay : relays[r] # "rejected"}) < R
  OBVIOUS
<1>1. /\ A \subseteq Relay /\ T \subseteq Relay /\ A \cap T = {}
      /\ {r \in Relay : relays[r] # "rejected"} = A \cup T
  BY DEF AcceptedRelays, RetryableRelays, RelayStatus
<1>2. IsFiniteSet(A) /\ IsFiniteSet(T) /\ IsFiniteSet(Relay)
  BY <1>1, RelaySubsetFinite, RelayAssumption
<1>3. Cardinality(A) \in Nat /\ Cardinality(T) \in Nat /\ Cardinality(Relay) \in Nat
  BY <1>2, FS_CardinalityType
<1>4. R \in Int
  BY <1>3, RequiredType
<1>5. Cardinality(A \cup T) = Cardinality(A) + Cardinality(T)
  <2>1. Cardinality(A \cup T) = Cardinality(A) + Cardinality(T) - Cardinality(A \cap T)
    BY <1>2, FS_Union
  <2>2. Cardinality(A \cap T) = 0
    BY <1>1, FS_EmptySet
  <2> QED BY <1>3, <2>1, <2>2
<1>6. Relay # {} /\ (Cardinality(T) = 0 \/ Cardinality(A) + Cardinality(T) < R)
  BY DEF RoundSettles
<1>7. Cardinality(A) < R
  <2>1. ~(Cardinality(A) >= R)
    BY <1>6 DEF QuorumReached
  <2> HIDE DEF A, T, R
  <2> QED BY <2>1, <1>3, <1>4
<1> HIDE DEF A, T, R
<1> QED
  BY <1>1, <1>3, <1>4, <1>5, <1>6, <1>7

LEMMA EndRoundCount ==
  ASSUME TypeOK, Order, Flow, NEW e \in Event, CountOf(e), PageKept(e),
         NEW o \in RoundOutcomes(e), EndRoundWith(e, o)
  PROVE  CountOf(e)'
<1>1. delivery[e].step = "sending"
  BY Ended
<1>2. /\ delivery[e].conf = Relay /\ entry[e].state = "pending"
      /\ Covers(entry[e].relays, delivery[e].relays)
      /\ delivery[e].rounds <= tried[e]
      /\ ~(runner'.at = "paging" /\ e \in runner'.todo)
  BY <1>1, InFlight DEF PageKept, CountOf
<1>3. /\ RoundsAfter(e, o) <= tried'[e] /\ tried[e] <= tried'[e] /\ tried'[e] \in Nat
      /\ tried[e] \in Nat /\ entry[e].rounds \in Nat /\ delivery'[e].rounds = RoundsAfter(e, o)
  BY <1>2, TriedKeepsUp, Ended DEF TypeOK, Entry
<1>4. RelaysAfter(e, o) \in [Relay -> RelayStatus] /\ RoundsAfter(e, o) \in Nat
  BY VerdictBoolean
<1>5. CASE entry' = entry
  BY <1>2, <1>3, <1>5 DEF CountOf
<1>6. CASE entry' # entry
  <2>1. Commits(e, o)
    BY <1>6, Ended DEF Skips, LosesCommit
  <2>2. /\ entry'[e].relays = MergeRelayDeliveries(entry[e].relays, RelaysAfter(e, o))
        /\ entry'[e].state = IF ~SettledBy(e, o) THEN "pending"
                             ELSE IF ReachedBy(e, o) THEN "published" ELSE "failed"
        /\ entry'[e].rounds = IF RoundsAfter(e, o) > entry[e].rounds
                              THEN RoundsAfter(e, o) ELSE entry[e].rounds
    BY <1>2, <2>1, CommitPending
  <2>3. entry'[e].rounds <= tried'[e]
    BY <1>3, <1>4, <2>2 DEF CountOf
  <2>4. ASSUME entry'[e].state = "failed"
        PROVE  \/ tried'[e] >= MaxAttempts
               \/ Cardinality({r \in Relay : entry'[e].relays[r] # "rejected"})
                    < RequiredAcceptances(Cardinality(Relay))
    <3> DEFINE After == {r \in Relay : RelaysAfter(e, o)[r] # "rejected"}
               Still == {r \in Relay : entry'[e].relays[r] # "rejected"}
    <3>1. /\ RoundSettles(RelaysAfter(e, o), Relay, RoundsAfter(e, o))
          /\ ~QuorumReached(RelaysAfter(e, o), Relay)
      BY <1>2, <2>2, <2>4 DEF SettledBy, ReachedBy
    <3>2. CASE RoundsAfter(e, o) >= MaxAttempts
      BY <1>3, <1>4, <3>2, DeliveryAssumption
    <3>3. CASE Cardinality(After) < RequiredAcceptances(Cardinality(Relay))
      <4>1. Covers(entry[e].relays, RelaysAfter(e, o))
        BY <1>2, RoundCovers DEF Covers
      <4>2. Still \subseteq After
        BY <2>2, <4>1 DEF Covers, MergeRelayDeliveries, MergeStatus
      <4>3. IsFiniteSet(After) /\ Cardinality(After) \in Nat /\ Cardinality(Still) \in Nat
            /\ Cardinality(Relay) \in Nat
        BY RelaySubsetFinite
      <4>4. Cardinality(Still) <= Cardinality(After)
        BY <4>2, <4>3, FS_Subset
      <4>5. RequiredAcceptances(Cardinality(Relay)) \in Int
        BY <4>3, RequiredType
      <4> HIDE DEF After, Still
      <4>6. Cardinality(Still) < RequiredAcceptances(Cardinality(Relay))
        BY <3>3, <4>3, <4>4, <4>5
      <4> QED BY <4>6 DEF Still
    <3> QED BY <1>4, <3>1, <3>2, <3>3, GivenUp
  <2> QED BY <1>2, <1>3, <2>3, <2>4 DEF CountOf
<1> QED
  BY <1>5, <1>6

LEMMA CountStep ==
  ASSUME TypeOK, Order, Flow, NEW e \in Event, CountOf(e), Steps(e)
  PROVE  CountOf(e)'
<1>0. /\ OrderOf(e, delivery[e], entry[e], runner, acked[e]) /\ FlowOf(e)
      /\ tried[e] \in Nat
  BY DEF Order, Flow, TypeOK
<1>1. CASE PageKept(e) /\ Same(e) /\ delivery'[e] \in {delivery[e], NoDelivery}
  BY <1>1, NoDeliveryFields DEF CountOf, PageKept, Same
<1>2. CASE PageKept(e) /\ \E o \in RoundOutcomes(e) : EndRoundWith(e, o)
  BY <1>2, EndRoundCount
<1>3. CASE PageKept(e) /\ Same(e) /\ Parks(e)
  BY <1>3 DEF CountOf, PageKept, Same, Parks
<1>4. CASE PageKept(e) /\ Same(e) /\ Keeps(e)
  BY <1>4 DEF CountOf, PageKept, Same, Keeps, Abandoned
<1>5. CASE PageKept(e) /\ Same(e) /\ Begins(e)
  BY <1>0, <1>5 DEF CountOf, PageKept, Same, Begins, OrderOf
<1>6. CASE PageKept(e) /\ Edits(e)
  <2>1. /\ delivery'[e] = delivery[e]
        /\ entry[e].state = "pending" => entry'[e] = entry[e]
        /\ \/ entry'[e] = entry[e]
           \/ entry'[e].rounds = 0 /\ entry'[e].state \in {"absent", "pending"}
    BY <1>6, EditedEntry DEF Edits
  <2>2. tried'[e] = tried[e] \/ (tried'[e] = 0 /\ entry[e].state = "failed" /\ entry'[e].rounds = 0
                                   /\ entry'[e].state = "pending")
    BY <1>6 DEF Edits, Retry, TypeOK, Entry
  <2>3. CASE tried'[e] = tried[e] /\ entry'[e] = entry[e]
    BY <1>6, <2>1, <2>3 DEF CountOf, PageKept
  <2>4. CASE entry'[e].rounds = 0 /\ entry'[e].state \in {"absent", "pending"}
    <3>1. entry'[e].state # "failed" /\ entry'[e].rounds <= tried'[e]
      BY <1>0, <2>2, <2>4
    <3>2. CASE tried'[e] = tried[e]
      BY <1>6, <2>1, <3>1, <3>2 DEF CountOf, PageKept
    <3>3. CASE entry[e].state = "failed"
      BY <1>0, <1>6, <2>1, <3>1, <3>3 DEF CountOf, PageKept, FlowOf
    <3> QED BY <2>2, <3>2, <3>3
  <2> QED BY <2>1, <2>2, <2>3, <2>4
<1>7. CASE Same(e) /\ Lists(e)
  BY <1>7 DEF CountOf, Lists, Same
<1> QED
  BY <1>1, <1>2, <1>3, <1>4, <1>5, <1>6, <1>7 DEF Steps

(* With queued events and write relays that stay the same, whatever their  *)
(* number, an entry is given up on only when so many relays rejected the   *)
(* event that the quorum is out of reach, or after a full budget of rounds *)
(* that gave the relays a chance: neither rounds refused or held back      *)
(* whole, failed commits, merges with stale rows nor restarts spend the    *)
(* budget (deliverRound, allAdmissionRefusals, roundSettles, restore).     *)
THEOREM AbandonmentHasCause ==
  ASSUME QueuedOnly, MaxRelayChanges = 0
  PROVE  Spec => []GivenUpForCause
<1>1. Init => BudgetIsSpent
  BY NoDeliveryFields DEF Init, BudgetIsSpent, CountOf, NoEntry, Stopped
<1>2. /\ TypeOK /\ Order /\ Simple /\ OnePolicy /\ Flow /\ BudgetIsSpent /\ [Next]_vars
      => BudgetIsSpent'
  BY NextSteps, CountStep DEF BudgetIsSpent
<1>3. BudgetIsSpent => GivenUpForCause
  BY DEF BudgetIsSpent, CountOf, GivenUpForCause
<1> QED
  BY <1>1, <1>2, <1>3, FlowCorrect, TypeCorrect, PTL DEF Spec

-----------------------------------------------------------------------------
(* The marker.  When every event is published once and never retried, its  *)
(* entry is created once, so an event that was given up on, and whose      *)
(* coordinate is or will be marked, has no proof and never gets one.       *)

NoRetry == left.retries = 0

Unsent(e) == left.publishes[e] > 0 \/ call[e].at = "admit"

OnceOf(e) == /\ left.publishes[e] <= 1
             /\ call[e].at = "admit" => left.publishes[e] = 0

(* What a step may do to an event that is published once.                  *)
OnceMoves(e) ==
  /\ OnceOf(e)' /\ NoRetry'
  /\ Unsent(e)' => Unsent(e)
  /\ entry[e].state = "absent" /\ entry'[e].state # "absent" => Unsent(e) /\ ~Unsent(e)'
  /\ entry[e].state = "failed" => entry'[e].state \in {"failed", "absent"}

LEMMA OnceFrame ==
  ASSUME TypeOK, NoRetry, NEW e \in Event, OnceOf(e),
         \/ left' = left
         \/ left' = [left EXCEPT !.faults = @ - 1]
         \/ left' = [left EXCEPT !.crashes = @ - 1]
         \/ left' = [left EXCEPT !.changes = @ - 1],
         call'[e].at = "admit" => call[e].at = "admit",
         entry[e].state = "absent" => entry'[e].state = "absent",
         entry[e].state = "failed" => entry'[e].state \in {"failed", "absent"}
  PROVE  OnceMoves(e)
<1>1. left'.publishes = left.publishes /\ left'.retries = left.retries
  BY DEF TypeOK, Left
<1> QED
  BY <1>1 DEF OnceMoves, OnceOf, Unsent, NoRetry

LEMMA RoundStepOnce ==
  ASSUME TypeOK, NoRetry, NEW f \in Event, RoundStep(f), NEW e \in Event, OnceOf(e)
  PROVE  OnceMoves(e)
<1>0. NoCall.at = "idle" /\ call \in [Event -> CallRecord] /\ entry \in [Event -> Entry]
  BY DEF NoCall, TypeOK
<1>1. left' = left \/ left' = [left EXCEPT !.faults = @ - 1]
  BY DEF RoundStep, EndRound, EndRoundWith, Fault, Conclude, ForgetOwnEvent,
         KeepAbandoned, MarkOwnEventUndelivered
<1>2. call'[e] = call[e] \/ call'[e] = NoCall
  <2>1. call' = call \/ call' = [call EXCEPT ![f] = NoCall]
    BY DEF RoundStep, EndRound, EndRoundWith, Conclude, ForgetOwnEvent, KeepAbandoned,
           MarkOwnEventUndelivered, Release
  <2> QED BY <1>0, <2>1
<1>3. entry'[e] = entry[e] \/ entry[e].state = "pending"
  <2>1. entry' = entry \/ \E rd : entry' = [entry EXCEPT ![f] = CommitRound(@, rd)]
    BY DEF RoundStep, EndRound, EndRoundWith, Conclude, ForgetOwnEvent, KeepAbandoned,
           MarkOwnEventUndelivered
  <2> QED BY <1>0, <2>1 DEF CommitRound
<1> QED
  BY <1>0, <1>1, <1>2, <1>3, OnceFrame

LEMMA CallStepOnce ==
  ASSUME TypeOK, Simple, QueuedOnly, NoRetry, NEW f \in Event, CallStep(f),
         NEW e \in Event, OnceOf(e)
  PROVE  OnceMoves(e)
<1>0. /\ Path[f] \in {"enqueue", "foreign"} /\ call[f].at \in {"idle", "admit", "keep"}
      /\ delivery[f].step \notin OwnSteps
      /\ NoCall.at = "idle" /\ call \in [Event -> CallRecord] /\ entry \in [Event -> Entry]
  BY DEF QueuedOnly, Simple, NoCall, TypeOK
<1>1. CASE EnqueueCall(f)
  <2>1. /\ left.publishes[f] > 0 /\ left' = [left EXCEPT !.publishes[f] = @ - 1]
        /\ StartCall(f, "admit") /\ entry' = entry
    BY <1>1 DEF EnqueueCall, StartCall, durable
  <2>2. /\ left'.publishes = [left.publishes EXCEPT ![f] = @ - 1]
        /\ left'.retries = left.retries /\ left.publishes \in [Event -> Nat]
    BY <2>1 DEF TypeOK, Left
  <2>3. /\ left'.publishes[f] = left.publishes[f] - 1
        /\ e # f => left'.publishes[e] = left.publishes[e]
    BY <2>2
  <2>4. /\ call'[f].at = "admit"
        /\ e # f => call'[e] = call[e]
    BY <2>1, StartCallShape
  <2> HIDE DEF Unsent, OnceOf
  <2>5. CASE e = f
    BY <2>1, <2>2, <2>3, <2>4, <2>5 DEF OnceMoves, OnceOf, Unsent, NoRetry
  <2>6. CASE e # f
    BY <2>1, <2>2, <2>3, <2>4, <2>6 DEF OnceMoves, OnceOf, Unsent, NoRetry
  <2> QED BY <2>5, <2>6
<1>2. CASE AdmitFails(f) \/ KeepOwnEvent(f)
  <2>1. /\ left' = left \/ left' = [left EXCEPT !.faults = @ - 1]
        /\ entry' = entry
        /\ \/ call' = [call EXCEPT ![f] = NoCall]
           \/ call' = [call EXCEPT ![f].at = "ready"]
    BY <1>2 DEF AdmitFails, KeepOwnEvent, Fault, durable
  <2>2. call'[e].at \in {"idle", "ready"} \/ call'[e] = call[e]
    BY <1>0, <2>1 DEF CallRecord
  <2> QED BY <2>1, <2>2, OnceFrame
<1>3. CASE Admit(f)
  <2>1. /\ left' = left /\ call[f].at = "admit"
        /\ entry' = [entry EXCEPT ![f] = Enqueue(@, NewEntry)]
        /\ call' = [call EXCEPT ![f].at = "keep"]
    BY <1>3 DEF Admit
  <2>2. CASE e = f
    <3>1. call'[e].at = "keep"
      BY <1>0, <2>1, <2>2 DEF CallRecord
    <3>2. entry[e].state = "failed" => entry'[e] = entry[e]
      BY <1>0, <2>1, <2>2 DEF Enqueue
    <3> QED BY <2>1, <2>2, <3>1, <3>2 DEF OnceMoves, OnceOf, Unsent, NoRetry
  <2>3. CASE e # f
    <3>1. call'[e] = call[e] /\ entry'[e] = entry[e]
      BY <1>0, <2>1, <2>3
    <3> QED BY <2>1, <3>1, OnceFrame
  <2> QED BY <2>2, <2>3
<1> QED
  BY <1>0, <1>1, <1>2, <1>3
     DEF CallStep, CallProgress, PublishInline, PublishBeforeCommit, CallerRound,
         CallerWaits, FirstRound, AdmitDelivered, KeepDelivered, RecordDelivered,
         RecordFails, OwnSteps

LEMMA OnceStep ==
  ASSUME TypeOK, Simple, QueuedOnly, NoRetry, [Next]_vars, NEW e \in Event, OnceOf(e)
  PROVE  OnceMoves(e)
<1>1. CASE RunnerStep
  <2>1. UNCHANGED <<left, call>>
    BY <1>1 DEF RunnerStep, RunnerStart, RestoreMark, RestoreDone, ListPending, Prune,
                RestoreSave, Redeliver, Discover, SkipTracked, durable
  <2>2. entry' = entry \/ Prune
    BY <1>1 DEF RunnerStep, RunnerStart, RestoreMark, RestoreDone, ListPending,
                RestoreSave, Redeliver, Discover, SkipTracked, durable
  <2>3. entry'[e] = entry[e] \/ entry'[e] = NoEntry
    BY <2>2 DEF Prune
  <2>4. NoEntry.state = "absent"
    BY DEF NoEntry
  <2> QED BY <2>1, <2>3, <2>4, OnceFrame
<1>2. CASE Environment
  <2>0. ~RetryAllFailed /\ \A f \in Event : ~OperatorRetry(f)
    BY DEF NoRetry, RetryAllFailed, OperatorRetry
  <2>1. CASE Crash
    <3>1. /\ left' = [left EXCEPT !.crashes = @ - 1] /\ entry' = entry /\ call'[e].at = "idle"
      BY <2>1 DEF Crash, durable, NoCall
    <3> QED BY <3>1, OnceFrame
  <2>2. CASE ChangeRelays \/ \E f \in Event : InboundEvent(f)
    <3>1. /\ left' = left \/ left' = [left EXCEPT !.changes = @ - 1]
          /\ entry' = entry /\ call' = call
      BY <2>2 DEF ChangeRelays, InboundEvent, durable
    <3> QED BY <3>1, OnceFrame
  <2> QED BY <1>2, <2>0, <2>1, <2>2 DEF Environment
<1>3. CASE UNCHANGED vars
  BY <1>3, OnceFrame DEF vars, durable
<1> QED
  BY <1>1, <1>2, <1>3, RoundStepOnce, CallStepOnce DEF Next

(* A coordinate is marked, or somebody is on the way to mark it, for e.    *)
Restoring(e) == \/ runner.at \in {"restoring", "remarking"} /\ e \in runner.todo
                \/ runner.at = "remarking" /\ runner.current = e

Condemned(e) == marker = e \/ Doomed(delivery[e]) \/ Restoring(e)

HonestOf(e) ==
  /\ OnceOf(e)
  /\ delivery[e].step = "marking" => Abandoned(delivery[e])
  /\ Unsent(e) => entry[e].state = "absent" /\ proof[e] = NoProof
  /\ entry[e].state = "pending" /\ proof[e] # NoProof => QuorumReached(entry[e].relays, Relay)
  /\ entry[e].state = "failed" => proof[e] = NoProof
  /\ Condemned(e) =>
       ~Unsent(e) /\ proof[e] = NoProof /\ entry[e].state \in {"failed", "absent"}

Honest == \A e \in Event : HonestOf(e) /\ NoRetry

(* Marks and restorations are of events that were given up on.             *)
LEMMA MarksComeFrom ==
  ASSUME TypeOK, Order, Simple, QueuedOnly, [Next]_vars, NEW e \in Event, HonestOf(e),
         marker' = e \/ Restoring(e)'
  PROVE  Condemned(e) \/ entry[e].state = "failed"
<1>0. e # None
  BY VersionTypes DEF None
<1>1. ASSUME marker' \in {marker, None},
             runner' = runner \/ runner'.at \notin {"restoring", "remarking"}
      PROVE  Condemned(e)
  BY <1>0, <1>1 DEF Condemned, Restoring
<1>2. ASSUME NEW f \in Event, SaveOwn(f) PROVE marker' \in {marker, None}
  BY <1>2 DEF SaveOwn, ClearSuperseded
<1>3. ASSUME NEW f \in Event, RoundStep(f) PROVE Condemned(e)
  <2>1. CASE EndRound(f)
    <3>1. marker' = marker /\ (runner' = runner \/ runner' = PassStopped)
      BY <2>1, Ended DEF EndRound
    <3> QED BY <1>1, <3>1, PassStoppedIdle
  <2>2. CASE Conclude(f)
    BY <1>1, <2>2 DEF Conclude, ClearUndelivered
  <2>3. CASE ForgetOwnEvent(f)
    BY <1>1, <2>3 DEF ForgetOwnEvent
  <2>4. CASE KeepAbandoned(f)
    BY <1>1, <1>2, <2>4 DEF KeepAbandoned
  <2>5. CASE MarkOwnEventUndelivered(f)
    <3>1. /\ delivery[f].step = "marking" /\ runner' = runner /\ marker' \in {marker, f}
      BY <2>5 DEF MarkOwnEventUndelivered, MarkUndelivered
    <3> QED BY <3>1 DEF HonestOf, Condemned, Restoring, Doomed
  <2> QED BY <1>3, <2>1, <2>2, <2>3, <2>4, <2>5 DEF RoundStep
<1>4. ASSUME NEW f \in Event, CallStep(f) PROVE Condemned(e)
  <2>1. runner' = runner /\ (marker' = marker \/ SaveOwn(f))
    BY <1>4 DEF CallStep, CallProgress, PublishInline, EnqueueCall, PublishBeforeCommit,
         StartCall, Admit, AdmitFails, KeepOwnEvent, CallerRound, CallerWaits, FirstRound,
         AdmitDelivered, KeepDelivered, RecordDelivered, RecordFails, durable
  <2> QED BY <1>1, <1>2, <1>4, <2>1
<1>5. CASE RunnerStep
  <2>1. CASE RunnerStart
    <3>1. marker' = marker /\ runner'.at = "restoring" /\ runner'.todo = {f \in Event : entry[f].state = "failed"}
      BY <2>1 DEF RunnerStart, durable, TypeOK, RunnerRecord
    <3> QED BY <3>1 DEF Condemned, Restoring
  <2>2. ASSUME NEW f \in Event, RestoreSave(f) PROVE Condemned(e)
    <3>1. /\ runner.at = "restoring" /\ f \in runner.todo /\ SaveOwn(f)
          /\ runner'.todo = runner.todo \ {f} /\ runner'.current = f
      BY <2>2 DEF RestoreSave, TypeOK, RunnerRecord
    <3> QED BY <1>0, <1>2, <3>1 DEF Condemned, Restoring
  <2>3. CASE RestoreMark
    <3>1. /\ runner.at = "remarking" /\ runner'.at = "restoring" /\ runner'.todo = runner.todo
          /\ marker' \in {marker, runner.current}
      BY <2>3 DEF RestoreMark, MarkUndelivered, TypeOK, RunnerRecord
    <3> QED BY <3>1 DEF Condemned, Restoring
  <2>4. CASE RestoreDone \/ ListPending \/ Prune \/ \E f \in Event : Redeliver(f)
    <3>1. /\ marker' = marker
          /\ runner' = runner \/ runner'.at \notin {"restoring", "remarking"}
      BY <2>4 DEF RestoreDone, ListPending, Prune, Redeliver, durable, TypeOK, RunnerRecord
    <3> QED BY <1>1, <3>1
  <2>5. ASSUME NEW f \in Event, Discover(f) \/ SkipTracked(f) PROVE Condemned(e)
    <3>1. marker' = marker /\ runner' = Turned(f) /\ runner.at = "paging"
      BY <2>5 DEF Discover, SkipTracked, durable
    <3> QED BY <1>1, <3>1, TurnedPage
  <2> QED BY <1>5, <2>1, <2>2, <2>3, <2>4, <2>5 DEF RunnerStep
<1>6. CASE Environment
  <2>1. CASE Crash
    BY <1>1, <2>1 DEF Crash, durable, Stopped
  <2>2. ASSUME NEW f \in Event, InboundEvent(f) PROVE Condemned(e)
    BY <1>1, <1>2, <2>2 DEF InboundEvent
  <2>3. CASE RetryAllFailed \/ ChangeRelays \/ \E f \in Event : OperatorRetry(f)
    BY <1>1, <2>3 DEF RetryAllFailed, ChangeRelays, OperatorRetry, durable
  <2> QED BY <1>6, <2>1, <2>2, <2>3 DEF Environment
<1>7. CASE UNCHANGED vars
  BY <1>1, <1>7 DEF vars, durable
<1> QED
  BY <1>3, <1>4, <1>5, <1>6, <1>7 DEF Next

LEMMA EndRoundHonest ==
  ASSUME TypeOK, Order, Flow, NEW e \in Event, HonestOf(e),
         NEW o \in RoundOutcomes(e), EndRoundWith(e, o)
  PROVE  /\ entry[e].state = "pending" /\ entry'[e].state # "absent"
         /\ entry'[e].state = "pending" /\ proof'[e] # NoProof
              => QuorumReached(entry'[e].relays, Relay)
         /\ entry'[e].state = "failed" => proof'[e] = NoProof
         /\ Doomed(delivery'[e]) => entry'[e].state = "failed"
         /\ delivery'[e].step # "marking"
<1>1. delivery[e].step = "sending" /\ delivery'[e].step = "committed"
  BY Ended
<1>2. /\ delivery[e].conf = Relay /\ entry[e].state = "pending"
      /\ Covers(entry[e].relays, delivery[e].relays)
  BY <1>1, InFlight
<1>3. Covers(entry[e].relays, RelaysAfter(e, o))
  BY <1>2, RoundCovers DEF Covers
<1>4. proof[e] # NoProof => ReachedBy(e, o)
  BY <1>2, <1>3, MoreAccepted DEF HonestOf, ReachedBy
<1>5. CASE Commits(e, o)
  <2>1. /\ entry'[e].relays = MergeRelayDeliveries(entry[e].relays, RelaysAfter(e, o))
        /\ entry'[e].state = IF ~SettledBy(e, o) THEN "pending"
                             ELSE IF ReachedBy(e, o) THEN "published" ELSE "failed"
    BY <1>2, <1>5, CommitPending
  <2>2. proof'[e] = RecordPublisherProof(proof[e], Committed(e, o), e \in Eligible)
    BY <1>5 DEF Commits, TypeOK
  <2>3. Committed(e, o).delivered = ReachedBy(e, o)
    BY DEF Committed, RoundOf
  <2>4. proof'[e] # NoProof => ReachedBy(e, o)
    BY <1>4, <2>2, <2>3 DEF RecordPublisherProof
  <2>5. Covers(RelaysAfter(e, o), entry'[e].relays)
    BY <2>1, MergedAccepted DEF Covers
  <2>6. ReachedBy(e, o) => QuorumReached(entry'[e].relays, Relay)
    BY <1>2, <2>5, MoreAccepted DEF ReachedBy
  <2>7. Doomed(delivery'[e]) => SettledBy(e, o) /\ ~ReachedBy(e, o)
    BY Ended DEF Doomed, Abandoned
  <2> QED BY <1>1, <1>2, <2>1, <2>4, <2>6, <2>7
<1>6. CASE ~Commits(e, o)
  <2>1. /\ entry' = entry /\ proof' = proof /\ ~delivery'[e].settled
    BY <1>6, Ended DEF Skips, LosesCommit
  <2> QED BY <1>1, <1>2, <2>1 DEF HonestOf, Doomed, Abandoned
<1> QED
  BY <1>5, <1>6

(* Every other step leaves the proof alone, and creates no delivery that   *)
(* was given up on.                                                        *)
LEMMA OtherHonest ==
  ASSUME TypeOK, NEW e \in Event, HonestOf(e), Steps(e), OnceMoves(e),
         ~\E o \in RoundOutcomes(e) : EndRoundWith(e, o)
  PROVE  /\ proof'[e] = proof[e]
         /\ \/ entry'[e] = entry[e] \/ entry'[e].state = "absent"
            \/ Unsent(e) /\ ~Unsent(e)'
         /\ Doomed(delivery'[e]) => Doomed(delivery[e])
         /\ delivery'[e].step = "marking" => Abandoned(delivery'[e])
<1>1. CASE PageKept(e) /\ Same(e) /\ delivery'[e] \in {delivery[e], NoDelivery}
  BY <1>1, NoDeliveryFields DEF Same, HonestOf, Doomed
<1>2. CASE PageKept(e) /\ Same(e) /\ (Parks(e) \/ Keeps(e) \/ Begins(e))
  BY <1>2 DEF Same, Parks, Keeps, Begins, Doomed, Abandoned
<1>3. CASE PageKept(e) /\ Edits(e)
  <2>1. /\ delivery'[e] = delivery[e] /\ proof'[e] = proof[e]
        /\ \/ entry'[e] = entry[e]
           \/ entry[e].state = "absent"
           \/ entry[e].state = "failed" /\ entry'[e] = Retry(entry[e])
           \/ entry'[e] = NoEntry
    BY <1>3 DEF Edits, Enqueue
  <2>2. Retry(entry[e]).state = "pending" /\ NoEntry.state = "absent"
    BY DEF Retry, NoEntry, TypeOK, Entry
  <2> QED BY <2>1, <2>2 DEF OnceMoves, HonestOf
<1>4. CASE Same(e) /\ Lists(e)
  BY <1>4 DEF Same, Lists, HonestOf
<1> QED
  BY <1>1, <1>2, <1>3, <1>4 DEF Steps

LEMMA HonestStep ==
  ASSUME TypeOK, Order, Simple, QueuedOnly, Flow, NoRetry, [Next]_vars,
         NEW e \in Event, HonestOf(e), Steps(e)
  PROVE  HonestOf(e)' /\ NoRetry'
<1> DEFINE Lost == /\ ~Unsent(e) /\ proof[e] = NoProof
                   /\ entry[e].state \in {"failed", "absent"}
<1>1. OnceMoves(e)
  BY OnceStep DEF HonestOf
<1>2. OnceOf(e)' /\ NoRetry' /\ (Unsent(e)' => Unsent(e))
  BY <1>1 DEF OnceMoves
<1>3. Condemned(e) \/ entry[e].state = "failed" => Lost
  BY DEF HonestOf
<1>4. marker' = e \/ Restoring(e)' => Lost
  BY <1>3, MarksComeFrom
<1>5. CASE \E o \in RoundOutcomes(e) : EndRoundWith(e, o)
  <2>1. /\ entry[e].state = "pending" /\ entry'[e].state # "absent"
        /\ entry'[e].state = "pending" /\ proof'[e] # NoProof
             => QuorumReached(entry'[e].relays, Relay)
        /\ entry'[e].state = "failed" => proof'[e] = NoProof
        /\ Doomed(delivery'[e]) => entry'[e].state = "failed"
        /\ delivery'[e].step # "marking"
    BY <1>5, EndRoundHonest
  <2>2. ~Unsent(e)'
    BY <1>2, <2>1 DEF HonestOf
  <2> QED BY <1>2, <1>4, <2>1, <2>2 DEF HonestOf, Condemned
<1>6. CASE ~\E o \in RoundOutcomes(e) : EndRoundWith(e, o)
  <2>1. /\ proof'[e] = proof[e]
        /\ \/ entry'[e] = entry[e] \/ entry'[e].state = "absent"
           \/ Unsent(e) /\ ~Unsent(e)'
        /\ Doomed(delivery'[e]) => Doomed(delivery[e])
        /\ delivery'[e].step = "marking" => Abandoned(delivery'[e])
    BY <1>1, <1>6, OtherHonest
  <2>2. Lost => Lost'
    BY <1>1, <2>1 DEF OnceMoves
  <2>3. Condemned(e)' => Lost'
    BY <1>3, <1>4, <2>1, <2>2 DEF Condemned
  <2>4. Unsent(e)' => entry'[e].state = "absent" /\ proof'[e] = NoProof
    BY <1>2, <2>1 DEF HonestOf
  <2>5. CASE Unsent(e)
    BY <1>2, <2>1, <2>3, <2>4, <2>5 DEF HonestOf
  <2>6. CASE ~Unsent(e)
    BY <1>2, <2>1, <2>3, <2>4, <2>6 DEF HonestOf
  <2> QED BY <2>5, <2>6
<1> QED
  BY <1>5, <1>6

(* With queued events that are published once and not retried, and one     *)
(* relay policy, the undelivered marker is honest: no quorum's proof is    *)
(* ever committed for the event it names, in whatever order rounds, failed *)
(* commits, crashes and restorations come (deliverRound,                   *)
(* markOwnEventUndelivered, restoreUndelivered).                           *)
THEOREM MarksAreHonest ==
  ASSUME QueuedOnly, MaxRelayChanges = 0, MaxRetries = 0, MaxPublishes <= 1
  PROVE  Spec => []MarkerHonest
<1>1. Init => Honest
  <2> SUFFICES ASSUME Init, NEW e \in Event PROVE HonestOf(e) /\ NoRetry
    BY DEF Honest
  <2>1. /\ entry[e].state = "absent" /\ proof[e] = NoProof /\ delivery[e] = NoDelivery
        /\ marker = None /\ runner.at = "stopped" /\ call[e].at = "idle"
        /\ left.publishes[e] = MaxPublishes /\ left.retries = 0
    BY DEF Init, NoEntry, Stopped, NoCall
  <2>2. e # None
    BY DeliveryAssumption DEF None
  <2> QED BY <2>1, <2>2, NoDeliveryFields
          DEF HonestOf, OnceOf, NoRetry, Condemned, Doomed, Restoring
<1>2. /\ TypeOK /\ Order /\ Simple /\ OnePolicy /\ Flow /\ Honest /\ [Next]_vars
      => Honest'
  BY NextSteps, HonestStep DEF Honest
<1>3. Honest => MarkerHonest
  BY DeliveryAssumption DEF Honest, HonestOf, Condemned, MarkerHonest
<1> QED
  BY <1>1, <1>2, <1>3, FlowCorrect, TypeCorrect, PTL DEF Spec

-----------------------------------------------------------------------------
(* Answers to inline callers.  An event that is published once is before   *)
(* its call, in it, or past it.  During the call the delivery registered   *)
(* for it keeps the runner away, so its entry is pending until the         *)
(* caller's own round settles it.                                          *)

Parked(d) == /\ d.tracked /\ d.step = "idle" /\ d.holder = "none"
             /\ ~d.scheduled /\ ~d.settled

Before(e) ==
  /\ left.publishes[e] = 1 /\ call[e] = NoCall /\ told[e] # "queued"
  /\ entry[e].state = "absent" /\ delivery[e] = NoDelivery
  /\ ~(runner.at = "paging" /\ e \in runner.todo)

During(e) ==
  /\ left.publishes[e] = 0 /\ told[e] # "queued"
  /\ \/ /\ call[e].at = "admit"
        /\ entry[e].state = "absent" /\ Parked(delivery[e])
     \/ /\ call[e].at \in {"keep", "ready"}
        /\ entry[e].state = "pending" /\ Parked(delivery[e])
     \/ /\ call[e].at = "round"
        /\ delivery[e].holder = "caller" /\ delivery[e].tracked
        /\ delivery[e].step \in {"sending", "committed"}
        /\ delivery[e].step = "sending" => ~delivery[e].settled
        /\ ~delivery[e].settled => entry[e].state = "pending"

Past(e) ==
  /\ left.publishes[e] = 0 /\ call[e] = NoCall
  /\ delivery[e].holder # "caller" /\ delivery[e].step \notin OwnSteps

FirstCallOf(e) == Path[e] = "inline" => Before(e) \/ During(e) \/ Past(e)

FirstCall == \A e \in Event : FirstCallOf(e)

(* What the caller of e is told in a step.                                 *)
Answer(e) == told'[e] = "queued" /\ call'[e] # call[e] => entry[e].state = "pending"

LEMMA FirstCallFrame ==
  ASSUME NEW e \in Event, FirstCallOf(e), Path[e] = "inline",
         call'[e] = call[e], told'[e] = told[e], delivery'[e] = delivery[e],
         left'.publishes = left.publishes,
         entry[e].state \in {"absent", "pending"} => entry'[e] = entry[e],
         (runner'.at = "paging" /\ e \in runner'.todo) =>
           (runner.at = "paging" /\ e \in runner.todo) \/ entry[e].state # "absent"
  PROVE  FirstCallOf(e)' /\ Answer(e)
<1>1. Answer(e)
  BY DEF Answer
<1>2. CASE Before(e)
  BY <1>1, <1>2 DEF FirstCallOf, Before
<1>3. CASE During(e)
  BY <1>1, <1>3 DEF FirstCallOf, During
<1>4. CASE Past(e)
  BY <1>1, <1>4 DEF FirstCallOf, Past
<1> QED
  BY <1>2, <1>3, <1>4 DEF FirstCallOf

(* No step but the start of a call changes how many calls are left.        *)
LEMMA PublishesLeft ==
  ASSUME TypeOK,
         \/ left' = left
         \/ left' = [left EXCEPT !.faults = @ - 1]
         \/ left' = [left EXCEPT !.crashes = @ - 1]
         \/ left' = [left EXCEPT !.changes = @ - 1]
         \/ left' = [left EXCEPT !.retries = @ - 1]
  PROVE  left'.publishes = left.publishes
BY DEF TypeOK, Left

LEMMA RoundStepFirstCall ==
  ASSUME TypeOK, NEW f \in Event, RoundStep(f),
         NEW e \in Event, FirstCallOf(e), Path[e] = "inline"
  PROVE  FirstCallOf(e)' /\ Answer(e)
<1>0. NoDelivery.step = "idle" /\ NoCall.at = "idle" /\ entry \in [Event -> Entry]
  BY NoDeliveryFields DEF NoCall, TypeOK
<1>1. left'.publishes = left.publishes
  <2>1. left' = left \/ left' = [left EXCEPT !.faults = @ - 1]
    BY DEF RoundStep, EndRound, EndRoundWith, Fault, Conclude, ForgetOwnEvent,
           KeepAbandoned, MarkOwnEventUndelivered
  <2> QED BY <2>1, PublishesLeft
<1>2. ASSUME NEW o \in RoundOutcomes(f), EndRoundWith(f, o)
      PROVE  FirstCallOf(e)' /\ Answer(e)
  <2>1. /\ UNCHANGED <<call, told>> /\ delivery[f].step = "sending"
        /\ \A g \in Event \ {f} : delivery'[g] = delivery[g]
        /\ delivery'[f].step = "committed" /\ delivery'[f].holder = delivery[f].holder
        /\ delivery'[f].tracked = delivery[f].tracked
    BY <1>2, Ended
  <2>2. (runner'.at = "paging" /\ e \in runner'.todo) => (runner.at = "paging" /\ e \in runner.todo)
    BY <1>2, Ended, PassStoppedIdle
  <2>3. \A g \in Event \ {f} : entry'[g] = entry[g]
    BY <1>0, <1>2, Ended DEF Commits, Skips, LosesCommit
  <2>4. CASE f # e
    BY <1>1, <2>1, <2>2, <2>3, <2>4, FirstCallFrame
  <2>5. CASE f = e /\ Past(e)
    BY <1>1, <2>1, <2>5 DEF Past, FirstCallOf, Answer, OwnSteps
  <2>6. CASE f = e /\ ~Past(e)
    <3>1. During(e) /\ call[e].at = "round" /\ entry[e].state = "pending"
      BY <1>0, <2>1, <2>6 DEF FirstCallOf, Before, During, Parked
    <3>2. ~delivery'[e].settled => entry'[e].state = "pending"
      <4> SUFFICES ASSUME ~delivery'[e].settled, entry' # entry PROVE entry'[e].state = "pending"
        BY <3>1
      <4>1. Commits(e, o) /\ ~SettledBy(e, o)
        BY <1>2, <2>6, Ended DEF Skips, LosesCommit
      <4> QED BY <3>1, <4>1, CommitPending
    <3> QED BY <1>1, <2>1, <2>6, <3>1, <3>2 DEF FirstCallOf, During, Answer, Parked
  <2> QED BY <2>4, <2>5, <2>6 DEF FirstCallOf
<1>3. ASSUME Release(f), delivery[f].step \in {"committed", "marking"}, UNCHANGED <<entry, runner>>
      PROVE  FirstCallOf(e)' /\ Answer(e)
  <2>1. CASE f # e
    <3>1. delivery'[e] = delivery[e] /\ call'[e] = call[e] /\ told'[e] = told[e]
      BY <1>3, <2>1, ReleaseShape
    <3> QED BY <1>1, <1>3, <3>1, FirstCallFrame
  <2>2. CASE f = e /\ Past(e)
    <3>1. /\ delivery'[e].holder = "none" /\ delivery'[e].step = "idle"
          /\ told'[e] = told[e] /\ call'[e] = call[e]
      BY <1>0, <1>3, <2>2, ReleaseShape DEF Past
    <3> QED BY <1>1, <2>2, <3>1 DEF Past, FirstCallOf, Answer, OwnSteps
  <2>3. CASE f = e /\ ~Past(e)
    <3>1. /\ During(e) /\ delivery[e].holder = "caller"
          /\ ~delivery[e].settled => entry[e].state = "pending"
      BY <1>0, <1>3, <2>3 DEF FirstCallOf, Before, During, Parked
    <3>2. /\ call' = [call EXCEPT ![e] = NoCall]
          /\ told' = [told EXCEPT ![e] = IF delivery[e].delivered THEN "ok"
                        ELSE IF delivery[e].settled THEN "abandoned" ELSE "queued"]
      BY <1>3, <2>3, <3>1 DEF Release
    <3>3. call'[e] = NoCall /\ (told'[e] = "queued" => ~delivery[e].settled)
      BY <3>2 DEF TypeOK
    <3>4. delivery'[e].holder = "none" /\ delivery'[e].step = "idle"
      BY <1>3, <2>3, ReleaseShape
    <3> QED BY <1>1, <3>1, <3>3, <3>4 DEF During, Past, FirstCallOf, Answer, OwnSteps
  <2> QED BY <2>1, <2>2, <2>3
<1>4. CASE Conclude(f) \/ ForgetOwnEvent(f) \/ MarkOwnEventUndelivered(f)
  BY <1>3, <1>4 DEF Conclude, ForgetOwnEvent, MarkOwnEventUndelivered
<1>5. CASE KeepAbandoned(f)
  <2>1. /\ delivery[f].step = "committed" /\ delivery[f].holder = "runner"
        /\ delivery' = [delivery EXCEPT ![f].step = "marking"]
        /\ UNCHANGED <<entry, call, told, runner>>
    BY <1>5 DEF KeepAbandoned, history
  <2>2. CASE f # e
    BY <1>1, <2>1, <2>2, Stepped, FirstCallFrame
  <2>3. CASE f = e
    <3>1. Past(e)
      BY <1>0, <2>1, <2>3 DEF FirstCallOf, Before, During, Parked
    <3> QED BY <1>1, <2>1, <2>3, <3>1, Stepped DEF Past, FirstCallOf, Answer, OwnSteps
  <2> QED BY <2>2, <2>3
<1> QED
  BY <1>2, <1>4, <1>5 DEF RoundStep, EndRound

LEMMA CallStepFirstCall ==
  ASSUME TypeOK, Shape, NEW f \in Event, CallStep(f),
         NEW e \in Event, FirstCallOf(e), Path[e] = "inline"
  PROVE  FirstCallOf(e)' /\ Answer(e)
<1>0. /\ NoDelivery.step = "idle" /\ NoCall.at = "idle"
      /\ entry \in [Event -> Entry] /\ delivery \in [Event -> DeliveryRecord]
      /\ call \in [Event -> CallRecord]
      /\ told \in [Event -> {"none", "ok", "queued", "abandoned", "error"}]
      /\ left \in Left
  BY NoDeliveryFields DEF NoCall, TypeOK
<1>1. CASE f # e
  <2>1. call'[e] = call[e] /\ delivery'[e] = delivery[e] /\ told'[e] = told[e]
    BY <1>1, CallStepShape DEF Orderly
  <2>2. runner' = runner
    BY DEF CallStep, CallProgress, PublishInline, EnqueueCall, PublishBeforeCommit,
           StartCall, Admit, AdmitFails, KeepOwnEvent, CallerRound, CallerWaits, FirstRound,
           AdmitDelivered, KeepDelivered, RecordDelivered, RecordFails
  <2>3. entry'[e] = entry[e]
    <3>1. \/ entry' = entry
          \/ \E new : entry' = [entry EXCEPT ![f] = new]
      <4>1. CASE Admit(f) \/ AdmitDelivered(f) \/ RecordDelivered(f)
        BY <4>1 DEF Admit, AdmitDelivered, RecordDelivered
      <4>2. CASE ~(Admit(f) \/ AdmitDelivered(f) \/ RecordDelivered(f))
        BY <4>2 DEF CallStep, CallProgress, PublishInline, EnqueueCall,
           PublishBeforeCommit, StartCall, AdmitFails, KeepOwnEvent, CallerRound, CallerWaits,
           FirstRound, KeepDelivered, RecordFails, durable
      <4> QED BY <4>1, <4>2
    <3> QED BY <1>0, <1>1, <3>1
  <2>4. left'.publishes[e] = left.publishes[e]
    <3>1. \/ left' = left \/ left' = [left EXCEPT !.faults = @ - 1]
          \/ left' = [left EXCEPT !.publishes[f] = @ - 1]
      BY DEF CallStep, CallProgress, PublishInline, EnqueueCall, PublishBeforeCommit,
           StartCall, Admit, AdmitFails, KeepOwnEvent, CallerRound, CallerWaits, FirstRound,
           AdmitDelivered, KeepDelivered, RecordDelivered, RecordFails, Fault
    <3> QED BY <1>0, <1>1, <3>1 DEF Left
  <2> QED BY <2>1, <2>2, <2>3, <2>4 DEF FirstCallOf, Before, During, Past, Answer
<1>2. CASE f = e /\ PublishInline(e)
  <2>1. /\ call[e] = NoCall /\ left.publishes[e] > 0 /\ UNCHANGED <<told, entry>>
        /\ left' = [left EXCEPT !.publishes[e] = @ - 1] /\ StartCall(e, "admit")
        /\ delivery' = IF delivery[e].tracked THEN delivery
                       ELSE [delivery EXCEPT ![e] = NewDelivery]
    BY <1>2 DEF PublishInline, StartCall, durable, history
  <2>2. Before(e)
    BY <1>0, <2>1 DEF FirstCallOf, During, Past
  <2>3. left'.publishes[e] = 0 /\ call'[e].at = "admit"
    <3>1. left'.publishes[e] = left.publishes[e] - 1
      BY <1>0, <2>1 DEF Left
    <3> QED BY <2>1, <2>2, <3>1, StartCallShape DEF Before
  <2>4. delivery'[e] = NewDelivery
    BY <1>0, <2>1, <2>2, NoDeliveryFields DEF Before
  <2>5. Parked(NewDelivery)
    BY DEF Parked, NewDelivery, NoDelivery
  <2> QED BY <1>2, <2>1, <2>2, <2>3, <2>4, <2>5 DEF Before, During, FirstCallOf, Answer
<1>3. CASE f = e /\ Admit(e)
  <2>1. /\ call[e].at = "admit" /\ entry'[e] = Enqueue(entry[e], NewEntry)
        /\ call'[e].at = "keep" /\ UNCHANGED <<delivery, told, left>>
    BY <1>0, <1>3 DEF Admit, history, CallRecord
  <2>2. During(e) /\ entry[e].state = "absent" /\ Parked(delivery[e])
    BY <1>0, <2>1 DEF FirstCallOf, Before, During, Past
  <2>3. entry'[e].state = "pending"
    BY <2>1, <2>2 DEF Enqueue, NewEntry, NoEntry
  <2> QED BY <2>1, <2>2, <2>3 DEF During, FirstCallOf, Answer
<1>4. CASE f = e /\ AdmitFails(e)
  <2>1. /\ call[e].at = "admit" /\ call'[e] = NoCall /\ told'[e] = "error"
        /\ left' = [left EXCEPT !.faults = @ - 1]
        /\ delivery'[e] = delivery[e] \/ delivery'[e] = NoDelivery
    BY <1>0, <1>4 DEF AdmitFails, Fault
  <2>2. During(e) /\ Parked(delivery[e])
    BY <1>0, <2>1 DEF FirstCallOf, Before, During, Past
  <2>3. delivery'[e].holder = "none" /\ delivery'[e].step = "idle"
    BY <2>1, <2>2, NoDeliveryFields DEF Parked
  <2>4. left'.publishes = left.publishes
    BY <2>1, PublishesLeft
  <2> QED BY <2>1, <2>2, <2>3, <2>4 DEF During, Past, FirstCallOf, Answer, OwnSteps
<1>5. CASE f = e /\ KeepOwnEvent(e)
  <2>1. /\ call[e].at = "keep" /\ call' = [call EXCEPT ![e].at = "ready"]
        /\ UNCHANGED <<delivery, told, left, entry>>
    BY <1>5 DEF KeepOwnEvent
  <2>2. call'[e].at = "ready"
    BY <1>0, <2>1 DEF CallRecord
  <2>3. During(e) /\ entry[e].state = "pending" /\ Parked(delivery[e])
    BY <1>0, <2>1 DEF FirstCallOf, Before, During, Past
  <2> QED BY <2>1, <2>2, <2>3 DEF During, FirstCallOf, Answer
<1>6. CASE f = e /\ CallerRound(e)
  <2>1. call[e].at \in {"ready", "waiting"}
    BY <1>6 DEF CallerRound
  <2>2. During(e) /\ entry[e].state = "pending" /\ Parked(delivery[e])
    BY <1>0, <2>1 DEF FirstCallOf, Before, During, Past
  <2>3. /\ BeginRound(e, "caller", delivery[e]) /\ call' = [call EXCEPT ![e].at = "round"]
        /\ UNCHANGED <<told, left, entry>>
    BY <1>6, <2>2 DEF CallerRound, durable, history, Parked
  <2>4. call'[e].at = "round"
    BY <1>0, <2>3 DEF CallRecord
  <2>5. /\ delivery'[e].holder = "caller" /\ delivery'[e].step = "sending"
        /\ delivery'[e].tracked /\ ~delivery'[e].settled
    BY <1>0, <2>2, <2>3, Begun DEF Parked
  <2> QED BY <2>2, <2>3, <2>4, <2>5 DEF During, FirstCallOf, Answer
<1>7. CASE f = e /\ CallerWaits(e)
  BY <1>0, <1>7 DEF CallerWaits, FirstCallOf, Before, During, Past, Parked
<1>8. CASE /\ f = e
           /\ \/ EnqueueCall(e) \/ PublishBeforeCommit(e) \/ FirstRound(e)
              \/ AdmitDelivered(e) \/ KeepDelivered(e) \/ RecordDelivered(e) \/ RecordFails(e)
  BY <1>0, <1>8 DEF EnqueueCall, PublishBeforeCommit, FirstRound, AdmitDelivered,
         KeepDelivered, RecordDelivered, RecordFails, FirstCallOf, Before, During, Past,
         Parked, OwnSteps
<1> QED
  BY <1>1, <1>2, <1>3, <1>4, <1>5, <1>6, <1>7, <1>8 DEF CallStep, CallProgress

LEMMA RunnerStepFirstCall ==
  ASSUME TypeOK, RunnerStep, NEW e \in Event, FirstCallOf(e), Path[e] = "inline"
  PROVE  FirstCallOf(e)' /\ Answer(e)
<1>0. UNCHANGED <<call, told, left>>
  BY DEF RunnerStep, RunnerStart, RestoreMark, RestoreDone, ListPending, Prune,
         RestoreSave, Redeliver, Discover, SkipTracked, history
<1>1. CASE RunnerStart \/ RestoreMark \/ RestoreDone \/ \E f \in Event : RestoreSave(f)
  <2>1. UNCHANGED <<delivery, entry>> /\ runner'.at # "paging"
    BY <1>1 DEF RunnerStart, RestoreMark, RestoreDone, RestoreSave, durable, TypeOK, RunnerRecord
  <2> QED BY <1>0, <2>1, FirstCallFrame
<1>2. CASE ListPending
  <2>1. /\ UNCHANGED <<delivery, entry>>
        /\ runner'.todo = {f \in Event : entry[f].state = "pending"}
    BY <1>2 DEF ListPending, durable, TypeOK, RunnerRecord
  <2> QED BY <1>0, <2>1, FirstCallFrame
<1>3. CASE Prune
  <2>1. UNCHANGED <<delivery, runner>>
    BY <1>3 DEF Prune
  <2>2. entry[e].state \in {"absent", "pending"} => entry'[e] = entry[e]
    BY <1>3 DEF Prune, Settled
  <2> QED BY <1>0, <2>1, <2>2, FirstCallFrame
<1>4. ASSUME NEW f \in Event, NEW d \in DeliveryRecord, BeginRound(f, "runner", d),
             entry' = entry,
             (runner'.at = "paging" /\ e \in runner'.todo) => (runner.at = "paging" /\ e \in runner.todo),
             f = e => Past(e)
      PROVE  FirstCallOf(e)' /\ Answer(e)
  <2>1. CASE f # e
    <3>1. delivery'[e] = delivery[e]
      BY <1>4, <2>1, Begun
    <3> QED BY <1>0, <1>4, <3>1, FirstCallFrame
  <2>2. CASE f = e
    <3>1. delivery'[e].holder = "runner" /\ delivery'[e].step = "sending"
      BY <1>4, <2>2, Begun
    <3> QED BY <1>0, <1>4, <2>2, <3>1 DEF Past, FirstCallOf, Answer, OwnSteps
  <2> QED BY <2>1, <2>2
<1>5. ASSUME NEW f \in Event, Redeliver(f)
      PROVE  FirstCallOf(e)' /\ Answer(e)
  <2>1. /\ delivery[f].tracked /\ delivery[f].scheduled /\ delivery[f].step = "idle"
        /\ BeginRound(f, "runner", delivery[f]) /\ UNCHANGED <<entry, runner>>
        /\ delivery[f] \in DeliveryRecord
    BY <1>5 DEF Redeliver, durable, TypeOK
  <2>2. f = e => Past(e)
    BY <2>1, NoDeliveryFields DEF FirstCallOf, Before, During, Parked
  <2> QED BY <1>4, <2>1, <2>2
<1>6. ASSUME NEW f \in Event, Discover(f)
      PROVE  FirstCallOf(e)' /\ Answer(e)
  <2>1. /\ runner.at = "paging" /\ f \in runner.todo /\ ~delivery[f].tracked
        /\ runner' = Turned(f) /\ BeginRound(f, "runner", Found(f)) /\ entry' = entry
    BY <1>6 DEF Discover, durable, Found
  <2>2. f = e => Past(e)
    BY <2>1 DEF FirstCallOf, Before, During, Parked
  <2> QED BY <1>4, <2>1, <2>2, FoundFields, TurnedPage
<1>7. ASSUME NEW f \in Event, SkipTracked(f)
      PROVE  FirstCallOf(e)' /\ Answer(e)
  <2>1. /\ runner.at = "paging" /\ runner' = Turned(f) /\ UNCHANGED <<delivery, entry>>
    BY <1>7 DEF SkipTracked, durable
  <2> QED BY <1>0, <2>1, TurnedPage, FirstCallFrame
<1> QED
  BY <1>1, <1>2, <1>3, <1>5, <1>6, <1>7 DEF RunnerStep

LEMMA EnvironmentFirstCall ==
  ASSUME TypeOK, Environment, NEW e \in Event, FirstCallOf(e), Path[e] = "inline"
  PROVE  FirstCallOf(e)' /\ Answer(e)
<1>1. left'.publishes = left.publishes
  <2>1. \/ left' = left
        \/ left' = [left EXCEPT !.crashes = @ - 1]
        \/ left' = [left EXCEPT !.changes = @ - 1]
        \/ left' = [left EXCEPT !.retries = @ - 1]
    BY DEF Environment, RetryAllFailed, ChangeRelays, Crash, OperatorRetry, InboundEvent
  <2> QED BY <2>1, PublishesLeft
<1>2. CASE Crash
  <2>1. /\ delivery'[e] = NoDelivery /\ call'[e] = NoCall /\ runner'.at = "stopped"
        /\ UNCHANGED <<entry, told>>
    BY <1>2 DEF Crash, durable, history, Stopped
  <2>2. CASE Before(e)
    BY <1>1, <2>1, <2>2 DEF Before, FirstCallOf, Answer
  <2>3. CASE During(e) \/ Past(e)
    BY <1>1, <2>1, <2>3, NoDeliveryFields DEF During, Past, FirstCallOf, Answer, OwnSteps
  <2> QED BY <2>2, <2>3 DEF FirstCallOf
<1>3. CASE ~Crash
  <2>1. UNCHANGED <<delivery, call, told, runner>>
    BY <1>3 DEF Environment, RetryAllFailed, ChangeRelays, OperatorRetry, InboundEvent, history
  <2>2. entry[e].state \in {"absent", "pending"} => entry'[e] = entry[e]
    <3>1. entry'[e] = entry[e] \/ entry[e].state = "failed"
      BY <1>3 DEF Environment, RetryAllFailed, ChangeRelays, OperatorRetry, InboundEvent,
                  durable, TypeOK
    <3> QED BY <3>1
  <2> QED BY <1>1, <2>1, <2>2, FirstCallFrame
<1> QED
  BY <1>2, <1>3

(* When an event is published once, an inline caller that is told its      *)
(* event is queued (ErrPublishIncomplete) leaves a pending entry behind,   *)
(* whatever the runner, other events, faults, policy changes and crashes   *)
(* did meanwhile (enqueueAndDeliver, trackDelivery, deliverRound).         *)
THEOREM QueuedAnswersAreDurable ==
  ASSUME MaxPublishes <= 1
  PROVE  Spec => QueuedIsDurable
<1>1. Init => FirstCall
  <2> SUFFICES ASSUME Init, NEW e \in Event PROVE FirstCallOf(e)
    BY DEF FirstCall
  <2>1. /\ entry[e].state = "absent" /\ delivery[e] = NoDelivery /\ runner.at = "stopped"
        /\ call[e] = NoCall /\ told[e] = "none" /\ left.publishes[e] = MaxPublishes
    BY DEF Init, NoEntry, Stopped
  <2>2. MaxPublishes \in {0, 1}
    BY DeliveryAssumption
  <2> QED BY <2>1, <2>2, NoDeliveryFields DEF FirstCallOf, Before, Past, OwnSteps
<1>2. ASSUME TypeOK, Shape, [Next]_vars, FirstCall, NEW e \in Event
      PROVE  FirstCallOf(e)' /\ (Path[e] = "inline" => Answer(e))
  <2>0. FirstCallOf(e)
    BY <1>2 DEF FirstCall
  <2>1. CASE Path[e] # "inline"
    BY <2>1 DEF FirstCallOf
  <2>2. CASE Path[e] = "inline" /\ UNCHANGED vars
    BY <2>0, <2>2, FirstCallFrame DEF vars, durable, history
  <2>3. CASE Path[e] = "inline" /\ Next
    BY <1>2, <2>0, <2>3, RoundStepFirstCall, CallStepFirstCall, RunnerStepFirstCall,
       EnvironmentFirstCall DEF Next
  <2> QED BY <1>2, <2>1, <2>2, <2>3
<1>3. TypeOK /\ Shape /\ FirstCall /\ [Next]_vars => FirstCall'
  BY <1>2 DEF FirstCall
<1>4. TypeOK /\ Shape /\ FirstCall /\ [Next]_vars
        => [\A e \in Event : Path[e] = "inline" /\ told'[e] = "queued" /\ call'[e] # call[e] =>
              entry[e].state = "pending"]_<<told, call>>
  BY <1>2 DEF Answer
<1> QED
  BY <1>1, <1>3, <1>4, TypeCorrect, ShapeCorrect, PTL DEF Spec, QueuedIsDurable
=============================================================================
