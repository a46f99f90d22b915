---------------------------- MODULE DeliveryProofs --------------------------
(***************************************************************************)
(* Proofs about Delivery, for every set of relays and events and every     *)
(* quorum, budget and bound.                                               *)
(***************************************************************************)
EXTENDS Delivery, FiniteSetTheorems, TLAPS

-----------------------------------------------------------------------------
(* Types of the operators the actions are built from.                      *)

LEMMA RequiredType ==
  ASSUME NEW n \in Nat
  PROVE  /\ RequiredAcceptances(n) \in Nat
         /\ RequiredAcceptances(n) <= n
         /\ n > 0 => RequiredAcceptances(n) > 0
BY DeliveryAssumption DEF RequiredAcceptances

LEMMA RelaySubsetFinite ==
  ASSUME NEW S \in SUBSET Relay
  PROVE  IsFiniteSet(S) /\ Cardinality(S) \in Nat
BY RelayAssumption, FS_Subset, FS_CardinalityType

LEMMA FreshType == Fresh \in [Relay -> RelayStatus]
BY DEF Fresh, RelayStatus

LEMMA EntryTypes == NoEntry \in Entry /\ NewEntry \in Entry
BY FreshType DEF NoEntry, NewEntry, Entry, NoPolicy, Policy

LEMMA ApplyRoundType ==
  ASSUME NEW relays \in [Relay -> RelayStatus], NEW o
  PROVE  ApplyRound(relays, o) \in [Relay -> RelayStatus]
BY DEF ApplyRound, ClassifyPublishResult, RelayStatus

LEMMA SyncRelaysType ==
  ASSUME NEW relays \in [Relay -> RelayStatus], NEW conf
  PROVE  SyncRelays(relays, conf) \in [Relay -> RelayStatus]
BY DEF SyncRelays, RelayStatus

LEMMA RoundOfType ==
  ASSUME NEW conf \in SUBSET Relay, NEW rounds \in Nat,
         NEW relays \in [Relay -> RelayStatus],
         NEW delivered \in BOOLEAN, NEW settled \in BOOLEAN
  PROVE  RoundOf(conf, rounds, relays, delivered, settled) \in Round
BY RelaySubsetFinite, RequiredType DEF RoundOf, Round, Policy

LEMMA CommitRoundType ==
  ASSUME NEW en \in Entry, NEW rd \in Round
  PROVE  CommitRound(en, rd) \in Entry
<1>1. MergeRelayDeliveries(en.relays, rd.relays) \in [Relay -> RelayStatus]
  BY DEF MergeRelayDeliveries, MergeStatus, Entry, Round
<1> QED
  BY <1>1 DEF CommitRound, Entry, Round

LEMMA RecordProofType ==
  ASSUME NEW pf \in Proof, NEW rd \in Round, NEW eligible
  PROVE  RecordPublisherProof(pf, rd, eligible) \in Proof
BY DEF RecordPublisherProof, CanonicalDeliveryProof, Proof, Round, Policy

LEMMA DeliveryTypes ==
  NoDelivery \in DeliveryRecord /\ NewDelivery \in DeliveryRecord
BY FreshType DEF NoDelivery, NewDelivery, DeliveryRecord, Step

LEMMA VerdictType ==
  ASSUME NEW relays \in [Relay -> RelayStatus], NEW conf \in SUBSET Relay, NEW rounds \in Nat
  PROVE  /\ QuorumReached(relays, conf) \in BOOLEAN
         /\ RoundSettles(relays, conf, rounds) \in BOOLEAN
BY DEF QuorumReached, RoundSettles

LEMMA CountRoundType ==
  ASSUME NEW n \in Nat
  PROVE  CountRound(n) \in Nat
BY DEF CountRound

LEMMA BeginRoundType ==
  ASSUME TypeOK, NEW e \in Event, NEW who \in {"caller", "runner"},
         NEW d \in DeliveryRecord, BeginRound(e, who, d)
  PROVE  delivery' \in [Event -> DeliveryRecord]
<1> DEFINE d1 == [d EXCEPT !.holder = who, !.step = "sending", !.conf = writeRelays,
                           !.relays = SyncRelays(d.relays, writeRelays), !.scheduled = FALSE]
<1>1. SyncRelays(d.relays, writeRelays) \in [Relay -> RelayStatus]
  BY SyncRelaysType DEF DeliveryRecord
<1>2. d1 \in DeliveryRecord
  BY <1>1 DEF DeliveryRecord, Step, TypeOK
<1>3. delivery' = [delivery EXCEPT ![e] = d1]
  BY DEF BeginRound
<1> HIDE DEF d1
<1> QED
  BY <1>2, <1>3 DEF TypeOK

LEMMA ReleaseType ==
  ASSUME TypeOK, NEW e \in Event, Release(e)
  PROVE  /\ delivery' \in [Event -> DeliveryRecord]
         /\ call' \in [Event -> CallRecord]
         /\ told' \in [Event -> {"none", "ok", "queued", "abandoned", "error"}]
<1> DEFINE d == delivery[e]
           open == [d EXCEPT !.holder = "none", !.step = "idle", !.conf = {},
                             !.announce = FALSE, !.scheduled = TRUE]
<1>1. open \in DeliveryRecord
  <2>1. d \in DeliveryRecord
    BY DEF TypeOK
  <2> HIDE DEF d
  <2> QED BY <2>1 DEF DeliveryRecord, Step
<1>2. NoCall \in CallRecord
  BY DEF NoCall, CallRecord
<1>3. delivery' \in [Event -> DeliveryRecord]
  <2>1. \/ delivery' = [delivery EXCEPT ![e] = NoDelivery]
        \/ delivery' = [delivery EXCEPT ![e] = open]
    BY DEF Release
  <2> HIDE DEF open
  <2> QED
    BY <1>1, <2>1, DeliveryTypes DEF TypeOK
<1>4. call' \in [Event -> CallRecord]
  BY <1>2 DEF Release, TypeOK
<1>5. told' \in [Event -> {"none", "ok", "queued", "abandoned", "error"}]
  BY DEF Release, TypeOK
<1> QED
  BY <1>3, <1>4, <1>5

LEMMA NextStepType ==
  ASSUME TypeOK, NEW e \in Event, NEW st \in Step,
         delivery' = [delivery EXCEPT ![e].step = st]
  PROVE  delivery' \in [Event -> DeliveryRecord]
<1> DEFINE d == delivery[e]
           d1 == [d EXCEPT !.step = st]
<1>1. d \in DeliveryRecord
  BY DEF TypeOK
<1>2. d1 \in DeliveryRecord
  <2> HIDE DEF d
  <2> QED BY <1>1 DEF DeliveryRecord
<1>3. delivery' = [delivery EXCEPT ![e] = d1]
  BY DEF TypeOK
<1> HIDE DEF d1
<1> QED
  BY <1>2, <1>3 DEF TypeOK

LEMMA SaveOwnType ==
  ASSUME TypeOK, NEW e \in Event, SaveOwn(e)
  PROVE  store' \in Event \cup {None} /\ marker' \in Event \cup {None}
BY DEF TypeOK, SaveOwn, SaveEvent, ClearSuperseded

-----------------------------------------------------------------------------
(* Type correctness, action by action.                                     *)

LEMMA EndRoundType ==
  ASSUME TypeOK, NEW e \in Event, NEW o \in RoundOutcomes(e), EndRoundWith(e, o)
  PROVE  TypeOK'
<1> DEFINE d         == delivery[e]
           relays    == ApplyRound(d.relays, o)
           rounds    == IF Countable(o) THEN CountRound(d.rounds) ELSE d.rounds
           delivered == QuorumReached(relays, d.conf)
           settled   == RoundSettles(relays, d.conf, rounds)
           rd        == RoundOf(d.conf, rounds, relays, delivered, settled)
           after(ok) == [d EXCEPT !.step = "committed", !.rounds = rounds, !.relays = relays,
                                  !.settled = settled /\ ok, !.delivered = delivered,
                                  !.reported = d.reported \/ (ok /\ delivered),
                                  !.announce = ok /\ delivered /\ ~d.reported]
<1>1. d \in DeliveryRecord
  BY DEF TypeOK
<1>2. /\ d.conf \in SUBSET Relay /\ d.relays \in [Relay -> RelayStatus]
      /\ d.rounds \in Nat /\ d.reported \in BOOLEAN
  BY <1>1 DEF DeliveryRecord
<1>3. relays \in [Relay -> RelayStatus]
  BY <1>2, ApplyRoundType
<1>4. rounds \in Nat
  BY <1>2, CountRoundType
<1>5. delivered \in BOOLEAN /\ settled \in BOOLEAN
  <2> HIDE DEF relays, rounds
  <2> QED BY <1>2, <1>3, <1>4, VerdictType
<1>6. rd \in Round
  <2> HIDE DEF relays, rounds, delivered, settled
  <2> QED BY <1>2, <1>3, <1>4, <1>5, RoundOfType
<1>7. ASSUME NEW ok \in BOOLEAN PROVE after(ok) \in DeliveryRecord
  <2> DEFINE a == settled /\ ok
             b == d.reported \/ (ok /\ delivered)
             c == ok /\ delivered /\ ~d.reported
  <2>1. a \in BOOLEAN /\ b \in BOOLEAN /\ c \in BOOLEAN
    OBVIOUS
  <2>2. after(ok) = [d EXCEPT !.step = "committed", !.rounds = rounds, !.relays = relays,
                              !.settled = a, !.delivered = delivered,
                              !.reported = b, !.announce = c]
    OBVIOUS
  <2> DEFINE d1 == [d EXCEPT !.step = "committed", !.rounds = rounds, !.relays = relays]
             d2 == [d1 EXCEPT !.settled = a, !.delivered = delivered]
             d3 == [d2 EXCEPT !.reported = b, !.announce = c]
  <2>3. after(ok) = d3
    BY <2>2
  <2> HIDE DEF a, b, c, relays, rounds, delivered, settled, d, after
  <2>4. d1 \in DeliveryRecord
    BY <1>1, <1>3, <1>4 DEF DeliveryRecord, Step
  <2> HIDE DEF d1
  <2>5. d2 \in DeliveryRecord
    BY <1>5, <2>1, <2>4 DEF DeliveryRecord
  <2> HIDE DEF d2
  <2>6. d3 \in DeliveryRecord
    BY <2>1, <2>5 DEF DeliveryRecord
  <2> QED BY <2>3, <2>6
<1>8. delivery' \in [Event -> DeliveryRecord]
  <2>1. delivery' = [delivery EXCEPT ![e] = after(TRUE)]
          \/ delivery' = [delivery EXCEPT ![e] = after(FALSE)]
    BY DEF EndRoundWith
  <2> HIDE DEF after
  <2> QED BY <2>1, <1>7 DEF TypeOK
<1>9. entry' \in [Event -> Entry] /\ proof' \in [Event -> Proof]
  <2>1. \/ UNCHANGED <<entry, proof>>
        \/ /\ entry' = [entry EXCEPT ![e] = CommitRound(@, rd)]
           /\ proof' = [proof EXCEPT ![e] = RecordPublisherProof(@, rd, e \in Eligible)]
    BY DEF EndRoundWith
  <2> HIDE DEF rd
  <2>a. entry[e] \in Entry /\ proof[e] \in Proof
    BY DEF TypeOK
  <2>2. CommitRound(entry[e], rd) \in Entry
    BY <1>6, <2>a, CommitRoundType
  <2>3. RecordPublisherProof(proof[e], rd, e \in Eligible) \in Proof
    BY <1>6, <2>a, RecordProofType
  <2> HIDE DEF rd
  <2> QED BY <2>1, <2>2, <2>3 DEF TypeOK
<1>10. acked' \in [Event -> SUBSET Relay]
  <2>1. OKs(o) \in SUBSET Relay
    BY <1>2 DEF OKs, RoundOutcomes, Outcomes, RetryableRelays
  <2>2. acked' = [acked EXCEPT ![e] = @ \cup OKs(o)]
    BY DEF EndRoundWith
  <2> QED BY <2>1, <2>2 DEF TypeOK
<1>11. tried' \in [Event -> Nat]
  <2>1. tried' = tried \/ tried' = [tried EXCEPT ![e] = CountRound(@)]
    BY DEF EndRoundWith
  <2> QED BY <2>1, CountRoundType DEF TypeOK
<1>12. left' \in Left
  <2>1. UNCHANGED left \/ Fault
    BY DEF EndRoundWith
  <2> QED BY <2>1 DEF TypeOK, Left, Fault
<1>13. runner' \in RunnerRecord
  <2>1. UNCHANGED runner \/ runner' = PassStopped
    BY DEF EndRoundWith
  <2>2. NoPage \in [Event -> Entry]
    BY EntryTypes DEF NoPage
  <2>3. runner \in RunnerRecord
    BY DEF TypeOK
  <2>4. PassStopped \in RunnerRecord
    BY <2>2, <2>3 DEF RunnerRecord, PassStopped
  <2> QED BY <2>1, <2>3, <2>4
<1>14. UNCHANGED <<store, marker, call, writeRelays, told, notified>>
  BY DEF EndRoundWith
<1> QED
  BY <1>8, <1>9, <1>10, <1>11, <1>12, <1>13, <1>14 DEF TypeOK

LEMMA RoundStepType ==
  ASSUME TypeOK, NEW e \in Event, RoundStep(e)
  PROVE  TypeOK'
<1>1. CASE EndRound(e)
  BY <1>1, EndRoundType DEF EndRound
<1>2. CASE Conclude(e)
  <2>1. Release(e)
    BY <1>2 DEF Conclude
  <2>2. /\ marker' \in Event \cup {None}
        /\ notified' \in SUBSET Event
        /\ UNCHANGED <<entry, proof, store, runner, writeRelays, left, acked, tried>>
    BY <1>2 DEF Conclude, ClearUndelivered, TypeOK
  <2> QED BY <2>1, <2>2, ReleaseType DEF TypeOK
<1>3. CASE ForgetOwnEvent(e)
  <2>1. Release(e)
    BY <1>3 DEF ForgetOwnEvent
  <2>2. /\ store' \in Event \cup {None}
        /\ UNCHANGED <<entry, proof, marker, runner, writeRelays, left, acked, notified, tried>>
    BY <1>3 DEF ForgetOwnEvent, DeleteEvent, TypeOK
  <2> QED BY <2>1, <2>2, ReleaseType DEF TypeOK
<1>4. CASE KeepAbandoned(e)
  <2>1. store' \in Event \cup {None} /\ marker' \in Event \cup {None}
    BY <1>4, SaveOwnType DEF KeepAbandoned
  <2>2. delivery' \in [Event -> DeliveryRecord]
    BY <1>4, NextStepType DEF KeepAbandoned, Step
  <2> QED BY <1>4, <2>1, <2>2 DEF KeepAbandoned, TypeOK, history
<1>5. CASE MarkOwnEventUndelivered(e)
  <2>1. Release(e)
    BY <1>5 DEF MarkOwnEventUndelivered
  <2>2. /\ marker' \in Event \cup {None}
        /\ UNCHANGED <<entry, proof, store, runner, writeRelays, left, acked, notified, tried>>
    BY <1>5 DEF MarkOwnEventUndelivered, MarkUndelivered, TypeOK
  <2> QED BY <2>1, <2>2, ReleaseType DEF TypeOK
<1> QED
  BY <1>1, <1>2, <1>3, <1>4, <1>5 DEF RoundStep

LEMMA StartCallType ==
  ASSUME TypeOK, NEW e \in Event, NEW at \in {"admit", "first"}, StartCall(e, at)
  PROVE  /\ left' \in Left
         /\ call' \in [Event -> CallRecord]
         /\ UNCHANGED <<durable, runner, writeRelays, history>>
<1>1. left' \in Left
  BY DEF StartCall, TypeOK, Left
<1>2. call' \in [Event -> CallRecord]
  BY DEF StartCall, TypeOK, CallRecord
<1> QED
  BY <1>1, <1>2 DEF StartCall

LEMMA CallStepType ==
  ASSUME TypeOK, NEW e \in Event, CallStep(e)
  PROVE  TypeOK'
<1> USE DEF durable, history
<1>1. CASE PublishInline(e)
  <2>1. delivery' \in [Event -> DeliveryRecord]
    BY <1>1, DeliveryTypes DEF PublishInline, TypeOK
  <2>2. StartCall(e, "admit")
    BY <1>1 DEF PublishInline
  <2> QED BY <2>1, <2>2, StartCallType DEF TypeOK
<1>2. CASE EnqueueCall(e)
  BY <1>2, StartCallType DEF EnqueueCall, TypeOK
<1>3. CASE PublishBeforeCommit(e)
  BY <1>3, StartCallType DEF PublishBeforeCommit, TypeOK
<1>4. CASE Admit(e)
  <2>1. entry' \in [Event -> Entry]
    BY <1>4, EntryTypes DEF Admit, Enqueue, TypeOK
  <2>2. call' \in [Event -> CallRecord]
    BY <1>4 DEF Admit, TypeOK, CallRecord
  <2> QED BY <1>4, <2>1, <2>2 DEF Admit, TypeOK
<1>5. CASE AdmitFails(e)
  <2>1. left' \in Left
    BY <1>5 DEF AdmitFails, Fault, TypeOK, Left
  <2>2. delivery' \in [Event -> DeliveryRecord]
    BY <1>5, DeliveryTypes DEF AdmitFails, TypeOK
  <2>3. call' \in [Event -> CallRecord]
    BY <1>5 DEF AdmitFails, TypeOK, CallRecord, NoCall
  <2> QED BY <1>5, <2>1, <2>2, <2>3 DEF AdmitFails, TypeOK
<1>6. CASE KeepOwnEvent(e)
  <2>1. store' \in Event \cup {None} /\ marker' \in Event \cup {None}
    BY <1>6, SaveOwnType DEF KeepOwnEvent
  <2>2. call' \in [Event -> CallRecord]
    BY <1>6 DEF KeepOwnEvent, TypeOK, CallRecord, NoCall
  <2> QED BY <1>6, <2>1, <2>2 DEF KeepOwnEvent, TypeOK
<1>7. CASE CallerRound(e)
  <2>1. delivery' \in [Event -> DeliveryRecord]
    BY <1>7, BeginRoundType, DeliveryTypes DEF CallerRound, TypeOK
  <2>2. call' \in [Event -> CallRecord]
    BY <1>7 DEF CallerRound, TypeOK, CallRecord
  <2> QED BY <1>7, <2>1, <2>2 DEF CallerRound, TypeOK
<1>8. CASE CallerWaits(e)
  <2>1. call' \in [Event -> CallRecord]
    BY <1>8 DEF CallerWaits, TypeOK, CallRecord
  <2> QED BY <1>8, <2>1 DEF CallerWaits, TypeOK
<1>9. CASE FirstRound(e)
  <2>1. PICK o \in Outcomes(Fresh, call[e].conf) :
          LET conf   == call[e].conf
              relays == ApplyRound(Fresh, o)
          IN  /\ acked' = [acked EXCEPT ![e] = @ \cup OKs(o)]
              /\ \/ /\ call' = [call EXCEPT ![e] = NoCall]
                    /\ told' = [told EXCEPT ![e] =
                         IF QuorumReached(relays, conf) /\ proof[e] # NoProof
                         THEN "ok" ELSE "error"]
                    /\ UNCHANGED <<delivery, tried>>
                 \/ /\ delivery' = [delivery EXCEPT ![e] =
                         [NewDelivery EXCEPT !.holder = "caller", !.step = "admitting",
                            !.conf = conf, !.rounds = 1, !.relays = relays,
                            !.delivered = TRUE]]
                    /\ call' = [call EXCEPT ![e] = [at |-> "round", conf |-> {}]]
                    /\ tried' = [tried EXCEPT ![e] = CountRound(@)]
                    /\ UNCHANGED told
    BY <1>9 DEF FirstRound
  <2> DEFINE relays == ApplyRound(Fresh, o)
             d1 == [NewDelivery EXCEPT !.holder = "caller", !.step = "admitting",
                      !.conf = call[e].conf, !.rounds = 1, !.relays = relays,
                      !.delivered = TRUE]
  <2>2. relays \in [Relay -> RelayStatus] /\ call[e].conf \in SUBSET Relay
    BY FreshType, ApplyRoundType DEF TypeOK, CallRecord
  <2>3. d1 \in DeliveryRecord
    BY <2>2, DeliveryTypes DEF DeliveryRecord, Step
  <2>4. acked' \in [Event -> SUBSET Relay]
    BY <2>1, <2>2 DEF OKs, Outcomes, TypeOK
  <2>5. call' \in [Event -> CallRecord]
    BY <2>1 DEF NoCall, CallRecord, TypeOK
  <2>6. delivery' \in [Event -> DeliveryRecord] /\ tried' \in [Event -> Nat]
    <3>1. \/ UNCHANGED <<delivery, tried>>
          \/ /\ delivery' = [delivery EXCEPT ![e] = d1]
             /\ tried' = [tried EXCEPT ![e] = CountRound(@)]
      BY <2>1
    <3> HIDE DEF d1
    <3> QED BY <3>1, <2>3, CountRoundType DEF TypeOK
  <2>7. told' \in [Event -> {"none", "ok", "queued", "abandoned", "error"}]
    BY <2>1 DEF TypeOK
  <2> HIDE DEF d1, relays
  <2> QED BY <1>9, <2>4, <2>5, <2>6, <2>7 DEF FirstRound, TypeOK
<1>10. CASE AdmitDelivered(e)
  <2> DEFINE d  == delivery[e]
             rd == RoundOf(d.conf, d.rounds, d.relays, TRUE, FALSE)
             en == [state |-> "pending", rounds |-> rd.rounds, delivered |-> TRUE,
                    relays |-> rd.relays, policy |-> rd.policy]
  <2>1. rd \in Round
    BY RoundOfType DEF TypeOK, DeliveryRecord
  <2>2. en \in Entry
    <3> HIDE DEF rd
    <3> QED BY <2>1 DEF Entry, Round
  <2>3. entry' = [entry EXCEPT ![e] = Enqueue(@, en)]
    BY <1>10 DEF AdmitDelivered
  <2>4. entry' \in [Event -> Entry]
    <3> HIDE DEF en
    <3> QED BY <2>2, <2>3 DEF Enqueue, TypeOK
  <2>5. delivery' \in [Event -> DeliveryRecord]
    BY <1>10, NextStepType DEF AdmitDelivered, Step
  <2> QED BY <1>10, <2>4, <2>5 DEF AdmitDelivered, TypeOK
<1>11. CASE KeepDelivered(e)
  <2>1. store' \in Event \cup {None} /\ marker' \in Event \cup {None}
    BY <1>11, SaveOwnType DEF KeepDelivered
  <2>2. delivery' \in [Event -> DeliveryRecord]
    BY <1>11, NextStepType DEF KeepDelivered, Step
  <2> QED BY <1>11, <2>1, <2>2 DEF KeepDelivered, TypeOK
<1>12. CASE RecordDelivered(e)
  <2> DEFINE d       == delivery[e]
             settled == RetryableRelays(d.relays, d.conf) = {}
             rd      == RoundOf(d.conf, d.rounds, d.relays, TRUE, settled)
             open    == [d EXCEPT !.holder = "none", !.step = "idle", !.conf = {},
                                  !.reported = TRUE, !.scheduled = TRUE]
  <2>0. d \in DeliveryRecord
    BY DEF TypeOK
  <2>1. rd \in Round
    BY <2>0, RoundOfType DEF DeliveryRecord
  <2>2. open \in DeliveryRecord
    <3> HIDE DEF d
    <3> QED BY <2>0 DEF DeliveryRecord, Step
  <2>3. /\ entry' = [entry EXCEPT ![e] = CommitRound(@, rd)]
        /\ proof' = [proof EXCEPT ![e] = RecordPublisherProof(@, rd, e \in Eligible)]
        /\ \/ delivery' = [delivery EXCEPT ![e] = NoDelivery]
           \/ delivery' = [delivery EXCEPT ![e] = open]
    BY <1>12 DEF RecordDelivered
  <2>4. entry' \in [Event -> Entry] /\ proof' \in [Event -> Proof]
    <3> HIDE DEF rd
    <3>1. CommitRound(entry[e], rd) \in Entry
      BY <2>1, CommitRoundType DEF TypeOK
    <3>2. RecordPublisherProof(proof[e], rd, e \in Eligible) \in Proof
      BY <2>1, RecordProofType DEF TypeOK
    <3> QED BY <2>3, <3>1, <3>2 DEF TypeOK
  <2>5. delivery' \in [Event -> DeliveryRecord]
    <3> HIDE DEF open
    <3> QED BY <2>2, <2>3, DeliveryTypes DEF TypeOK
  <2>6. call' \in [Event -> CallRecord] /\ told' \in [Event -> {"none", "ok", "queued", "abandoned", "error"}]
    BY <1>12 DEF RecordDelivered, TypeOK, CallRecord, NoCall
  <2> HIDE DEF d, settled, rd, open
  <2> QED BY <1>12, <2>4, <2>5, <2>6 DEF RecordDelivered, TypeOK
<1>13. CASE RecordFails(e)
  <2>1. left' \in Left
    BY <1>13 DEF RecordFails, Fault, TypeOK, Left
  <2>2. delivery' \in [Event -> DeliveryRecord]
    BY <1>13, DeliveryTypes DEF RecordFails, TypeOK
  <2>3. call' \in [Event -> CallRecord]
    BY <1>13 DEF RecordFails, TypeOK, CallRecord, NoCall
  <2> QED BY <1>13, <2>1, <2>2, <2>3 DEF RecordFails, TypeOK
<1> QED
  BY <1>1, <1>2, <1>3, <1>4, <1>5, <1>6, <1>7, <1>8, <1>9, <1>10, <1>11, <1>12, <1>13
  DEF CallStep, CallProgress

LEMMA RunnerStepType ==
  ASSUME TypeOK, RunnerStep
  PROVE  TypeOK'
<1> USE DEF durable, history
<1>0. runner \in RunnerRecord /\ NoPage \in [Event -> Entry]
  BY EntryTypes DEF TypeOK, NoPage
<1>1. CASE RunnerStart
  <2>1. runner' \in RunnerRecord
    BY <1>0, <1>1 DEF RunnerStart, RunnerRecord
  <2> QED BY <1>1, <2>1 DEF RunnerStart, TypeOK
<1>2. CASE RestoreMark
  <2>1. runner' \in RunnerRecord
    BY <1>0, <1>2 DEF RestoreMark, RunnerRecord
  <2>2. marker' \in Event \cup {None}
    BY <1>0, <1>2 DEF RestoreMark, MarkUndelivered, TypeOK, RunnerRecord
  <2> QED BY <1>2, <2>1, <2>2 DEF RestoreMark, TypeOK
<1>3. CASE RestoreDone
  <2>1. runner' \in RunnerRecord
    BY <1>0, <1>3 DEF RestoreDone, RunnerRecord
  <2> QED BY <1>3, <2>1 DEF RestoreDone, TypeOK
<1>4. CASE ListPending
  <2> DEFINE pending == {e \in Event : entry[e].state = "pending"}
             page == [e \in Event |-> IF e \in pending THEN entry[e] ELSE NoEntry]
  <2>1. page \in [Event -> Entry]
    BY EntryTypes DEF TypeOK
  <2>2. runner' = [runner EXCEPT !.at = "paging", !.todo = pending, !.page = page]
    BY <1>4 DEF ListPending
  <2>3. runner' \in RunnerRecord
    <3> HIDE DEF page
    <3> QED BY <1>0, <2>1, <2>2 DEF RunnerRecord
  <2> QED BY <1>4, <2>3 DEF ListPending, TypeOK
<1>5. CASE Prune
  <2>1. entry' \in [Event -> Entry]
    BY <1>5, EntryTypes DEF Prune, TypeOK
  <2> QED BY <1>5, <2>1 DEF Prune, TypeOK
<1>6. ASSUME NEW e \in Event, RestoreSave(e) PROVE TypeOK'
  <2>1. runner' \in RunnerRecord
    BY <1>0, <1>6 DEF RestoreSave, RunnerRecord
  <2>2. store' \in Event \cup {None} /\ marker' \in Event \cup {None}
    BY <1>6, SaveOwnType DEF RestoreSave
  <2> QED BY <1>6, <2>1, <2>2 DEF RestoreSave, TypeOK
<1>7. ASSUME NEW e \in Event, Redeliver(e) PROVE TypeOK'
  <2>1. delivery' \in [Event -> DeliveryRecord]
    BY <1>7, BeginRoundType DEF Redeliver, TypeOK
  <2> QED BY <1>7, <2>1 DEF Redeliver, TypeOK
<1>8. ASSUME NEW e \in Event PROVE Turned(e) \in RunnerRecord
  <2>1. runner.page \in [Event -> Entry] /\ [runner.page EXCEPT ![e] = NoEntry] \in [Event -> Entry]
    BY <1>0, EntryTypes DEF RunnerRecord
  <2> QED BY <1>0, <2>1 DEF Turned, RunnerRecord
<1>9. ASSUME NEW e \in Event, Discover(e) PROVE TypeOK'
  <2> DEFINE d == [NewDelivery EXCEPT !.rounds = runner.page[e].rounds,
                                      !.relays = runner.page[e].relays]
  <2>1. d \in DeliveryRecord
    BY <1>0, DeliveryTypes DEF DeliveryRecord, RunnerRecord, Entry
  <2>2. BeginRound(e, "runner", d)
    BY <1>9 DEF Discover
  <2>3. delivery' \in [Event -> DeliveryRecord]
    <3> HIDE DEF d
    <3> QED BY <2>1, <2>2, BeginRoundType
  <2>4. runner' \in RunnerRecord
    BY <1>8, <1>9 DEF Discover
  <2> QED BY <1>9, <2>3, <2>4 DEF Discover, TypeOK
<1>10. ASSUME NEW e \in Event, SkipTracked(e) PROVE TypeOK'
  <2>1. runner' \in RunnerRecord
    BY <1>8, <1>10 DEF SkipTracked
  <2> QED BY <1>10, <2>1 DEF SkipTracked, TypeOK
<1> QED
  BY <1>1, <1>2, <1>3, <1>4, <1>5, <1>6, <1>7, <1>9, <1>10 DEF RunnerStep

LEMMA EnvironmentType ==
  ASSUME TypeOK, Environment
  PROVE  TypeOK'
<1> USE DEF durable, history
<1>0. ASSUME NEW e \in Event PROVE Retry(entry[e]) \in Entry
  <2>1. entry[e] \in Entry
    BY DEF TypeOK
  <2> QED BY <2>1, FreshType DEF Retry, Entry
<1>1. CASE RetryAllFailed
  <2>1. entry' \in [Event -> Entry]
    BY <1>0, <1>1 DEF RetryAllFailed, TypeOK
  <2>2. left' \in Left
    BY <1>1 DEF RetryAllFailed, TypeOK, Left
  <2>3. tried' \in [Event -> Nat]
    BY <1>1 DEF RetryAllFailed, TypeOK
  <2> QED BY <1>1, <2>1, <2>2, <2>3 DEF RetryAllFailed, TypeOK
<1>2. CASE ChangeRelays
  <2>1. left' \in Left
    BY <1>2 DEF ChangeRelays, TypeOK, Left
  <2> QED BY <1>2, <2>1 DEF ChangeRelays, TypeOK
<1>3. CASE Crash
  <2>1. left' \in Left
    BY <1>3 DEF Crash, TypeOK, Left
  <2>2. runner' \in RunnerRecord
    BY <1>3, EntryTypes DEF Crash, Stopped, RunnerRecord, NoPage
  <2>3. delivery' \in [Event -> DeliveryRecord] /\ call' \in [Event -> CallRecord]
    BY <1>3, DeliveryTypes DEF Crash, CallRecord, NoCall
  <2>4. store' \in Event \cup {None}
    BY <1>3 DEF Crash, SaveEvent, TypeOK
  <2> QED BY <1>3, <2>1, <2>2, <2>3, <2>4 DEF Crash, TypeOK
<1>4. ASSUME NEW e \in Event, OperatorRetry(e) PROVE TypeOK'
  <2>1. entry' \in [Event -> Entry]
    BY <1>0, <1>4 DEF OperatorRetry, TypeOK
  <2>2. left' \in Left
    BY <1>4 DEF OperatorRetry, TypeOK, Left
  <2>3. tried' \in [Event -> Nat]
    BY <1>4 DEF OperatorRetry, TypeOK
  <2> QED BY <1>4, <2>1, <2>2, <2>3 DEF OperatorRetry, TypeOK
<1>5. ASSUME NEW e \in Event, InboundEvent(e) PROVE TypeOK'
  <2>1. store' \in Event \cup {None} /\ marker' \in Event \cup {None}
    BY <1>5, SaveOwnType DEF InboundEvent
  <2> QED BY <1>5, <2>1 DEF InboundEvent, TypeOK
<1> QED
  BY <1>1, <1>2, <1>3, <1>4, <1>5 DEF Environment

(* Type correctness of the publisher's memory and of everything it makes   *)
(* durable, along every interleaving of callers, runner, operator, relay   *)
(* policy changes and crashes.                                             *)
THEOREM TypeCorrect == Spec => []TypeOK
<1>1. Init => TypeOK
  <2> SUFFICES ASSUME Init PROVE TypeOK
    OBVIOUS
  <2>1. NoProof \in Proof /\ NoCall \in CallRecord /\ Stopped \in RunnerRecord
    BY EntryTypes DEF NoProof, Proof, NoCall, CallRecord, Stopped, RunnerRecord, NoPage
  <2>2. left \in Left
    BY DeliveryAssumption DEF Init, Left
  <2> QED BY <2>1, <2>2, EntryTypes, DeliveryTypes DEF Init, TypeOK
<1>2. TypeOK /\ [Next]_vars => TypeOK'
  <2> SUFFICES ASSUME TypeOK, [Next]_vars PROVE TypeOK'
    OBVIOUS
  <2>1. CASE UNCHANGED vars
    BY <2>1 DEF vars, durable, history, TypeOK
  <2>2. CASE Next
    BY <2>2, RoundStepType, CallStepType, RunnerStepType, EnvironmentType DEF Next
  <2> QED BY <2>1, <2>2
<1> QED
  BY <1>1, <1>2, PTL DEF Spec

-----------------------------------------------------------------------------
(* The evidence behind what the outbox says.  For one event with delivery  *)
(* d, page copy pg, entry en, proof pf, and ok the relays whose OK was     *)
(* heard: nothing is recorded as accepted that was not heard; a delivery   *)
(* that is being admitted has its quorum; a published entry and a proof    *)
(* have theirs.  This is the inductive strengthening of ProofSound and     *)
(* PublishedHasQuorum: neither mentions the memory and the page a later    *)
(* commit is made from.                                                    *)

AllIn(relays, ok) == \A r \in Relay : relays[r] = "accepted" => r \in ok

EntrySound(en, ok) ==
  /\ AllIn(en.relays, ok)
  /\ en.state = "published" =>
       /\ en.policy.relays # {}
       /\ en.policy.required = RequiredAcceptances(Cardinality(en.policy.relays))
       /\ Cardinality(en.policy.relays \cap ok) >= en.policy.required

ProofHolds(pf, ok) ==
  pf # NoProof =>
    /\ ValidFor(pf)
    /\ pf.ok \subseteq ok
    /\ pf.required = RequiredAcceptances(Cardinality(pf.relays))

DeliverySound(d, ok) ==
  /\ AllIn(d.relays, ok)
  /\ d.step \in {"admitting", "keeping", "recording"} => QuorumReached(d.relays, d.conf)

EvidenceFor(d, pg, en, pf, ok) ==
  /\ DeliverySound(d, ok)
  /\ AllIn(pg.relays, ok)
  /\ EntrySound(en, ok)
  /\ ProofHolds(pf, ok)

Evidence ==
  \A e \in Event :
    EvidenceFor(delivery[e], runner.page[e], entry[e], proof[e], acked[e])

LEMMA EvidenceImplies ==
  Evidence => AcceptancesHeard /\ ProofSound /\ PublishedHasQuorum
BY DEF Evidence, EvidenceFor, DeliverySound, AllIn, EntrySound, ProofHolds,
       AcceptancesHeard, WasHeard, ProofSound, PublishedHasQuorum

(* Hearing more relays takes nothing away.                                 *)
LEMMA EvidenceMonotone ==
  ASSUME NEW A \in SUBSET Relay, NEW B \in SUBSET Relay, A \subseteq B,
         NEW en \in Entry, NEW pf \in Proof, NEW pg
  PROVE  /\ EntrySound(en, A) => EntrySound(en, B)
         /\ ProofHolds(pf, A) => ProofHolds(pf, B)
         /\ AllIn(pg.relays, A) => AllIn(pg.relays, B)
<1>1. EntrySound(en, A) => EntrySound(en, B)
  <2> SUFFICES ASSUME EntrySound(en, A) PROVE EntrySound(en, B)
    OBVIOUS
  <2>1. en.policy.relays \in SUBSET Relay /\ en.policy.required \in Nat
    BY DEF Entry, Policy
  <2>2. /\ Cardinality(en.policy.relays \cap A) \in Nat
        /\ Cardinality(en.policy.relays \cap B) \in Nat
        /\ Cardinality(en.policy.relays \cap A) <= Cardinality(en.policy.relays \cap B)
    <3>1. IsFiniteSet(en.policy.relays \cap B)
      BY <2>1, RelaySubsetFinite
    <3>2. en.policy.relays \cap A \subseteq en.policy.relays \cap B
      OBVIOUS
    <3> QED BY <3>1, <3>2, FS_Subset, FS_CardinalityType
  <2> QED BY <2>1, <2>2 DEF EntrySound, AllIn
<1>2. ProofHolds(pf, A) => ProofHolds(pf, B)
  BY DEF ProofHolds
<1> QED
  BY <1>1, <1>2 DEF AllIn

(* A step that touches only event e has to be looked at for e only.        *)
LEMMA EvidenceLocal ==
  ASSUME Evidence, NEW e \in Event,
         \A f \in Event \ {e} :
           /\ delivery'[f] = delivery[f] /\ runner'.page[f] = runner.page[f]
           /\ entry'[f] = entry[f] /\ proof'[f] = proof[f] /\ acked'[f] = acked[f],
         EvidenceFor(delivery'[e], runner'.page[e], entry'[e], proof'[e], acked'[e])
  PROVE  Evidence'
<1> SUFFICES ASSUME NEW f \in Event
             PROVE  EvidenceFor(delivery'[f], runner'.page[f], entry'[f], proof'[f], acked'[f])
  BY DEF Evidence
<1>1. CASE f = e
  BY <1>1
<1>2. CASE f # e
  BY <1>2 DEF Evidence
<1> QED
  BY <1>1, <1>2

(* A round committed on a quorum, or without claiming one, is evidence.    *)
LEMMA CommitEvidence ==
  ASSUME NEW conf \in SUBSET Relay, NEW rounds \in Nat,
         NEW relays \in [Relay -> RelayStatus],
         NEW delivered \in BOOLEAN, NEW settled \in BOOLEAN,
         delivered => QuorumReached(relays, conf),
         NEW ok \in SUBSET Relay, AllIn(relays, ok),
         NEW en \in Entry, EntrySound(en, ok),
         NEW pf \in Proof, ProofHolds(pf, ok),
         NEW eligible,
         CanCommit(en, pf, RoundOf(conf, rounds, relays, delivered, settled), eligible)
  PROVE  LET rd == RoundOf(conf, rounds, relays, delivered, settled) IN
         /\ EntrySound(CommitRound(en, rd), ok)
         /\ ProofHolds(RecordPublisherProof(pf, rd, eligible), ok)
<1> DEFINE rd == RoundOf(conf, rounds, relays, delivered, settled)
           new == CommitRound(en, rd)
           req == RequiredAcceptances(Cardinality(conf))
<1>1. /\ rd.relays = relays /\ rd.delivered = delivered
      /\ rd.policy.relays = conf /\ rd.policy.required = req
      /\ rd.state = "published" => delivered
  BY DEF RoundOf
<1>2. AllIn(new.relays, ok)
  BY <1>1 DEF CommitRound, MergeRelayDeliveries, MergeStatus, AllIn, EntrySound, Entry
<1>3. delivered => conf # {} /\ Cardinality(conf \cap ok) >= req
  <2> SUFFICES ASSUME delivered PROVE conf # {} /\ Cardinality(conf \cap ok) >= req
    OBVIOUS
  <2>1. conf # {} /\ Cardinality(AcceptedRelays(relays, conf)) >= req
    BY DEF QuorumReached
  <2>2. AcceptedRelays(relays, conf) \subseteq conf \cap ok
    BY DEF AcceptedRelays, AllIn
  <2>3. IsFiniteSet(conf \cap ok) /\ Cardinality(conf \cap ok) \in Nat
    BY RelaySubsetFinite
  <2>4. /\ Cardinality(AcceptedRelays(relays, conf)) \in Nat
        /\ Cardinality(AcceptedRelays(relays, conf)) <= Cardinality(conf \cap ok)
    BY <2>2, <2>3, FS_Subset, FS_CardinalityType
  <2>5. req \in Nat
    BY RelaySubsetFinite, RequiredType
  <2> QED BY <2>1, <2>3, <2>4, <2>5
<1>4. new.state = "published" =>
        \/ en.state = "published" /\ new.policy = en.policy
        \/ delivered /\ new.policy = rd.policy
  BY <1>1, <1>3 DEF CommitRound
<1>5. EntrySound(new, ok)
  <2> HIDE DEF new, rd, req
  <2> QED BY <1>1, <1>2, <1>3, <1>4 DEF EntrySound, req
<1>6. ProofHolds(RecordPublisherProof(pf, rd, eligible), ok)
  <2>1. CASE delivered /\ eligible /\ pf = NoProof
    <3> DEFINE cp == CanonicalDeliveryProof(rd)
    <3>1. RecordPublisherProof(pf, rd, eligible) = cp
      BY <1>1, <2>1 DEF RecordPublisherProof
    <3>2. ValidFor(cp)
      BY <1>1, <2>1 DEF CanCommit
    <3>3. cp.relays = conf /\ cp.required = req /\ cp.ok \subseteq ok
      BY <1>1 DEF CanonicalDeliveryProof, AllIn
    <3> HIDE DEF cp, rd
    <3> QED BY <3>1, <3>2, <3>3 DEF ProofHolds
  <2>2. CASE ~(delivered /\ eligible /\ pf = NoProof)
    BY <1>1, <2>2 DEF RecordPublisherProof
  <2> QED BY <2>1, <2>2
<1> QED
  BY <1>5, <1>6

LEMMA FreshEvidence ==
  ASSUME NEW ok
  PROVE  /\ AllIn(Fresh, ok)
         /\ DeliverySound(NoDelivery, ok) /\ DeliverySound(NewDelivery, ok)
         /\ EntrySound(NoEntry, ok) /\ EntrySound(NewEntry, ok)
         /\ ProofHolds(NoProof, ok)
BY DEF AllIn, Fresh, DeliverySound, NoDelivery, NewDelivery, EntrySound, NoEntry,
       NewEntry, ProofHolds

LEMMA ApplyRoundHeard ==
  ASSUME NEW relays \in [Relay -> RelayStatus], NEW o, NEW ok, AllIn(relays, ok)
  PROVE  AllIn(ApplyRound(relays, o), ok \cup OKs(o))
BY DEF AllIn, ApplyRound, ClassifyPublishResult, OKs

LEMMA EndRoundEvidence ==
  ASSUME TypeOK, Evidence, NEW e \in Event, NEW o \in RoundOutcomes(e), EndRoundWith(e, o)
  PROVE  Evidence'
<1> DEFINE d         == delivery[e]
           relays    == ApplyRound(d.relays, o)
           rounds    == IF Countable(o) THEN CountRound(d.rounds) ELSE d.rounds
           delivered == QuorumReached(relays, d.conf)
           settled   == RoundSettles(relays, d.conf, rounds)
           rd        == RoundOf(d.conf, rounds, relays, delivered, settled)
           ok        == acked[e] \cup OKs(o)
<1>1. /\ d.conf \in SUBSET Relay /\ d.relays \in [Relay -> RelayStatus] /\ d.rounds \in Nat
  BY DEF TypeOK, DeliveryRecord
<1>2. EvidenceFor(d, runner.page[e], entry[e], proof[e], acked[e])
  BY DEF Evidence
<1>3. /\ relays \in [Relay -> RelayStatus] /\ rounds \in Nat
      /\ delivered \in BOOLEAN /\ settled \in BOOLEAN
  <2>1. relays \in [Relay -> RelayStatus]
    BY <1>1, ApplyRoundType
  <2>2. rounds \in Nat
    BY <1>1, CountRoundType
  <2> HIDE DEF relays, rounds
  <2> QED BY <1>1, <2>1, <2>2, VerdictType
<1>4. acked[e] \in SUBSET Relay /\ ok \in SUBSET Relay
  BY <1>1 DEF TypeOK, OKs, RoundOutcomes, Outcomes, RetryableRelays
<1>5. AllIn(relays, ok)
  BY <1>1, <1>2, ApplyRoundHeard DEF EvidenceFor, DeliverySound
<1>6. /\ EntrySound(entry[e], ok) /\ ProofHolds(proof[e], ok)
      /\ AllIn(runner.page[e].relays, ok)
  <2>1. acked[e] \subseteq ok
    OBVIOUS
  <2>2. /\ EntrySound(entry[e], acked[e]) /\ ProofHolds(proof[e], acked[e])
        /\ AllIn(runner.page[e].relays, acked[e])
    BY <1>2 DEF EvidenceFor
  <2>3. entry[e] \in Entry /\ proof[e] \in Proof
    BY DEF TypeOK
  <2> HIDE DEF ok
  <2> QED BY <1>4, <2>1, <2>2, <2>3, EvidenceMonotone
<1>7. acked' = [acked EXCEPT ![e] = ok]
  BY DEF EndRoundWith, TypeOK
<1>8. /\ delivery' = [delivery EXCEPT ![e] = delivery'[e]]
      /\ delivery'[e].relays = relays /\ delivery'[e].step = "committed"
  <2> DEFINE after(b) == [d EXCEPT !.step = "committed", !.rounds = rounds, !.relays = relays,
                                   !.settled = settled /\ b, !.delivered = delivered,
                                   !.reported = d.reported \/ (b /\ delivered),
                                   !.announce = b /\ delivered /\ ~d.reported]
  <2>1. delivery' = [delivery EXCEPT ![e] = after(TRUE)]
          \/ delivery' = [delivery EXCEPT ![e] = after(FALSE)]
    BY DEF EndRoundWith
  <2>2. ASSUME NEW b \in BOOLEAN PROVE after(b).relays = relays /\ after(b).step = "committed"
    <3>1. d \in DeliveryRecord
      BY DEF TypeOK
    <3> HIDE DEF d, relays, rounds, settled, delivered
    <3> QED BY <3>1 DEF DeliveryRecord
  <2> HIDE DEF after
  <2> QED BY <2>1, <2>2 DEF TypeOK
<1>9. /\ EntrySound(entry'[e], ok) /\ ProofHolds(proof'[e], ok)
      /\ \A f \in Event \ {e} : entry'[f] = entry[f] /\ proof'[f] = proof[f]
  <2>1. CASE UNCHANGED <<entry, proof>>
    BY <1>6, <2>1
  <2>2. CASE /\ CanCommit(entry[e], proof[e], rd, e \in Eligible)
             /\ entry' = [entry EXCEPT ![e] = CommitRound(@, rd)]
             /\ proof' = [proof EXCEPT ![e] = RecordPublisherProof(@, rd, e \in Eligible)]
    <3>1. /\ EntrySound(CommitRound(entry[e], rd), ok)
          /\ ProofHolds(RecordPublisherProof(proof[e], rd, e \in Eligible), ok)
      <4> HIDE DEF d, relays, rounds, settled, ok
      <4>1. entry[e] \in Entry /\ proof[e] \in Proof
        BY DEF TypeOK
      <4>2. delivered => QuorumReached(relays, d.conf)
        OBVIOUS
      <4> HIDE DEF delivered
      <4> QED BY <1>1, <1>3, <1>4, <1>5, <1>6, <2>2, <4>1, <4>2, CommitEvidence
    <3> HIDE DEF rd, ok
    <3> QED BY <2>2, <3>1 DEF TypeOK
  <2>3. \/ UNCHANGED <<entry, proof>>
        \/ /\ CanCommit(entry[e], proof[e], rd, e \in Eligible)
           /\ entry' = [entry EXCEPT ![e] = CommitRound(@, rd)]
           /\ proof' = [proof EXCEPT ![e] = RecordPublisherProof(@, rd, e \in Eligible)]
    BY DEF EndRoundWith
  <2> QED BY <2>1, <2>2, <2>3
<1>10. runner' = runner \/ runner' = PassStopped
  BY DEF EndRoundWith
<1>11. \A f \in Event : runner'.page[f] = runner.page[f] \/ runner'.page[f] = NoEntry
  <2>1. CASE runner' = PassStopped
    <3>1. PassStopped.page = NoPage
      BY DEF PassStopped, TypeOK, RunnerRecord
    <3> QED BY <2>1, <3>1 DEF NoPage
  <2> QED BY <1>10, <2>1
<1> HIDE DEF d, relays, rounds, delivered, settled, rd, ok
<1> SUFFICES ASSUME NEW f \in Event
             PROVE  EvidenceFor(delivery'[f], runner'.page[f], entry'[f], proof'[f], acked'[f])
  BY DEF Evidence
<1>12. CASE f = e
  <2>1. AllIn(runner'.page[f].relays, ok)
    BY <1>6, <1>11, <1>12, FreshEvidence DEF NoEntry
  <2>2. DeliverySound(delivery'[e], ok)
    BY <1>5, <1>8 DEF DeliverySound
  <2> QED BY <1>7, <1>9, <1>12, <2>1, <2>2 DEF EvidenceFor, TypeOK
<1>13. CASE f # e
  <2>1. EvidenceFor(delivery[f], runner.page[f], entry[f], proof[f], acked[f])
    BY DEF Evidence
  <2>2. /\ delivery'[f] = delivery[f] /\ entry'[f] = entry[f]
        /\ proof'[f] = proof[f] /\ acked'[f] = acked[f]
    BY <1>7, <1>8, <1>9, <1>13 DEF TypeOK
  <2>3. AllIn(runner'.page[f].relays, acked[f])
    BY <1>11, <2>1, FreshEvidence DEF NoEntry, EvidenceFor
  <2> QED BY <2>1, <2>2, <2>3 DEF EvidenceFor
<1> QED
  BY <1>12, <1>13

(* A step that hears nothing new keeps the evidence when whatever it       *)
(* writes is sound, and the page it reads is the outbox itself.            *)
LEMMA SilentStep ==
  ASSUME Evidence, UNCHANGED acked,
         \A f \in Event :
           /\ delivery'[f] = delivery[f] \/ DeliverySound(delivery'[f], acked[f])
           /\ runner'.page[f] \in {runner.page[f], NoEntry, entry[f]}
           /\ entry'[f] = entry[f] \/ EntrySound(entry'[f], acked[f])
           /\ proof'[f] = proof[f] \/ ProofHolds(proof'[f], acked[f])
  PROVE  Evidence'
<1> SUFFICES ASSUME NEW f \in Event
             PROVE  EvidenceFor(delivery'[f], runner'.page[f], entry'[f], proof'[f], acked'[f])
  BY DEF Evidence
<1>1. EvidenceFor(delivery[f], runner.page[f], entry[f], proof[f], acked[f])
  BY DEF Evidence
<1>2. AllIn(runner'.page[f].relays, acked[f])
  BY <1>1, FreshEvidence DEF EvidenceFor, EntrySound, NoEntry
<1> QED
  BY <1>1, <1>2 DEF EvidenceFor

(* The same when only the delivery of e moves.                             *)
LEMMA SilentDelivery ==
  ASSUME TypeOK, Evidence, NEW e \in Event, NEW d1, DeliverySound(d1, acked[e]),
         delivery' = [delivery EXCEPT ![e] = d1],
         UNCHANGED <<entry, proof, runner, acked>>
  PROVE  Evidence'
<1>1. \A f \in Event : delivery'[f] = delivery[f] \/ DeliverySound(delivery'[f], acked[f])
  BY DEF TypeOK
<1> QED
  BY <1>1, SilentStep

LEMMA SilentElsewhere ==
  ASSUME Evidence, UNCHANGED <<entry, proof, delivery, acked>>, runner'.page = runner.page
  PROVE  Evidence'
BY SilentStep

LEMMA DeliveryEvidence ==
  ASSUME Evidence, NEW e \in Event
  PROVE  DeliverySound(delivery[e], acked[e])
BY DEF Evidence, EvidenceFor

LEMMA ReleaseEvidence ==
  ASSUME TypeOK, Evidence, NEW e \in Event, Release(e), UNCHANGED <<entry, proof, runner, acked>>
  PROVE  Evidence'
<1> DEFINE d == delivery[e]
           open == [d EXCEPT !.holder = "none", !.step = "idle", !.conf = {},
                             !.announce = FALSE, !.scheduled = TRUE]
<1>1. \/ delivery' = [delivery EXCEPT ![e] = NoDelivery]
      \/ delivery' = [delivery EXCEPT ![e] = open]
  BY DEF Release
<1>2. DeliverySound(open, acked[e])
  <2>1. d \in DeliveryRecord /\ AllIn(d.relays, acked[e])
    BY DeliveryEvidence DEF TypeOK, DeliverySound
  <2>2. open.relays = d.relays /\ open.step = "idle"
    <3> HIDE DEF d
    <3> QED BY <2>1 DEF DeliveryRecord
  <2> HIDE DEF open, d
  <2> QED BY <2>1, <2>2 DEF DeliverySound
<1> HIDE DEF open
<1> QED
  BY <1>1, <1>2, FreshEvidence, SilentDelivery

LEMMA BeginRoundEvidence ==
  ASSUME TypeOK, Evidence, NEW e \in Event, NEW who, NEW d \in DeliveryRecord,
         AllIn(d.relays, acked[e]), BeginRound(e, who, d)
  PROVE  \A f \in Event : delivery'[f] = delivery[f] \/ DeliverySound(delivery'[f], acked[f])
<1> DEFINE d1 == [d EXCEPT !.holder = who, !.step = "sending", !.conf = writeRelays,
                           !.relays = SyncRelays(d.relays, writeRelays), !.scheduled = FALSE]
<1>1. AllIn(SyncRelays(d.relays, writeRelays), acked[e])
  BY DEF AllIn, SyncRelays
<1>2. d1.relays = SyncRelays(d.relays, writeRelays) /\ d1.step = "sending"
  BY DEF DeliveryRecord
<1>3. delivery' = [delivery EXCEPT ![e] = d1]
  BY DEF BeginRound
<1> HIDE DEF d1
<1> QED
  BY <1>1, <1>2, <1>3 DEF DeliverySound, TypeOK

LEMMA NextStepEvidence ==
  ASSUME TypeOK, Evidence, NEW e \in Event, NEW st,
         \/ st = "marking"
         \/ st \in {"keeping", "recording"} /\ delivery[e].step \in {"admitting", "keeping"},
         delivery' = [delivery EXCEPT ![e].step = st]
  PROVE  \A f \in Event : delivery'[f] = delivery[f] \/ DeliverySound(delivery'[f], acked[f])
<1>1. delivery[e] \in DeliveryRecord /\ DeliverySound(delivery[e], acked[e])
  BY DeliveryEvidence DEF TypeOK
<1>2. /\ delivery'[e].relays = delivery[e].relays
      /\ delivery'[e].conf = delivery[e].conf
      /\ delivery'[e].step = st
  BY <1>1 DEF DeliveryRecord, TypeOK
<1>3. DeliverySound(delivery'[e], acked[e])
  BY <1>1, <1>2 DEF DeliverySound
<1> QED
  BY <1>3 DEF TypeOK

LEMMA RoundStepEvidence ==
  ASSUME TypeOK, Evidence, NEW e \in Event, RoundStep(e)
  PROVE  Evidence'
<1>1. CASE EndRound(e)
  BY <1>1, EndRoundEvidence DEF EndRound
<1>2. CASE Conclude(e)
  BY <1>2, ReleaseEvidence DEF Conclude
<1>3. CASE ForgetOwnEvent(e)
  BY <1>3, ReleaseEvidence DEF ForgetOwnEvent
<1>4. CASE KeepAbandoned(e)
  BY <1>4, NextStepEvidence, SilentStep DEF KeepAbandoned, history
<1>5. CASE MarkOwnEventUndelivered(e)
  BY <1>5, ReleaseEvidence DEF MarkOwnEventUndelivered
<1> QED
  BY <1>1, <1>2, <1>3, <1>4, <1>5 DEF RoundStep

LEMMA FirstRoundEvidence ==
  ASSUME TypeOK, Evidence, NEW e \in Event, FirstRound(e)
  PROVE  Evidence'
<1>1. PICK o \in Outcomes(Fresh, call[e].conf) :
        LET conf   == call[e].conf
            relays == ApplyRound(Fresh, o)
        IN  /\ acked' = [acked EXCEPT ![e] = @ \cup OKs(o)]
            /\ \/ UNCHANGED delivery
               \/ /\ QuorumReached(relays, conf)
                  /\ delivery' = [delivery EXCEPT ![e] =
                       [NewDelivery EXCEPT !.holder = "caller", !.step = "admitting",
                          !.conf = conf, !.rounds = 1, !.relays = relays,
                          !.delivered = TRUE]]
  BY DEF FirstRound
<1> DEFINE conf   == call[e].conf
           relays == ApplyRound(Fresh, o)
           ok     == acked[e] \cup OKs(o)
           d1     == [NewDelivery EXCEPT !.holder = "caller", !.step = "admitting",
                        !.conf = conf, !.rounds = 1, !.relays = relays, !.delivered = TRUE]
<1>2. conf \in SUBSET Relay /\ acked[e] \in SUBSET Relay
  BY DEF TypeOK, CallRecord
<1>3. ok \in SUBSET Relay /\ acked[e] \subseteq ok
  BY <1>2 DEF OKs, Outcomes
<1>4. EvidenceFor(delivery[e], runner.page[e], entry[e], proof[e], acked[e])
  BY DEF Evidence
<1>5. entry[e] \in Entry /\ proof[e] \in Proof
  BY DEF TypeOK
<1>6. EvidenceFor(delivery[e], runner.page[e], entry[e], proof[e], ok)
  <2> HIDE DEF ok
  <2>1. AllIn(delivery[e].relays, ok)
    BY <1>3, <1>4 DEF EvidenceFor, DeliverySound, AllIn
  <2> QED BY <1>2, <1>3, <1>4, <1>5, <2>1, EvidenceMonotone DEF EvidenceFor, DeliverySound
<1>7. AllIn(relays, ok)
  BY FreshType, FreshEvidence, ApplyRoundHeard
<1>8. d1.relays = relays /\ d1.conf = conf
  BY DEF NewDelivery, NoDelivery
<1>9. QuorumReached(relays, conf) => DeliverySound(d1, ok)
  <2> HIDE DEF d1, relays, conf, ok
  <2> QED BY <1>7, <1>8 DEF DeliverySound
<1>10. EvidenceFor(delivery'[e], runner.page[e], entry[e], proof[e], ok)
  <2>1. CASE UNCHANGED delivery
    BY <1>6, <2>1
  <2>2. CASE QuorumReached(relays, conf) /\ delivery' = [delivery EXCEPT ![e] = d1]
    <3>1. delivery'[e] = d1
      BY <2>2 DEF TypeOK
    <3> HIDE DEF d1
    <3> QED BY <1>6, <1>9, <2>2, <3>1 DEF EvidenceFor
  <2> QED BY <1>1, <2>1, <2>2
<1>11. acked'[e] = ok /\ \A f \in Event \ {e} : acked'[f] = acked[f] /\ delivery'[f] = delivery[f]
  BY <1>1 DEF TypeOK
<1>12. UNCHANGED <<entry, proof, runner>>
  BY DEF FirstRound, durable
<1> HIDE DEF ok
<1> QED
  BY <1>10, <1>11, <1>12, EvidenceLocal

(* AdmitDelivered and RecordDelivered: what PublishBeforeCommit writes     *)
(* after its round rests on the quorum that round reached.                 *)
LEMMA RecordedEvidence ==
  ASSUME TypeOK, Evidence, NEW e \in Event, AdmitDelivered(e) \/ RecordDelivered(e)
  PROVE  Evidence'
<1> DEFINE d == delivery[e]
<1>1. /\ d \in DeliveryRecord /\ entry[e] \in Entry /\ proof[e] \in Proof
      /\ acked[e] \in SUBSET Relay
  BY DEF TypeOK
<1>2. /\ d.conf \in SUBSET Relay /\ d.relays \in [Relay -> RelayStatus] /\ d.rounds \in Nat
  BY <1>1 DEF DeliveryRecord
<1>3. /\ DeliverySound(d, acked[e]) /\ EntrySound(entry[e], acked[e])
      /\ ProofHolds(proof[e], acked[e])
  BY DEF Evidence, EvidenceFor
<1>4. AllIn(d.relays, acked[e])
  BY <1>3 DEF DeliverySound
<1>5. CASE AdmitDelivered(e)
  <2> DEFINE rd == RoundOf(d.conf, d.rounds, d.relays, TRUE, FALSE)
             en == [state |-> "pending", rounds |-> rd.rounds, delivered |-> TRUE,
                    relays |-> rd.relays, policy |-> rd.policy]
  <2>1. EntrySound(en, acked[e])
    BY <1>4 DEF EntrySound, RoundOf
  <2>2. entry' = [entry EXCEPT ![e] = Enqueue(@, en)]
    BY <1>5 DEF AdmitDelivered
  <2>3. \A f \in Event : entry'[f] = entry[f] \/ EntrySound(entry'[f], acked[f])
    <3> HIDE DEF en
    <3> QED BY <2>1, <2>2 DEF Enqueue, TypeOK
  <2>4. \A f \in Event : delivery'[f] = delivery[f] \/ DeliverySound(delivery'[f], acked[f])
    BY <1>5, NextStepEvidence DEF AdmitDelivered
  <2>5. UNCHANGED <<proof, runner, acked>>
    BY <1>5 DEF AdmitDelivered, history
  <2> QED BY <2>3, <2>4, <2>5, SilentStep
<1>6. CASE RecordDelivered(e)
  <2> DEFINE settled == RetryableRelays(d.relays, d.conf) = {}
             rd      == RoundOf(d.conf, d.rounds, d.relays, TRUE, settled)
             open    == [d EXCEPT !.holder = "none", !.step = "idle", !.conf = {},
                                  !.reported = TRUE, !.scheduled = TRUE]
  <2>1. /\ CanCommit(entry[e], proof[e], rd, e \in Eligible)
        /\ entry' = [entry EXCEPT ![e] = CommitRound(@, rd)]
        /\ proof' = [proof EXCEPT ![e] = RecordPublisherProof(@, rd, e \in Eligible)]
        /\ \/ delivery' = [delivery EXCEPT ![e] = NoDelivery]
           \/ delivery' = [delivery EXCEPT ![e] = open]
        /\ UNCHANGED <<runner, acked>>
    BY <1>6 DEF RecordDelivered
  <2>2. QuorumReached(d.relays, d.conf)
    BY <1>3, <1>6 DEF RecordDelivered, DeliverySound
  <2>3. /\ EntrySound(CommitRound(entry[e], rd), acked[e])
        /\ ProofHolds(RecordPublisherProof(proof[e], rd, e \in Eligible), acked[e])
    <3>1. settled \in BOOLEAN
      OBVIOUS
    <3> HIDE DEF d, settled
    <3> QED BY <1>1, <1>2, <1>3, <1>4, <2>1, <2>2, <3>1, CommitEvidence
  <2>4. \A f \in Event : /\ entry'[f] = entry[f] \/ EntrySound(entry'[f], acked[f])
                         /\ proof'[f] = proof[f] \/ ProofHolds(proof'[f], acked[f])
    <3> HIDE DEF rd
    <3> QED BY <2>1, <2>3 DEF TypeOK
  <2>5. DeliverySound(open, acked[e])
    <3>1. open.relays = d.relays /\ open.step = "idle"
      <4> HIDE DEF d
      <4> QED BY <1>1 DEF DeliveryRecord
    <3> HIDE DEF open, d
    <3> QED BY <1>4, <3>1 DEF DeliverySound
  <2>6. \A f \in Event : delivery'[f] = delivery[f] \/ DeliverySound(delivery'[f], acked[f])
    <3> HIDE DEF open
    <3> QED BY <2>1, <2>5, FreshEvidence DEF TypeOK
  <2> HIDE DEF rd, open, settled
  <2> QED BY <2>1, <2>4, <2>6, SilentStep
<1> QED
  BY <1>5, <1>6

LEMMA CallStepEvidence ==
  ASSUME TypeOK, Evidence, NEW e \in Event, CallStep(e)
  PROVE  Evidence'
<1> USE DEF durable, history
<1>1. CASE PublishInline(e)
  <2>1. /\ UNCHANGED <<entry, proof, runner, acked>>
        /\ delivery' = delivery \/ delivery' = [delivery EXCEPT ![e] = NewDelivery]
    BY <1>1 DEF PublishInline, StartCall
  <2> QED BY <2>1, FreshEvidence, SilentDelivery, SilentElsewhere
<1>2. CASE EnqueueCall(e) \/ PublishBeforeCommit(e)
  BY <1>2, SilentElsewhere DEF EnqueueCall, PublishBeforeCommit, StartCall
<1>3. CASE Admit(e)
  <2>1. \A f \in Event : entry'[f] = entry[f] \/ EntrySound(entry'[f], acked[f])
    BY <1>3, FreshEvidence DEF Admit, Enqueue, TypeOK
  <2> QED BY <1>3, <2>1, SilentStep DEF Admit
<1>4. CASE AdmitFails(e)
  <2>1. /\ UNCHANGED <<entry, proof, runner, acked>>
        /\ delivery' = delivery \/ delivery' = [delivery EXCEPT ![e] = NoDelivery]
    BY <1>4 DEF AdmitFails
  <2> QED BY <2>1, FreshEvidence, SilentDelivery, SilentElsewhere
<1>5. CASE KeepOwnEvent(e) \/ CallerWaits(e)
  BY <1>5, SilentElsewhere DEF KeepOwnEvent, CallerWaits
<1>6. CASE CallerRound(e)
  <2> DEFINE d == IF delivery[e].tracked THEN delivery[e] ELSE NewDelivery
  <2>1. d \in DeliveryRecord /\ AllIn(d.relays, acked[e])
    BY DeliveryTypes, DeliveryEvidence, FreshEvidence DEF TypeOK, DeliverySound
  <2>2. BeginRound(e, "caller", d) /\ UNCHANGED <<entry, proof, runner, acked>>
    BY <1>6 DEF CallerRound
  <2> HIDE DEF d
  <2> QED BY <2>1, <2>2, BeginRoundEvidence, SilentStep
<1>7. CASE FirstRound(e)
  BY <1>7, FirstRoundEvidence
<1>8. CASE AdmitDelivered(e) \/ RecordDelivered(e)
  BY <1>8, RecordedEvidence
<1>9. CASE KeepDelivered(e)
  BY <1>9, NextStepEvidence, SilentStep DEF KeepDelivered
<1>10. CASE RecordFails(e)
  BY <1>10, FreshEvidence, SilentDelivery DEF RecordFails
<1> QED
  BY <1>1, <1>2, <1>3, <1>4, <1>5, <1>6, <1>7, <1>8, <1>9, <1>10
  DEF CallStep, CallProgress

LEMMA RunnerStepEvidence ==
  ASSUME TypeOK, Evidence, RunnerStep
  PROVE  Evidence'
<1> USE DEF durable, history
<1>0. runner \in RunnerRecord
  BY DEF TypeOK
<1>1. CASE RunnerStart
  <2>1. runner'.page = runner.page
    BY <1>0, <1>1 DEF RunnerStart, RunnerRecord
  <2> QED BY <1>1, <2>1, SilentElsewhere DEF RunnerStart
<1>2. CASE RestoreMark
  <2>1. runner'.page = runner.page
    BY <1>0, <1>2 DEF RestoreMark, RunnerRecord
  <2> QED BY <1>2, <2>1, SilentElsewhere DEF RestoreMark
<1>3. CASE RestoreDone
  <2>1. runner'.page = runner.page
    BY <1>0, <1>3 DEF RestoreDone, RunnerRecord
  <2> QED BY <1>3, <2>1, SilentElsewhere DEF RestoreDone
<1>4. CASE ListPending
  <2>1. \A f \in Event : runner'.page[f] \in {runner.page[f], NoEntry, entry[f]}
    BY <1>0, <1>4 DEF ListPending, RunnerRecord
  <2> QED BY <1>4, <2>1, SilentStep DEF ListPending
<1>5. CASE Prune
  <2>1. \A f \in Event : entry'[f] = entry[f] \/ EntrySound(entry'[f], acked[f])
    BY <1>5, FreshEvidence DEF Prune
  <2> QED BY <1>5, <2>1, SilentStep DEF Prune
<1>6. ASSUME NEW e \in Event, RestoreSave(e) PROVE Evidence'
  <2>1. runner'.page = runner.page
    BY <1>0, <1>6 DEF RestoreSave, RunnerRecord
  <2> QED BY <1>6, <2>1, SilentElsewhere DEF RestoreSave
<1>7. ASSUME NEW e \in Event, Redeliver(e) PROVE Evidence'
  <2>1. delivery[e] \in DeliveryRecord /\ AllIn(delivery[e].relays, acked[e])
    BY DeliveryEvidence DEF TypeOK, DeliverySound
  <2> QED BY <1>7, <2>1, BeginRoundEvidence, SilentStep DEF Redeliver
<1>8. ASSUME NEW e \in Event
      PROVE  \A f \in Event : Turned(e).page[f] \in {runner.page[f], NoEntry}
  <2>1. Turned(e).page = [runner.page EXCEPT ![e] = NoEntry]
    BY <1>0 DEF Turned, RunnerRecord
  <2> QED BY <1>0, <2>1 DEF RunnerRecord
<1>9. ASSUME NEW e \in Event, Discover(e) PROVE Evidence'
  <2> DEFINE d == [NewDelivery EXCEPT !.rounds = runner.page[e].rounds,
                                      !.relays = runner.page[e].relays]
  <2>1. d \in DeliveryRecord /\ d.relays = runner.page[e].relays
    BY <1>0, DeliveryTypes DEF DeliveryRecord, RunnerRecord, Entry
  <2>2. BeginRound(e, "runner", d) /\ runner' = Turned(e) /\ UNCHANGED <<entry, proof, acked>>
    BY <1>9 DEF Discover
  <2>3. AllIn(runner.page[e].relays, acked[e])
    BY DEF Evidence, EvidenceFor
  <2> HIDE DEF d
  <2>4. \A f \in Event : delivery'[f] = delivery[f] \/ DeliverySound(delivery'[f], acked[f])
    BY <2>1, <2>2, <2>3, BeginRoundEvidence
  <2> QED BY <1>8, <2>2, <2>4, SilentStep
<1>10. ASSUME NEW e \in Event, SkipTracked(e) PROVE Evidence'
  BY <1>8, <1>10, SilentStep DEF SkipTracked
<1> QED
  BY <1>1, <1>2, <1>3, <1>4, <1>5, <1>6, <1>7, <1>9, <1>10 DEF RunnerStep

LEMMA EnvironmentEvidence ==
  ASSUME TypeOK, Evidence, Environment
  PROVE  Evidence'
<1> USE DEF durable, history
<1>0. ASSUME NEW e \in Event PROVE EntrySound(Retry(entry[e]), acked[e])
  <2>1. entry[e] \in Entry
    BY DEF TypeOK
  <2>2. Retry(entry[e]).relays = Fresh /\ Retry(entry[e]).state = "pending"
    BY <2>1 DEF Retry, Entry
  <2> QED BY <2>2, FreshEvidence DEF EntrySound
<1>1. CASE RetryAllFailed
  <2>1. \A f \in Event : entry'[f] = entry[f] \/ EntrySound(entry'[f], acked[f])
    BY <1>0, <1>1 DEF RetryAllFailed
  <2> QED BY <1>1, <2>1, SilentStep DEF RetryAllFailed
<1>2. CASE ChangeRelays
  BY <1>2, SilentElsewhere DEF ChangeRelays
<1>3. CASE Crash
  <2>1. \A f \in Event : delivery'[f] = NoDelivery /\ runner'.page[f] = NoEntry
    BY <1>3 DEF Crash, Stopped, NoPage
  <2> QED BY <1>3, <2>1, FreshEvidence, SilentStep DEF Crash
<1>4. ASSUME NEW e \in Event, OperatorRetry(e) PROVE Evidence'
  <2>1. \A f \in Event : entry'[f] = entry[f] \/ EntrySound(entry'[f], acked[f])
    BY <1>0, <1>4 DEF OperatorRetry, TypeOK
  <2> QED BY <1>4, <2>1, SilentStep DEF OperatorRetry
<1>5. ASSUME NEW e \in Event, InboundEvent(e) PROVE Evidence'
  BY <1>5, SilentElsewhere DEF InboundEvent
<1> QED
  BY <1>1, <1>2, <1>3, <1>4, <1>5 DEF Environment

(* Everything the publisher holds of a delivery, in memory, in a page it   *)
(* read or in the outbox, rests on what relays really answered, whatever   *)
(* the number of relays and events and whatever crashes, overlapping       *)
(* rounds, relay policy changes and operator retries happen.               *)
THEOREM EvidenceCorrect == Spec => []Evidence
<1>1. Init => Evidence
  <2> SUFFICES ASSUME Init, NEW e \in Event
               PROVE  EvidenceFor(delivery[e], runner.page[e], entry[e], proof[e], acked[e])
    BY DEF Evidence
  <2>1. /\ delivery[e] = NoDelivery /\ runner.page[e] = NoEntry
        /\ entry[e] = NoEntry /\ proof[e] = NoProof
    BY DEF Init, Stopped, NoPage
  <2>2. AllIn(NoEntry.relays, acked[e])
    BY FreshEvidence DEF NoEntry
  <2> QED BY <2>1, <2>2, FreshEvidence DEF EvidenceFor
<1>2. TypeOK /\ Evidence /\ [Next]_vars => Evidence'
  <2> SUFFICES ASSUME TypeOK, Evidence, [Next]_vars PROVE Evidence'
    OBVIOUS
  <2>1. CASE UNCHANGED vars
    BY <2>1, SilentElsewhere DEF vars, durable, history
  <2>2. CASE Next
    BY <2>2, RoundStepEvidence, CallStepEvidence, RunnerStepEvidence, EnvironmentEvidence
    DEF Next
  <2> QED BY <2>1, <2>2
<1> QED
  BY <1>1, <1>2, TypeCorrect, PTL DEF Spec

(* No acceptance is invented: the publisher acts only on an OK that relay  *)
(* gave for that event (classifyPublishResult, restore, commitRound).      *)
THEOREM AcceptancesSound == Spec => []AcceptancesHeard
BY EvidenceCorrect, EvidenceImplies, PTL

(* Every delivery proof recordPublisherProof ever stores is backed by the  *)
(* quorum of OKs it claims, and stays so.                                  *)
THEOREM ProofsSound == Spec => []ProofSound
BY EvidenceCorrect, EvidenceImplies, PTL

(* An entry is published only on the word of a quorum of the write relays  *)
(* it records (deliverRound, commitRound, PublishBeforeCommit).            *)
THEOREM PublishedSound == Spec => []PublishedHasQuorum
BY EvidenceCorrect, EvidenceImplies, PTL

-----------------------------------------------------------------------------
(* What a step does to the outbox, its proofs and the OKs heard: nothing,  *)
(* one of four transactions, or hearing relays without a transaction.      *)

Submits(e) ==
  /\ \E new \in Entry : /\ new.state = "pending"
                        /\ entry' = [entry EXCEPT ![e] = Enqueue(@, new)]
  /\ UNCHANGED <<proof, acked>>

Hears(e) ==
  /\ \E ok \in SUBSET Relay : acked' = [acked EXCEPT ![e] = @ \cup ok]
  /\ \/ UNCHANGED <<entry, proof>>
     \/ \E rd \in Round :
          /\ CanCommit(entry[e], proof[e], rd, e \in Eligible)
          /\ entry' = [entry EXCEPT ![e] = CommitRound(@, rd)]
          /\ proof' = [proof EXCEPT ![e] = RecordPublisherProof(@, rd, e \in Eligible)]

Reopens(set) ==
  /\ \A e \in set : entry[e].state = "failed"
  /\ entry' = [e \in Event |-> IF e \in set THEN Retry(entry[e]) ELSE entry[e]]
  /\ UNCHANGED <<proof, acked>>

Expires(set) ==
  /\ \A e \in set : Settled(entry[e])
  /\ entry' = [e \in Event |-> IF e \in set THEN NoEntry ELSE entry[e]]
  /\ UNCHANGED <<proof, acked>>

DurableStep ==
  \/ UNCHANGED <<entry, proof, acked>>
  \/ \E e \in Event : Submits(e) \/ Hears(e)
  \/ \E set \in SUBSET Event : Reopens(set) \/ Expires(set)

LEMMA RoundStepDurable ==
  ASSUME TypeOK, NEW e \in Event, RoundStep(e)
  PROVE  DurableStep
<1>1. ASSUME NEW o \in RoundOutcomes(e), EndRoundWith(e, o)
      PROVE  Hears(e)
  <2> DEFINE d         == delivery[e]
             relays    == ApplyRound(d.relays, o)
             rounds    == IF Countable(o) THEN CountRound(d.rounds) ELSE d.rounds
             delivered == QuorumReached(relays, d.conf)
             settled   == RoundSettles(relays, d.conf, rounds)
             rd        == RoundOf(d.conf, rounds, relays, delivered, settled)
  <2>1. /\ d.conf \in SUBSET Relay /\ d.relays \in [Relay -> RelayStatus] /\ d.rounds \in Nat
    BY DEF TypeOK, DeliveryRecord
  <2>2. relays \in [Relay -> RelayStatus] /\ rounds \in Nat
    BY <2>1, ApplyRoundType, CountRoundType
  <2>3. delivered \in BOOLEAN /\ settled \in BOOLEAN
    <3> HIDE DEF relays, rounds
    <3> QED BY <2>1, <2>2, VerdictType
  <2>4. rd \in Round
    <3> HIDE DEF d, relays, rounds, delivered, settled
    <3> QED BY <2>1, <2>2, <2>3, RoundOfType
  <2>5. acked' = [acked EXCEPT ![e] = @ \cup OKs(o)] /\ OKs(o) \in SUBSET Relay
    BY <1>1, <2>1 DEF EndRoundWith, OKs, RoundOutcomes, Outcomes, RetryableRelays
  <2>6. \/ UNCHANGED <<entry, proof>>
        \/ /\ CanCommit(entry[e], proof[e], rd, e \in Eligible)
           /\ entry' = [entry EXCEPT ![e] = CommitRound(@, rd)]
           /\ proof' = [proof EXCEPT ![e] = RecordPublisherProof(@, rd, e \in Eligible)]
    BY <1>1 DEF EndRoundWith
  <2> HIDE DEF rd
  <2> QED BY <2>4, <2>5, <2>6 DEF Hears
<1>2. CASE \/ Conclude(e) \/ ForgetOwnEvent(e) \/ KeepAbandoned(e)
           \/ MarkOwnEventUndelivered(e)
  <2>1. UNCHANGED <<entry, proof, acked>>
    BY <1>2 DEF Conclude, ForgetOwnEvent, KeepAbandoned, MarkOwnEventUndelivered, history
  <2> QED BY <2>1 DEF DurableStep
<1> QED
  BY <1>1, <1>2 DEF RoundStep, EndRound, DurableStep

LEMMA CallStepDurable ==
  ASSUME TypeOK, NEW e \in Event, CallStep(e)
  PROVE  DurableStep
<1>1. CASE \/ PublishInline(e) \/ EnqueueCall(e) \/ PublishBeforeCommit(e) \/ AdmitFails(e)
           \/ KeepOwnEvent(e) \/ CallerRound(e) \/ CallerWaits(e) \/ KeepDelivered(e)
           \/ RecordFails(e)
  <2>1. UNCHANGED <<entry, proof, acked>>
    BY <1>1 DEF PublishInline, EnqueueCall, PublishBeforeCommit, StartCall, AdmitFails,
                KeepOwnEvent, CallerRound, CallerWaits, KeepDelivered, RecordFails,
                durable, history
  <2> QED BY <2>1 DEF DurableStep
<1>2. CASE Admit(e)
  <2>1. NewEntry \in Entry /\ NewEntry.state = "pending"
    BY EntryTypes DEF NewEntry, NoEntry
  <2>2. Submits(e)
    BY <1>2, <2>1 DEF Admit, Submits, history
  <2> QED BY <2>2 DEF DurableStep
<1>3. CASE FirstRound(e)
  <2>1. PICK o \in Outcomes(Fresh, call[e].conf) : acked' = [acked EXCEPT ![e] = @ \cup OKs(o)]
    BY <1>3 DEF FirstRound
  <2>2. OKs(o) \in SUBSET Relay
    BY DEF OKs, Outcomes, TypeOK, CallRecord
  <2>3. UNCHANGED <<entry, proof>>
    BY <1>3 DEF FirstRound, durable
  <2>4. Hears(e)
    BY <2>1, <2>2, <2>3 DEF Hears
  <2> QED BY <2>4 DEF DurableStep
<1>4. /\ delivery[e].conf \in SUBSET Relay /\ delivery[e].relays \in [Relay -> RelayStatus]
      /\ delivery[e].rounds \in Nat
  BY DEF TypeOK, DeliveryRecord
<1>5. CASE AdmitDelivered(e)
  <2> DEFINE d  == delivery[e]
             rd == RoundOf(d.conf, d.rounds, d.relays, TRUE, FALSE)
             en == [state |-> "pending", rounds |-> rd.rounds, delivered |-> TRUE,
                    relays |-> rd.relays, policy |-> rd.policy]
  <2>1. rd \in Round
    BY <1>4, RoundOfType
  <2>2. entry' = [entry EXCEPT ![e] = Enqueue(@, en)] /\ UNCHANGED <<proof, acked>>
    BY <1>5 DEF AdmitDelivered, history
  <2>3. en \in Entry /\ en.state = "pending"
    <3> HIDE DEF rd
    <3> QED BY <2>1 DEF Round, Entry
  <2> HIDE DEF en
  <2>4. Submits(e)
    BY <2>2, <2>3 DEF Submits
  <2> QED BY <2>4 DEF DurableStep
<1>6. CASE RecordDelivered(e)
  <2> DEFINE d       == delivery[e]
             settled == RetryableRelays(d.relays, d.conf) = {}
             rd      == RoundOf(d.conf, d.rounds, d.relays, TRUE, settled)
  <2>1. rd \in Round
    BY <1>4, RoundOfType
  <2>2. /\ CanCommit(entry[e], proof[e], rd, e \in Eligible)
        /\ entry' = [entry EXCEPT ![e] = CommitRound(@, rd)]
        /\ proof' = [proof EXCEPT ![e] = RecordPublisherProof(@, rd, e \in Eligible)]
        /\ UNCHANGED acked
    BY <1>6 DEF RecordDelivered
  <2>3. acked' = [acked EXCEPT ![e] = @ \cup {}]
    BY <2>2 DEF TypeOK
  <2> HIDE DEF rd
  <2>4. Hears(e)
    BY <2>1, <2>2, <2>3 DEF Hears
  <2> QED BY <2>4 DEF DurableStep
<1> QED
  BY <1>1, <1>2, <1>3, <1>5, <1>6 DEF CallStep, CallProgress

LEMMA RunnerStepDurable ==
  ASSUME RunnerStep
  PROVE  DurableStep
<1>1. CASE \/ RunnerStart \/ RestoreMark \/ RestoreDone \/ ListPending
           \/ \E e \in Event : RestoreSave(e) \/ Redeliver(e) \/ Discover(e) \/ SkipTracked(e)
  <2>1. UNCHANGED <<entry, proof, acked>>
    BY <1>1 DEF RunnerStart, RestoreMark, RestoreDone, ListPending, RestoreSave, Redeliver,
                Discover, SkipTracked, durable, history
  <2> QED BY <2>1 DEF DurableStep
<1>2. CASE Prune
  <2>1. PICK expired \in SUBSET {e \in Event : Settled(entry[e])} :
          entry' = [e \in Event |-> IF e \in expired THEN NoEntry ELSE entry[e]]
    BY <1>2 DEF Prune
  <2>2. Expires(expired)
    BY <1>2, <2>1 DEF Prune, Expires, history
  <2> QED BY <2>2 DEF DurableStep
<1> QED
  BY <1>1, <1>2 DEF RunnerStep

LEMMA EnvironmentDurable ==
  ASSUME TypeOK, Environment
  PROVE  DurableStep
<1>1. CASE ChangeRelays \/ Crash \/ \E e \in Event : InboundEvent(e)
  <2>1. UNCHANGED <<entry, proof, acked>>
    BY <1>1 DEF ChangeRelays, Crash, InboundEvent, durable, history
  <2> QED BY <2>1 DEF DurableStep
<1>2. CASE RetryAllFailed
  <2> DEFINE failed == {e \in Event : entry[e].state = "failed"}
  <2>1. Reopens(failed)
    BY <1>2 DEF RetryAllFailed, Reopens
  <2> QED BY <2>1 DEF DurableStep
<1>3. ASSUME NEW e \in Event, OperatorRetry(e)
      PROVE  DurableStep
  <2>1. /\ entry[e].state = "failed" /\ UNCHANGED <<proof, acked>>
        /\ entry' = [entry EXCEPT ![e] = Retry(@)]
    BY <1>3 DEF OperatorRetry
  <2>2. entry' = [f \in Event |-> IF f \in {e} THEN Retry(entry[f]) ELSE entry[f]]
    BY <2>1 DEF TypeOK
  <2>3. Reopens({e})
    BY <2>1, <2>2 DEF Reopens
  <2> QED BY <2>3 DEF DurableStep
<1> QED
  BY <1>1, <1>2, <1>3 DEF Environment

LEMMA NextDurable ==
  ASSUME TypeOK, [Next]_vars
  PROVE  DurableStep
<1>1. CASE UNCHANGED vars
  BY <1>1 DEF vars, durable, history, DurableStep
<1>2. CASE Next
  BY <1>2, RoundStepDurable, CallStepDurable, RunnerStepDurable, EnvironmentDurable DEF Next
<1> QED
  BY <1>1, <1>2

-----------------------------------------------------------------------------
(* Durable facts are not undone.                                           *)

(* An event the outbox does not know has nothing recorded.                 *)
AbsentIsEmpty == \A e \in Event : entry[e].state = "absent" => entry[e] = NoEntry

(* A committed round keeps what the entry says.                            *)
LEMMA CommitKeeps ==
  ASSUME NEW en \in Entry, NEW rd \in Round
  PROVE  LET new == CommitRound(en, rd)
         IN  /\ en.state # "pending" => new = en
             /\ en.state = "pending" => new.state = rd.state
             /\ new.rounds >= en.rounds
             /\ en.delivered => new.delivered
             /\ \A r \in Relay : en.relays[r] = "accepted" => new.relays[r] = "accepted"
<1> DEFINE merged == MergeRelayDeliveries(en.relays, rd.relays)
           policy == IF rd.delivered /\ rd.policy.relays # {} THEN rd.policy ELSE en.policy
           rounds == IF rd.rounds > en.rounds THEN rd.rounds ELSE en.rounds
           both   == en.delivered \/ rd.delivered
<1>1. en.rounds \in Nat /\ rd.rounds \in Nat /\ rounds >= en.rounds
  BY DEF Entry, Round
<1>2. \A r \in Relay : en.relays[r] = "accepted" => merged[r] = "accepted"
  BY DEF MergeRelayDeliveries, MergeStatus
<1>3. CASE en.state # "pending"
  <2>1. CommitRound(en, rd) = en
    BY <1>3 DEF CommitRound
  <2> QED BY <1>1, <1>3, <2>1
<1>4. CASE en.state = "pending"
  <2>1. CommitRound(en, rd) = [state |-> rd.state, rounds |-> rounds, delivered |-> both,
                               relays |-> merged, policy |-> policy]
    BY <1>4 DEF CommitRound
  <2>2. en.delivered => both
    OBVIOUS
  <2> HIDE DEF merged, policy, rounds, both
  <2> QED BY <1>1, <1>2, <1>4, <2>1, <2>2
<1> QED
  BY <1>3, <1>4

(* What one event's row and proof may become in a step.                    *)
Progress(e) ==
  /\ proof[e] # NoProof => proof'[e] = proof[e]
  /\ \/ entry'[e] = Retry(entry[e]) /\ entry[e].state = "failed"
     \/ entry'[e] = NoEntry /\ Settled(entry[e])
     \/ /\ Settled(entry[e]) => entry'[e] = entry[e]
        /\ entry[e].state = "pending" => entry'[e].state # "absent"
        /\ entry'[e].rounds >= entry[e].rounds
        /\ entry[e].delivered => entry'[e].delivered
        /\ \A r \in Relay : entry[e].relays[r] = "accepted"
                              => entry'[e].relays[r] = "accepted"

LEMMA SameIsProgress ==
  ASSUME TypeOK, NEW e \in Event, entry'[e] = entry[e],
         proof[e] # NoProof => proof'[e] = proof[e]
  PROVE  Progress(e)
<1>1. entry[e].rounds \in Nat
  BY DEF TypeOK, Entry
<1> QED
  BY <1>1 DEF Progress

LEMMA DurableKeeps ==
  ASSUME TypeOK, AbsentIsEmpty, DurableStep
  PROVE  AbsentIsEmpty' /\ \A e \in Event : Progress(e)
<1>0. entry \in [Event -> Entry] /\ proof \in [Event -> Proof]
  BY DEF TypeOK
<1>1. CASE UNCHANGED <<entry, proof, acked>>
  BY <1>1, SameIsProgress DEF AbsentIsEmpty
<1>2. ASSUME NEW e \in Event, Submits(e)
      PROVE  AbsentIsEmpty' /\ \A f \in Event : Progress(f)
  <2>1. PICK new \in Entry : /\ new.state = "pending"
                             /\ entry' = [entry EXCEPT ![e] = Enqueue(@, new)]
    BY <1>2 DEF Submits
  <2>2. /\ entry'[e] = Enqueue(entry[e], new) /\ proof' = proof
        /\ \A f \in Event \ {e} : entry'[f] = entry[f]
    BY <1>0, <1>2, <2>1 DEF Submits
  <2>3. Progress(e)
    <3>1. CASE entry[e].state = "absent"
      <4>1. entry[e] = NoEntry /\ entry'[e] = new
        BY <2>2, <3>1 DEF AbsentIsEmpty, Enqueue
      <4>2. /\ NoEntry.rounds = 0 /\ NoEntry.delivered = FALSE /\ new.rounds \in Nat
            /\ NoEntry.state = "absent"
            /\ \A r \in Relay : NoEntry.relays[r] = "open"
        BY <2>1 DEF NoEntry, Entry, Fresh
      <4> QED BY <2>2, <4>1, <4>2 DEF Progress, Settled
    <3>2. CASE entry[e].state # "absent"
      BY <2>2, <3>2, SameIsProgress DEF Enqueue
    <3> QED BY <3>1, <3>2
  <2>4. \A f \in Event : Progress(f)
    BY <2>2, <2>3, SameIsProgress
  <2>5. AbsentIsEmpty'
    BY <2>1, <2>2 DEF AbsentIsEmpty, Enqueue
  <2> QED BY <2>4, <2>5
<1>3. ASSUME NEW e \in Event, Hears(e)
      PROVE  AbsentIsEmpty' /\ \A f \in Event : Progress(f)
  <2>1. CASE UNCHANGED <<entry, proof>>
    BY <2>1, SameIsProgress DEF AbsentIsEmpty
  <2>2. ASSUME NEW rd \in Round, CanCommit(entry[e], proof[e], rd, e \in Eligible),
               entry' = [entry EXCEPT ![e] = CommitRound(@, rd)],
               proof' = [proof EXCEPT ![e] = RecordPublisherProof(@, rd, e \in Eligible)]
        PROVE  AbsentIsEmpty' /\ \A f \in Event : Progress(f)
    <3>1. /\ entry'[e] = CommitRound(entry[e], rd)
          /\ proof'[e] = RecordPublisherProof(proof[e], rd, e \in Eligible)
          /\ \A f \in Event \ {e} : entry'[f] = entry[f] /\ proof'[f] = proof[f]
      BY <1>0, <2>2
    <3>2. entry[e] \in Entry /\ entry[e].state # "absent" /\ rd.state # "absent"
      BY <1>0, <2>2 DEF CanCommit, Round
    <3>3. proof[e] # NoProof => proof'[e] = proof[e]
      BY <3>1 DEF RecordPublisherProof
    <3>4. Progress(e) /\ entry'[e].state # "absent"
      BY <3>1, <3>2, <3>3, CommitKeeps DEF Progress, Settled
    <3> QED
      BY <3>1, <3>4, SameIsProgress DEF AbsentIsEmpty
  <2> QED BY <1>3, <2>1, <2>2 DEF Hears
<1>4. ASSUME NEW set \in SUBSET Event, Reopens(set) \/ Expires(set)
      PROVE  AbsentIsEmpty' /\ \A f \in Event : Progress(f)
  <2>1. SUFFICES ASSUME NEW f \in Event
                 PROVE  /\ entry'[f].state = "absent" => entry'[f] = NoEntry
                        /\ Progress(f)
    BY DEF AbsentIsEmpty
  <2>2. proof'[f] = proof[f]
    BY <1>4 DEF Reopens, Expires
  <2>3. CASE entry'[f] = entry[f]
    BY <2>2, <2>3, SameIsProgress DEF AbsentIsEmpty
  <2>4. CASE entry'[f] = Retry(entry[f]) /\ entry[f].state = "failed"
    <3>1. Retry(entry[f]).state = "pending"
      BY <1>0 DEF Retry, Entry
    <3> QED BY <2>2, <2>4, <3>1 DEF Progress
  <2>5. CASE entry'[f] = NoEntry /\ Settled(entry[f])
    BY <2>2, <2>5 DEF Progress
  <2> QED BY <1>4, <2>3, <2>4, <2>5 DEF Reopens, Expires
<1> QED
  BY <1>1, <1>2, <1>3, <1>4 DEF DurableStep

(* commitRound, Enqueue, Retry and Prune never undo a durable fact: an     *)
(* acceptance, a counted round, the delivered flag, a settled state or a   *)
(* proof goes away only by operator retry or by pruning.                   *)
THEOREM ProgressIsDurable == Spec => DurableProgress
<1>1. Init => AbsentIsEmpty
  BY DEF Init, AbsentIsEmpty
<1>2. TypeOK /\ AbsentIsEmpty /\ [Next]_vars
        => AbsentIsEmpty' /\ \A e \in Event : Progress(e)
  BY NextDurable, DurableKeeps
<1>3. TypeOK /\ AbsentIsEmpty /\ [Next]_vars
        => [\A e \in Event :
              /\ proof[e] # NoProof => proof'[e] = proof[e]
              /\ \/ entry'[e] = Retry(entry[e]) /\ entry[e].state = "failed"
                 \/ entry'[e] = NoEntry /\ Settled(entry[e])
                 \/ /\ Settled(entry[e]) => entry'[e] = entry[e]
                    /\ entry[e].state = "pending" => entry'[e].state # "absent"
                    /\ entry'[e].rounds >= entry[e].rounds
                    /\ entry[e].delivered => entry'[e].delivered
                    /\ \A r \in Relay : entry[e].relays[r] = "accepted"
                                          => entry'[e].relays[r] = "accepted"]_<<entry, proof>>
  BY <1>2 DEF Progress
<1> QED
  BY <1>1, <1>2, <1>3, TypeCorrect, PTL DEF Spec, DurableProgress

-----------------------------------------------------------------------------
(* Delivery implements PublishContract: each transaction of DurableStep is *)
(* one action of the contract or a stutter, and what a commit claims is    *)
(* backed by Evidence in the state it leads to.                            *)

Status == [e \in Event |-> entry[e].state]
Proven == {e \in Event : proof[e] # NoProof}

(* The contract's instance of FiniteSets counts as this module's does.     *)
LEMMA SameCardinality == \A S : Contract!Cardinality(S) = Cardinality(S)
BY DEF Contract!Cardinality, Cardinality

(* Evidence of a quorum is a quorum of the contract.                       *)
LEMMA EvidenceIsQuorum ==
  ASSUME NEW en \in Entry, NEW pf \in Proof, NEW ok \in SUBSET Relay
  PROVE  /\ EntrySound(en, ok) /\ en.state = "published" => Contract!QuorumIn(ok)
         /\ ProofHolds(pf, ok) /\ pf # NoProof => Contract!QuorumIn(ok)
<1>1. ASSUME EntrySound(en, ok), en.state = "published"
      PROVE  Contract!QuorumIn(ok)
  BY <1>1, SameCardinality DEF EntrySound, Contract!QuorumIn, Entry, Policy
<1>2. ASSUME ProofHolds(pf, ok), pf # NoProof
      PROVE  Contract!QuorumIn(ok)
  <2>1. /\ pf.relays \in SUBSET Relay /\ pf.ok \in SUBSET Relay /\ pf.required \in Nat
    BY DEF Proof
  <2>2. /\ pf.required >= 1 /\ pf.ok \subseteq pf.relays \cap ok
        /\ Cardinality(pf.ok) >= pf.required
        /\ pf.required <= Cardinality(pf.relays)
        /\ pf.required = RequiredAcceptances(Cardinality(pf.relays))
    BY <1>2 DEF ProofHolds, ValidFor
  <2>3. pf.relays # {}
    <3>1. Cardinality({}) = 0
      BY FS_EmptySet
    <3> QED BY <2>1, <2>2, <3>1
  <2>4. Cardinality(pf.ok) <= Cardinality(pf.relays \cap ok)
    BY <2>1, <2>2, RelaySubsetFinite, FS_Subset
  <2>5. /\ Cardinality(pf.ok) \in Nat /\ Cardinality(pf.relays \cap ok) \in Nat
    BY <2>1, RelaySubsetFinite
  <2>6. Cardinality(pf.relays \cap ok) >= pf.required
    BY <2>1, <2>2, <2>4, <2>5
  <2> QED BY <2>1, <2>2, <2>3, <2>6, SameCardinality DEF Contract!QuorumIn
<1> QED
  BY <1>1, <1>2

LEMMA ContractInit == Init => Contract!Init
BY DEF Init, Contract!Init, NoEntry

LEMMA SubmitsRefines ==
  ASSUME TypeOK, NEW e \in Event, Submits(e)
  PROVE  [Contract!Next]_(Contract!vars)
<1>1. PICK new \in Entry : /\ new.state = "pending"
                           /\ entry' = [entry EXCEPT ![e] = Enqueue(@, new)]
  BY DEF Submits
<1>2. UNCHANGED <<proof, acked>>
  BY DEF Submits
<1>3. CASE entry[e].state = "absent"
  <2>1. Status' = [Status EXCEPT ![e] = "pending"]
    BY <1>1, <1>3 DEF TypeOK, Enqueue, Status
  <2>2. Contract!Submit(e)
    BY <1>2, <1>3, <2>1 DEF Contract!Submit, Status
  <2> QED BY <2>2 DEF Contract!Next
<1>4. CASE entry[e].state # "absent"
  <2>1. entry' = entry
    BY <1>1, <1>4 DEF TypeOK, Enqueue
  <2> QED BY <1>2, <2>1 DEF Contract!vars
<1> QED
  BY <1>3, <1>4

LEMMA HearsRefines ==
  ASSUME TypeOK, TypeOK', Evidence', NEW e \in Event, Hears(e)
  PROVE  Contract!Hear(e)
<1>1. PICK ok \in SUBSET Relay : acked' = [acked EXCEPT ![e] = @ \cup ok]
  BY DEF Hears
<1>2. CASE UNCHANGED <<entry, proof>>
  BY <1>1, <1>2 DEF Contract!Hear
<1>3. ASSUME NEW rd \in Round, CanCommit(entry[e], proof[e], rd, e \in Eligible),
             entry' = [entry EXCEPT ![e] = CommitRound(@, rd)],
             proof' = [proof EXCEPT ![e] = RecordPublisherProof(@, rd, e \in Eligible)]
      PROVE  Contract!Hear(e)
  <2>1. /\ entry[e] \in Entry /\ entry'[e] \in Entry /\ proof'[e] \in Proof
        /\ acked'[e] \in SUBSET Relay
        /\ entry'[e] = CommitRound(entry[e], rd)
        /\ proof'[e] = RecordPublisherProof(proof[e], rd, e \in Eligible)
        /\ \A f \in Event \ {e} : entry'[f] = entry[f] /\ proof'[f] = proof[f]
    BY <1>3 DEF TypeOK
  <2>2. /\ entry'[e].state = "published" => Contract!QuorumIn(acked'[e])
        /\ proof'[e] # NoProof => Contract!QuorumIn(acked'[e])
    BY <2>1, EvidenceIsQuorum DEF Evidence, EvidenceFor
  <2>3. /\ Proven' \in {Proven, Proven \cup {e}}
        /\ e \in Proven' => proof'[e] # NoProof
    <3>1. proof[e] # NoProof => proof'[e] = proof[e]
      BY <2>1 DEF RecordPublisherProof
    <3>2. \A f \in Event \ {e} : f \in Proven' <=> f \in Proven
      BY <2>1 DEF Proven
    <3>3. e \in Proven => e \in Proven'
      BY <3>1 DEF Proven
    <3>4. Proven \in SUBSET Event /\ Proven' \in SUBSET Event
      BY DEF Proven
    <3>5. Proven' = Proven \/ Proven' = Proven \cup {e}
      BY <3>2, <3>3, <3>4
    <3>6. e \in Proven' => proof'[e] # NoProof
      BY DEF Proven
    <3> QED BY <3>5, <3>6
  <2>4. \/ Status' = Status
        \/ /\ Status[e] = "pending"
           /\ \/ Status' = [Status EXCEPT ![e] = "failed"]
              \/ /\ Status' = [Status EXCEPT ![e] = "published"]
                 /\ entry'[e].state = "published"
    <3>1. CASE entry[e].state # "pending"
      <4>1. entry'[e] = entry[e]
        BY <2>1, <3>1, CommitKeeps
      <4> QED BY <2>1, <4>1 DEF Status
    <3>2. CASE entry[e].state = "pending"
      <4>1. entry'[e].state = rd.state /\ rd.state \in {"pending", "published", "failed"}
        BY <2>1, <3>2, CommitKeeps DEF Round
      <4>2. Status' = [Status EXCEPT ![e] = rd.state]
        BY <2>1, <4>1 DEF Status
      <4>3. Status[e] = "pending" /\ Status = [Status EXCEPT ![e] = "pending"]
        BY <3>2 DEF Status
      <4> QED BY <4>1, <4>2, <4>3
    <3> QED BY <3>1, <3>2
  <2> QED BY <1>1, <2>2, <2>3, <2>4 DEF Contract!Hear, Status, Proven
<1> QED
  BY <1>2, <1>3 DEF Hears

LEMMA SetsRefine ==
  ASSUME TypeOK, NEW set \in SUBSET Event
  PROVE  /\ Reopens(set) => Contract!Reopen(set)
         /\ Expires(set) => Contract!Expire(set)
<1>1. ASSUME Reopens(set) PROVE Contract!Reopen(set)
  <2>1. \A f \in Event : Retry(entry[f]).state = "pending"
    BY DEF Retry, TypeOK, Entry
  <2>2. Status' = [e \in Event |-> IF e \in set THEN "pending" ELSE Status[e]]
    BY <1>1, <2>1 DEF Reopens, Status
  <2> QED BY <1>1, <2>2 DEF Contract!Reopen, Reopens, Status
<1>2. ASSUME Expires(set) PROVE Contract!Expire(set)
  <2>1. Status' = [e \in Event |-> IF e \in set THEN "absent" ELSE Status[e]]
    BY <1>2 DEF Expires, Status, NoEntry
  <2> QED BY <1>2, <2>1 DEF Contract!Expire, Expires, Settled, Status
<1> QED
  BY <1>1, <1>2

LEMMA StepRefines ==
  ASSUME TypeOK, TypeOK', Evidence', [Next]_vars
  PROVE  [Contract!Next]_(Contract!vars)
<1>1. DurableStep
  BY NextDurable
<1>2. CASE UNCHANGED <<entry, proof, acked>>
  BY <1>2 DEF Contract!vars
<1>3. ASSUME NEW e \in Event, Submits(e) \/ Hears(e)
      PROVE  [Contract!Next]_(Contract!vars)
  BY <1>3, SubmitsRefines, HearsRefines DEF Contract!Next
<1>4. ASSUME NEW set \in SUBSET Event, Reopens(set) \/ Expires(set)
      PROVE  [Contract!Next]_(Contract!vars)
  BY <1>4, SetsRefine DEF Contract!Next
<1> QED
  BY <1>1, <1>2, <1>3, <1>4 DEF DurableStep

(* The publisher and its outbox implement PublishContract: every round,    *)
(* admission, operator retry, pruning, crash and relay policy change of    *)
(* the daemon is, in what the outbox promises, one of the contract's       *)
(* actions or nothing at all.                                              *)
THEOREM ContractIsImplemented == Spec => ImplementsContract
<1>1. Init => Contract!Init
  BY ContractInit
<1>2. TypeOK /\ TypeOK' /\ Evidence' /\ [Next]_vars => [Contract!Next]_(Contract!vars)
  BY StepRefines
<1> QED
  BY <1>1, <1>2, TypeCorrect, EvidenceCorrect, PTL DEF Spec, ImplementsContract, Contract!Spec

-----------------------------------------------------------------------------
(* Events that no call publishes inline: PublishBeforeCommit answers only  *)
(* from its own steps, Enqueue before any round, and a foreign event has   *)
(* no call.  The caller of such an event never holds a round that can be   *)
(* released with a verdict.                                                *)

OwnSteps == {"admitting", "keeping", "recording"}

ShapeOf(p, c, d) ==
  p # "inline" => /\ c.at \in {"admit", "keep"} => p = "enqueue"
                  /\ c.at \notin {"ready", "waiting"}
                  /\ d.holder = "caller" => d.step \in OwnSteps

Shape == \A e \in Event : ShapeOf(Path[e], call[e], delivery[e])

(* An eligible event that was not published inline is proven before its    *)
(* caller is told that it succeeded.                                       *)
AnsweredOf(e, t, pf) == e \in Eligible /\ Path[e] # "inline" /\ t = "ok" => pf # NoProof

Answered == \A e \in Event : AnsweredOf(e, told[e], proof[e])

(* A step for event e that keeps both.                                     *)
Orderly(e) ==
  /\ \A f \in Event \ {e} : call'[f] = call[f] /\ delivery'[f] = delivery[f] /\ told'[f] = told[f]
  /\ ShapeOf(Path[e], call'[e], delivery'[e])
  /\ AnsweredOf(e, told[e], proof[e]) => AnsweredOf(e, told'[e], proof'[e])

LEMMA OrderlyKeeps ==
  ASSUME TypeOK, AbsentIsEmpty, DurableStep, Shape, NEW e \in Event, Orderly(e)
  PROVE  Shape' /\ (Answered => Answered')
<1>1. ASSUME NEW f \in Event PROVE ShapeOf(Path[f], call'[f], delivery'[f])
  BY DEF Shape, Orderly
<1>2. ASSUME Answered, NEW f \in Event PROVE AnsweredOf(f, told'[f], proof'[f])
  <2>1. proof[f] # NoProof => proof'[f] = proof[f]
    BY DurableKeeps DEF Progress
  <2> QED BY <1>2, <2>1 DEF Answered, AnsweredOf, Orderly
<1> QED
  BY <1>1, <1>2 DEF Shape, Answered

(* What the shared steps make of the holder and the step of a delivery.    *)
LEMMA BeginRoundShape ==
  ASSUME TypeOK, NEW e \in Event, NEW who \in {"caller", "runner"},
         NEW d \in DeliveryRecord, BeginRound(e, who, d)
  PROVE  /\ delivery'[e].holder = who /\ delivery'[e].step = "sending"
         /\ \A f \in Event \ {e} : delivery'[f] = delivery[f]
<1> DEFINE relays == SyncRelays(d.relays, writeRelays)
           d1 == [d EXCEPT !.holder = who, !.step = "sending", !.conf = writeRelays,
                           !.relays = relays, !.scheduled = FALSE]
<1>1. delivery' = [delivery EXCEPT ![e] = d1]
  BY DEF BeginRound
<1>2. d1.holder = who /\ d1.step = "sending"
  <2> HIDE DEF relays
  <2> QED BY DEF DeliveryRecord
<1> HIDE DEF d1
<1> QED
  BY <1>1, <1>2 DEF TypeOK

LEMMA ReleaseShape ==
  ASSUME TypeOK, NEW e \in Event, Release(e)
  PROVE  /\ delivery'[e].holder = "none" /\ delivery'[e].step = "idle"
         /\ call'[e] \in {NoCall, call[e]}
         /\ \A f \in Event \ {e} : /\ delivery'[f] = delivery[f]
                                   /\ call'[f] = call[f] /\ told'[f] = told[f]
         /\ delivery[e].holder # "caller" /\ call[e].at # "waiting"
              => told'[e] = told[e] /\ call'[e] = call[e]
<1> DEFINE d  == delivery[e]
           d1 == [d EXCEPT !.holder = "none", !.step = "idle", !.conf = {},
                           !.announce = FALSE, !.scheduled = TRUE]
<1>1. \/ delivery' = [delivery EXCEPT ![e] = NoDelivery]
      \/ delivery' = [delivery EXCEPT ![e] = d1]
  BY DEF Release
<1>2. d1.holder = "none" /\ d1.step = "idle"
  <2>1. d \in DeliveryRecord
    BY DEF TypeOK
  <2> HIDE DEF d
  <2> QED BY <2>1 DEF DeliveryRecord
<1>3. NoDelivery.holder = "none" /\ NoDelivery.step = "idle"
  BY DEF NoDelivery
<1>4. /\ delivery'[e].holder = "none" /\ delivery'[e].step = "idle"
      /\ \A f \in Event \ {e} : delivery'[f] = delivery[f]
  <2> HIDE DEF d1
  <2> QED BY <1>1, <1>2, <1>3 DEF TypeOK
<1>5. /\ call'[e] \in {NoCall, call[e]}
      /\ \A f \in Event \ {e} : call'[f] = call[f] /\ told'[f] = told[f]
      /\ delivery[e].holder # "caller" /\ call[e].at # "waiting"
           => told'[e] = told[e] /\ call'[e] = call[e]
  BY DEF Release, TypeOK
<1> QED
  BY <1>4, <1>5

LEMMA NextStepShape ==
  ASSUME TypeOK, NEW e \in Event, NEW st,
         delivery' = [delivery EXCEPT ![e].step = st]
  PROVE  /\ delivery'[e].holder = delivery[e].holder /\ delivery'[e].step = st
         /\ \A f \in Event \ {e} : delivery'[f] = delivery[f]
<1> DEFINE d  == delivery[e]
           d1 == [d EXCEPT !.step = st]
<1>1. delivery' = [delivery EXCEPT ![e] = d1] /\ d \in DeliveryRecord
  BY DEF TypeOK
<1>2. d1.holder = d.holder /\ d1.step = st
  <2> HIDE DEF d
  <2> QED BY <1>1 DEF DeliveryRecord
<1> HIDE DEF d1
<1> QED
  BY <1>1, <1>2 DEF TypeOK

LEMMA EndRoundShape ==
  ASSUME TypeOK, NEW e \in Event, NEW o \in RoundOutcomes(e), EndRoundWith(e, o)
  PROVE  /\ delivery[e].step = "sending"
         /\ delivery'[e].holder = delivery[e].holder /\ delivery'[e].step = "committed"
         /\ \A f \in Event \ {e} : delivery'[f] = delivery[f]
         /\ UNCHANGED <<call, told, store, marker>>
<1> DEFINE d         == delivery[e]
           relays    == ApplyRound(d.relays, o)
           rounds    == IF Countable(o) THEN CountRound(d.rounds) ELSE d.rounds
           delivered == QuorumReached(relays, d.conf)
           settled   == RoundSettles(relays, d.conf, rounds)
           after(ok) == [d EXCEPT !.step = "committed", !.rounds = rounds, !.relays = relays,
                                  !.settled = settled /\ ok, !.delivered = delivered,
                                  !.reported = d.reported \/ (ok /\ delivered),
                                  !.announce = ok /\ delivered /\ ~d.reported]
<1>1. d \in DeliveryRecord
  BY DEF TypeOK
<1>2. PICK ok \in BOOLEAN : delivery' = [delivery EXCEPT ![e] = after(ok)]
  BY DEF EndRoundWith
<1>3. after(ok).holder = d.holder /\ after(ok).step = "committed"
  <2> HIDE DEF d, relays, rounds, delivered, settled
  <2> QED BY <1>1 DEF DeliveryRecord
<1>4. /\ delivery'[e].holder = delivery[e].holder /\ delivery'[e].step = "committed"
      /\ \A f \in Event \ {e} : delivery'[f] = delivery[f]
  <2> HIDE DEF after
  <2> QED BY <1>2, <1>3 DEF TypeOK
<1>5. d.step = "sending" /\ UNCHANGED <<call, told, store, marker>>
  BY DEF EndRoundWith
<1> QED
  BY <1>4, <1>5

LEMMA NoCallShape ==
  ASSUME NEW p, NEW d, d.holder = "none"
  PROVE  ShapeOf(p, NoCall, d)
BY DEF ShapeOf, NoCall

LEMMA RoundStepShape ==
  ASSUME TypeOK, Shape, NEW e \in Event, RoundStep(e)
  PROVE  Orderly(e)
<1>0. ShapeOf(Path[e], call[e], delivery[e])
  BY DEF Shape
<1>1. ASSUME NEW o \in RoundOutcomes(e), EndRoundWith(e, o)
      PROVE  Orderly(e)
  <2>1. ShapeOf(Path[e], call'[e], delivery'[e])
    BY <1>0, <1>1, EndRoundShape DEF ShapeOf, OwnSteps
  <2>2. proof[e] # NoProof => proof'[e] # NoProof
    BY <1>1 DEF EndRoundWith, RecordPublisherProof, TypeOK
  <2> QED BY <1>1, <2>1, <2>2, EndRoundShape DEF Orderly, AnsweredOf
<1>2. ASSUME Release(e), delivery[e].step \in {"committed", "marking"}, proof' = proof
      PROVE  Orderly(e)
  <2>1. ShapeOf(Path[e], call'[e], delivery'[e])
    BY <1>0, <1>2, ReleaseShape, NoCallShape DEF ShapeOf
  <2>2. Path[e] # "inline" => delivery[e].holder # "caller" /\ call[e].at # "waiting"
    BY <1>0, <1>2 DEF ShapeOf, OwnSteps
  <2>3. Path[e] # "inline" => told'[e] = told[e]
    BY <1>2, <2>2, ReleaseShape
  <2> QED BY <1>2, <2>1, <2>3, ReleaseShape DEF Orderly, AnsweredOf
<1>3. CASE KeepAbandoned(e)
  <2>1. /\ delivery[e].holder = "runner" /\ UNCHANGED <<call, told, proof>>
        /\ delivery' = [delivery EXCEPT ![e].step = "marking"]
    BY <1>3 DEF KeepAbandoned, history
  <2>2. ShapeOf(Path[e], call'[e], delivery'[e])
    BY <1>0, <2>1, NextStepShape DEF ShapeOf
  <2> QED BY <2>1, <2>2, NextStepShape DEF Orderly
<1> QED
  BY <1>1, <1>2, <1>3 DEF RoundStep, EndRound, Conclude, ForgetOwnEvent,
                          MarkOwnEventUndelivered

LEMMA StartCallShape ==
  ASSUME TypeOK, NEW e \in Event, NEW at, StartCall(e, at)
  PROVE  /\ call'[e].at = at
         /\ \A f \in Event \ {e} : call'[f] = call[f]
         /\ UNCHANGED <<told, proof, store, marker, runner>>
BY DEF StartCall, TypeOK, durable, history

LEMMA CallStepShape ==
  ASSUME TypeOK, Shape, NEW e \in Event, CallStep(e)
  PROVE  /\ Orderly(e)
         /\ delivery'[e].step = "marking" => delivery[e].step = "marking"
<1> DEFINE Marks == delivery'[e].step = "marking" => delivery[e].step = "marking"
<1>0. /\ ShapeOf(Path[e], call[e], delivery[e])
      /\ delivery[e] \in DeliveryRecord /\ call[e] \in CallRecord
  BY DEF Shape, TypeOK
<1>1. /\ NoDelivery.holder = "none" /\ NoDelivery.step = "idle"
      /\ NewDelivery.holder = "none" /\ NewDelivery.step = "idle"
  BY DEF NoDelivery, NewDelivery
<1>2. CASE PublishInline(e)
  <2>1. /\ Path[e] = "inline" /\ StartCall(e, "admit")
        /\ \/ delivery' = delivery
           \/ delivery' = [delivery EXCEPT ![e] = NewDelivery]
    BY <1>2 DEF PublishInline
  <2>2. Marks /\ \A f \in Event \ {e} : delivery'[f] = delivery[f]
    BY <1>1, <2>1 DEF TypeOK
  <2> QED BY <2>1, <2>2, StartCallShape DEF Orderly, ShapeOf, AnsweredOf
<1>3. CASE EnqueueCall(e)
  <2>1. Path[e] = "enqueue" /\ StartCall(e, "admit") /\ delivery' = delivery
    BY <1>3 DEF EnqueueCall
  <2> QED BY <1>0, <2>1, StartCallShape DEF Orderly, ShapeOf
<1>4. CASE PublishBeforeCommit(e)
  <2>1. Path[e] = "beforeCommit" /\ StartCall(e, "first") /\ delivery' = delivery
    BY <1>4 DEF PublishBeforeCommit
  <2> QED BY <1>0, <2>1, StartCallShape DEF Orderly, ShapeOf
<1>5. CASE Admit(e)
  <2>1. /\ call[e].at = "admit" /\ call' = [call EXCEPT ![e].at = "keep"]
        /\ UNCHANGED <<delivery, told, proof>>
    BY <1>5 DEF Admit, history
  <2>2. call'[e].at = "keep" /\ \A f \in Event \ {e} : call'[f] = call[f]
    BY <1>0, <2>1 DEF TypeOK, CallRecord
  <2> QED BY <1>0, <2>1, <2>2 DEF Orderly, ShapeOf
<1>6. CASE AdmitFails(e)
  <2>1. /\ call' = [call EXCEPT ![e] = NoCall] /\ told' = [told EXCEPT ![e] = "error"]
        /\ proof' = proof
        /\ delivery' = [delivery EXCEPT ![e] = NoDelivery] \/ delivery' = delivery
    BY <1>6 DEF AdmitFails, durable
  <2>2. Marks /\ delivery'[e] \in {NoDelivery, delivery[e]}
        /\ \A f \in Event \ {e} : delivery'[f] = delivery[f]
    BY <1>1, <2>1 DEF TypeOK
  <2>3. /\ call'[e] = NoCall /\ told'[e] = "error"
        /\ \A f \in Event \ {e} : call'[f] = call[f] /\ told'[f] = told[f]
    BY <2>1 DEF TypeOK
  <2> QED BY <1>0, <1>1, <2>2, <2>3 DEF Orderly, ShapeOf, AnsweredOf, NoCall
<1>7. CASE KeepOwnEvent(e)
  <2>1. call[e].at = "keep" /\ UNCHANGED <<delivery, proof>>
    BY <1>7 DEF KeepOwnEvent
  <2>2. CASE Path[e] = "enqueue"
    <3>1. call' = [call EXCEPT ![e] = NoCall] /\ told' = [told EXCEPT ![e] = "queued"]
      BY <1>7, <2>2 DEF KeepOwnEvent
    <3>2. /\ call'[e] = NoCall /\ told'[e] = "queued"
          /\ \A f \in Event \ {e} : call'[f] = call[f] /\ told'[f] = told[f]
      BY <3>1 DEF TypeOK
    <3> QED BY <1>0, <2>1, <3>2 DEF Orderly, ShapeOf, AnsweredOf, NoCall
  <2>3. CASE Path[e] # "enqueue"
    <3>1. call' = [call EXCEPT ![e].at = "ready"] /\ told' = told
      BY <1>7, <2>3 DEF KeepOwnEvent
    <3>2. Path[e] = "inline"
      BY <1>0, <2>1, <2>3 DEF ShapeOf
    <3>3. \A f \in Event \ {e} : call'[f] = call[f]
      BY <3>1 DEF TypeOK
    <3> QED BY <2>1, <3>1, <3>2, <3>3 DEF Orderly, ShapeOf, AnsweredOf
  <2> QED BY <2>2, <2>3
<1>8. CASE CallerRound(e)
  <2> DEFINE d == IF delivery[e].tracked THEN delivery[e] ELSE NewDelivery
  <2>1. /\ call[e].at \in {"ready", "waiting"} /\ BeginRound(e, "caller", d)
        /\ call' = [call EXCEPT ![e].at = "round"] /\ UNCHANGED <<told, proof>>
    BY <1>8 DEF CallerRound, durable, history
  <2>2. d \in DeliveryRecord
    BY <1>0, DeliveryTypes
  <2>3. Path[e] = "inline"
    BY <1>0, <2>1 DEF ShapeOf
  <2>4. \A f \in Event \ {e} : call'[f] = call[f]
    BY <2>1 DEF TypeOK
  <2> HIDE DEF d
  <2> QED BY <2>1, <2>2, <2>3, <2>4, BeginRoundShape DEF Orderly, ShapeOf, AnsweredOf
<1>9. CASE CallerWaits(e)
  <2>1. /\ call[e].at = "ready" /\ call' = [call EXCEPT ![e].at = "waiting"]
        /\ UNCHANGED <<delivery, told, proof>>
    BY <1>9 DEF CallerWaits, durable, history
  <2>2. Path[e] = "inline"
    BY <1>0, <2>1 DEF ShapeOf
  <2>3. \A f \in Event \ {e} : call'[f] = call[f]
    BY <2>1 DEF TypeOK
  <2> QED BY <2>1, <2>2, <2>3 DEF Orderly, ShapeOf, AnsweredOf
<1>10. CASE FirstRound(e)
  <2>1. PICK o \in Outcomes(Fresh, call[e].conf) :
          LET conf   == call[e].conf
              relays == ApplyRound(Fresh, o)
          IN  \/ /\ call' = [call EXCEPT ![e] = NoCall]
                 /\ told' = [told EXCEPT ![e] =
                      IF QuorumReached(relays, conf) /\ proof[e] # NoProof
                      THEN "ok" ELSE "error"]
                 /\ UNCHANGED delivery
              \/ /\ delivery' = [delivery EXCEPT ![e] =
                      [NewDelivery EXCEPT !.holder = "caller", !.step = "admitting",
                         !.conf = conf, !.rounds = 1, !.relays = relays,
                         !.delivered = TRUE]]
                 /\ call' = [call EXCEPT ![e] = [at |-> "round", conf |-> {}]]
                 /\ UNCHANGED told
    BY <1>10 DEF FirstRound
  <2>2. proof' = proof
    BY <1>10 DEF FirstRound, durable
  <2> DEFINE conf   == call[e].conf
             relays == ApplyRound(Fresh, o)
             d1     == [NewDelivery EXCEPT !.holder = "caller", !.step = "admitting",
                          !.conf = conf, !.rounds = 1, !.relays = relays,
                          !.delivered = TRUE]
  <2>3. CASE /\ call' = [call EXCEPT ![e] = NoCall]
             /\ told' = [told EXCEPT ![e] =
                  IF QuorumReached(relays, conf) /\ proof[e] # NoProof
                  THEN "ok" ELSE "error"]
             /\ UNCHANGED delivery
    <3>1. /\ call'[e] = NoCall /\ told'[e] = "ok" => proof[e] # NoProof
          /\ \A f \in Event \ {e} : call'[f] = call[f] /\ told'[f] = told[f]
      BY <2>3 DEF TypeOK
    <3> QED BY <1>0, <2>2, <2>3, <3>1 DEF Orderly, ShapeOf, AnsweredOf, NoCall
  <2>4. CASE /\ delivery' = [delivery EXCEPT ![e] = d1]
             /\ call' = [call EXCEPT ![e] = [at |-> "round", conf |-> {}]]
             /\ UNCHANGED told
    <3>1. d1.holder = "caller" /\ d1.step = "admitting"
      <4>1. NewDelivery \in DeliveryRecord
        BY DeliveryTypes
      <4> HIDE DEF conf, relays
      <4> QED BY <4>1 DEF DeliveryRecord
    <3> HIDE DEF d1
    <3>2. /\ delivery'[e] = d1 /\ call'[e].at = "round"
          /\ \A f \in Event \ {e} : call'[f] = call[f] /\ delivery'[f] = delivery[f]
      BY <2>4 DEF TypeOK
    <3> QED BY <2>2, <2>4, <3>1, <3>2 DEF Orderly, ShapeOf, OwnSteps
  <2> QED BY <2>1, <2>3, <2>4
<1>11. CASE AdmitDelivered(e) \/ KeepDelivered(e)
  <2>1. PICK st \in {"keeping", "recording"} : delivery' = [delivery EXCEPT ![e].step = st]
    BY <1>11 DEF AdmitDelivered, KeepDelivered
  <2>2. UNCHANGED <<call, told, proof>>
    BY <1>11 DEF AdmitDelivered, KeepDelivered, history
  <2>3. /\ delivery'[e].step = st
        /\ \A f \in Event \ {e} : delivery'[f] = delivery[f]
    BY <2>1, NextStepShape
  <2> QED BY <1>0, <2>2, <2>3 DEF Orderly, ShapeOf, OwnSteps
<1>12. CASE RecordDelivered(e)
  <2> DEFINE d       == delivery[e]
             settled == RetryableRelays(d.relays, d.conf) = {}
             rd      == RoundOf(d.conf, d.rounds, d.relays, TRUE, settled)
             d1      == [d EXCEPT !.holder = "none", !.step = "idle", !.conf = {},
                                  !.reported = TRUE, !.scheduled = TRUE]
  <2>1. /\ CanCommit(entry[e], proof[e], rd, e \in Eligible)
        /\ proof' = [proof EXCEPT ![e] = RecordPublisherProof(@, rd, e \in Eligible)]
        /\ told' = [told EXCEPT ![e] = "ok"]
        /\ call' = [call EXCEPT ![e] = NoCall]
        /\ \/ delivery' = [delivery EXCEPT ![e] = NoDelivery]
           \/ delivery' = [delivery EXCEPT ![e] = d1]
    BY <1>12 DEF RecordDelivered
  <2>2. d1.holder = "none" /\ d1.step = "idle"
    <3> HIDE DEF d
    <3> QED BY <1>0 DEF DeliveryRecord, d
  <2>3. /\ call'[e] = NoCall
        /\ \A f \in Event \ {e} : call'[f] = call[f] /\ told'[f] = told[f]
    BY <2>1 DEF TypeOK
  <2>4. /\ delivery'[e].holder = "none" /\ delivery'[e].step = "idle"
        /\ \A f \in Event \ {e} : delivery'[f] = delivery[f]
    <3> HIDE DEF d1
    <3> QED BY <1>1, <2>1, <2>2 DEF TypeOK
  <2>5. e \in Eligible => proof'[e] # NoProof
    <3>1. rd.delivered = TRUE
      BY DEF RoundOf
    <3>2. proof'[e] = RecordPublisherProof(proof[e], rd, e \in Eligible)
      BY <2>1 DEF TypeOK
    <3>3. ~ValidFor(NoProof)
      BY DEF ValidFor, NoProof
    <3> HIDE DEF rd
    <3> QED BY <2>1, <3>1, <3>2, <3>3 DEF CanCommit, RecordPublisherProof
  <2> QED BY <2>3, <2>4, <2>5, NoCallShape DEF Orderly, AnsweredOf
<1>13. CASE RecordFails(e)
  <2>1. /\ delivery' = [delivery EXCEPT ![e] = NoDelivery]
        /\ call' = [call EXCEPT ![e] = NoCall] /\ told' = [told EXCEPT ![e] = "error"]
    BY <1>13 DEF RecordFails
  <2>2. /\ delivery'[e] = NoDelivery /\ call'[e] = NoCall /\ told'[e] = "error"
        /\ \A f \in Event \ {e} : /\ call'[f] = call[f] /\ told'[f] = told[f]
                                  /\ delivery'[f] = delivery[f]
    BY <2>1 DEF TypeOK
  <2> QED BY <1>1, <2>2, NoCallShape DEF Orderly, AnsweredOf
<1> QED
  BY <1>2, <1>3, <1>4, <1>5, <1>6, <1>7, <1>8, <1>9, <1>10, <1>11, <1>12, <1>13
     DEF CallStep, CallProgress

(* The runner and the environment answer nobody; a crash clears all calls. *)
LEMMA RunnerStepShape ==
  ASSUME TypeOK, RunnerStep
  PROVE  /\ UNCHANGED <<call, told>>
         /\ \A f \in Event : \/ delivery'[f] = delivery[f]
                             \/ delivery'[f].holder = "runner" /\ delivery'[f].step = "sending"
<1>0. \A f \in Event : runner.page[f].rounds \in Nat /\ runner.page[f].relays \in [Relay -> RelayStatus]
  BY DEF TypeOK, RunnerRecord, Entry
<1>1. CASE \/ RunnerStart \/ RestoreMark \/ RestoreDone \/ ListPending \/ Prune
           \/ \E e \in Event : RestoreSave(e) \/ SkipTracked(e)
  BY <1>1 DEF RunnerStart, RestoreMark, RestoreDone, ListPending, Prune, RestoreSave,
              SkipTracked, history
<1>2. ASSUME NEW e \in Event, Redeliver(e) \/ Discover(e)
      PROVE  /\ UNCHANGED <<call, told>>
             /\ \A f \in Event :
                  \/ delivery'[f] = delivery[f]
                  \/ delivery'[f].holder = "runner" /\ delivery'[f].step = "sending"
  <2> DEFINE found == [NewDelivery EXCEPT !.rounds = runner.page[e].rounds,
                                          !.relays = runner.page[e].relays]
  <2>1. delivery[e] \in DeliveryRecord /\ found \in DeliveryRecord
    BY <1>0, DeliveryTypes DEF TypeOK, DeliveryRecord
  <2>2. BeginRound(e, "runner", delivery[e]) \/ BeginRound(e, "runner", found)
    BY <1>2 DEF Redeliver, Discover
  <2>3. UNCHANGED <<call, told>>
    BY <1>2 DEF Redeliver, Discover, history
  <2> HIDE DEF found
  <2>4. /\ delivery'[e].holder = "runner" /\ delivery'[e].step = "sending"
        /\ \A f \in Event \ {e} : delivery'[f] = delivery[f]
    BY <2>1, <2>2, BeginRoundShape
  <2> QED BY <2>3, <2>4
<1> QED
  BY <1>1, <1>2 DEF RunnerStep

LEMMA EnvironmentShape ==
  ASSUME TypeOK, Environment
  PROVE  /\ UNCHANGED told
         /\ \A f \in Event : \/ delivery'[f] = delivery[f] /\ call'[f] = call[f]
                             \/ delivery'[f] = NoDelivery /\ call'[f] = NoCall
BY DEF Environment, RetryAllFailed, ChangeRelays, Crash, OperatorRetry, InboundEvent, history

LEMMA ShapeStep ==
  ASSUME TypeOK, AbsentIsEmpty, Shape, [Next]_vars
  PROVE  Shape' /\ (Answered => Answered')
<1>0. DurableStep
  BY NextDurable
<1>1. ASSUME NEW e \in Event, RoundStep(e) \/ CallStep(e)
      PROVE  Shape' /\ (Answered => Answered')
  <2>1. Orderly(e)
    BY <1>1, RoundStepShape, CallStepShape
  <2> QED BY <1>0, <2>1, OrderlyKeeps
<1>2. ASSUME UNCHANGED told PROVE Answered => Answered'
  <2>1. ASSUME NEW f \in Event PROVE proof[f] # NoProof => proof'[f] = proof[f]
    BY <1>0, DurableKeeps DEF Progress
  <2> QED BY <1>2, <2>1 DEF Answered, AnsweredOf
<1>3. CASE RunnerStep
  <2>1. Shape'
    BY <1>3, RunnerStepShape DEF Shape, ShapeOf
  <2> QED BY <1>2, <1>3, <2>1, RunnerStepShape
<1>4. CASE Environment
  <2>1. Shape'
    BY <1>4, EnvironmentShape DEF Shape, ShapeOf, NoDelivery, NoCall
  <2> QED BY <1>2, <1>4, <2>1, EnvironmentShape
<1>5. CASE UNCHANGED vars
  BY <1>5 DEF vars, durable, history, Shape, Answered
<1> QED
  BY <1>1, <1>3, <1>4, <1>5 DEF Next

LEMMA ShapeInit == Init => AbsentIsEmpty /\ Shape /\ Answered
BY DEF Init, AbsentIsEmpty, Shape, ShapeOf, Answered, AnsweredOf, NoCall, NoDelivery

(* An event that is not published inline never has a caller in a round of  *)
(* deliverRound or waiting on one, and success is reported on its proof    *)
(* only (PublishBeforeCommit, Enqueue).                                    *)
THEOREM ShapeCorrect == Spec => [](AbsentIsEmpty /\ Shape /\ Answered)
<1>1. TypeOK /\ AbsentIsEmpty /\ Shape /\ Answered /\ [Next]_vars
        => (AbsentIsEmpty /\ Shape /\ Answered)'
  BY ShapeStep, NextDurable, DurableKeeps
<1> QED
  BY ShapeInit, <1>1, TypeCorrect, PTL DEF Spec

(* PublishBeforeCommit and Enqueue report success only on a durable proof: *)
(* unless an eligible event is published inline, a caller that was told    *)
(* the quorum accepted finds the quorum's proof, whatever crashes, failed  *)
(* transactions and earlier calls for the event there were.                *)
THEOREM SuccessIsDurable ==
  ASSUME \A e \in Eligible : Path[e] # "inline"
  PROVE  Spec => []SuccessIsProven
<1>1. Answered => SuccessIsProven
  BY DeliveryAssumption DEF Answered, AnsweredOf, SuccessIsProven
<1> QED
  BY <1>1, ShapeCorrect, PTL
-----------------------------------------------------------------------------
(* The marker and the version held, when no caller's round can delete the  *)
(* event from the store: an event about to be marked, by a round or by the *)
(* startup restoration, has been saved, and the store only moves on.       *)

Backed ==
  /\ marker <= store
  /\ \A e \in Event : delivery[e].step = "marking" => e <= store
  /\ runner.at = "remarking" => runner.current <= store

LEMMA BackedFrame ==
  ASSUME Backed, UNCHANGED <<store, marker>>,
         \A f \in Event : delivery'[f].step = "marking" => delivery[f].step = "marking",
         runner'.at = "remarking" => runner' = runner
  PROVE  Backed'
BY DEF Backed

(* Saving an event whose own mark may follow.                              *)
LEMMA BackedSave ==
  ASSUME TypeOK, Backed, NEW e \in Event, SaveOwn(e),
         \A f \in Event : delivery'[f].step = "marking"
                            => delivery[f].step = "marking" \/ f = e,
         runner'.at = "remarking" => runner' = runner \/ runner'.current = e
  PROVE  Backed'
<1>1. /\ e \in Nat /\ e > 0 /\ store \in Nat /\ marker \in Nat /\ Event \subseteq Nat
      /\ runner.current \in Nat
  <2>1. Event \subseteq Nat /\ None \in Nat
    BY DeliveryAssumption DEF None
  <2>2. e \in Nat /\ e > 0
    BY DeliveryAssumption
  <2>3. store \in Nat /\ marker \in Nat
    BY <2>1 DEF TypeOK
  <2>4. runner.current \in Nat
    <3>1. runner.current \in Event \cup {None}
      BY DEF TypeOK, RunnerRecord
    <3> QED BY <2>1, <3>1
  <2> QED BY <2>1, <2>2, <2>3, <2>4
<1>2. /\ store' = IF e > store THEN e ELSE store
      /\ marker' = IF e > store /\ e > marker THEN None ELSE marker
  BY DEF SaveOwn, SaveEvent, ClearSuperseded
<1>3. store' \in Nat /\ store' >= store /\ store' >= e
  BY <1>1, <1>2
<1>4. marker' <= store'
  BY <1>1, <1>2 DEF Backed, None
<1>5. ASSUME NEW f \in Event, delivery'[f].step = "marking" PROVE f <= store'
  BY <1>1, <1>3, <1>5 DEF Backed
<1>6. runner'.at = "remarking" => runner'.current <= store'
  BY <1>1, <1>3 DEF Backed
<1> QED
  BY <1>4, <1>5, <1>6 DEF Backed

(* Marking an event that was saved.                                        *)
LEMMA BackedMark ==
  ASSUME TypeOK, Backed, NEW e \in Event \cup {None}, e <= store,
         marker' = MarkUndelivered(store, marker, e), store' = store,
         \A f \in Event : delivery'[f].step = "marking" => delivery[f].step = "marking",
         runner'.at = "remarking" => runner' = runner
  PROVE  Backed'
<1>1. e \in Nat /\ store \in Nat /\ marker \in Nat
  BY DeliveryAssumption DEF TypeOK, None
<1>2. marker' <= store'
  BY <1>1 DEF Backed, MarkUndelivered, None
<1> QED
  BY <1>2 DEF Backed

LEMMA RoundStepBacked ==
  ASSUME TypeOK, Shape, Backed, NEW e \in Event, Path[e] # "inline", RoundStep(e)
  PROVE  Backed'
<1>0. ShapeOf(Path[e], call[e], delivery[e])
  BY DEF Shape
<1>1. ASSUME NEW o \in RoundOutcomes(e), EndRoundWith(e, o)
      PROVE  Backed'
  <2>1. \A f \in Event : delivery'[f].step = "marking" => delivery[f].step = "marking"
    BY <1>1, EndRoundShape
  <2>2. runner'.at = "remarking" => runner' = runner
    <3>1. runner' = runner \/ runner' = PassStopped
      BY <1>1 DEF EndRoundWith
    <3>2. PassStopped.at = "idle"
      BY DEF PassStopped, TypeOK, RunnerRecord
    <3> QED BY <3>1, <3>2
  <2> QED BY <1>1, <2>1, <2>2, EndRoundShape, BackedFrame
<1>2. ASSUME Release(e)
      PROVE  \A f \in Event : delivery'[f].step = "marking" => delivery[f].step = "marking"
  BY <1>2, ReleaseShape
<1>3. CASE Conclude(e)
  <2>1. /\ Release(e) /\ UNCHANGED <<store, runner>>
        /\ marker' = marker \/ marker' = ClearUndelivered(marker, e)
    BY <1>3 DEF Conclude
  <2>2. marker' = marker \/ marker' = None
    BY <2>1 DEF ClearUndelivered
  <2>3. None <= store
    BY DeliveryAssumption DEF TypeOK, None
  <2> QED BY <1>2, <2>1, <2>2, <2>3 DEF Backed
<1>4. CASE ForgetOwnEvent(e)
  BY <1>0, <1>4 DEF ForgetOwnEvent, ShapeOf, OwnSteps
<1>5. CASE KeepAbandoned(e)
  <2>1. /\ SaveOwn(e) /\ runner' = runner
        /\ delivery' = [delivery EXCEPT ![e].step = "marking"]
    BY <1>5 DEF KeepAbandoned
  <2>2. \A f \in Event \ {e} : delivery'[f] = delivery[f]
    BY <2>1, NextStepShape
  <2> QED BY <2>1, <2>2, BackedSave
<1>6. CASE MarkOwnEventUndelivered(e)
  <2>1. /\ delivery[e].step = "marking" /\ Release(e) /\ UNCHANGED <<store, runner>>
        /\ marker' = MarkUndelivered(store, marker, e)
    BY <1>6 DEF MarkOwnEventUndelivered
  <2>2. e <= store
    BY <2>1 DEF Backed
  <2> QED BY <1>2, <2>1, <2>2, BackedMark
<1> QED
  BY <1>1, <1>3, <1>4, <1>5, <1>6 DEF RoundStep, EndRound

LEMMA CallStepBacked ==
  ASSUME TypeOK, Shape, Backed, NEW e \in Event, CallStep(e)
  PROVE  Backed'
<1>1. \A f \in Event : delivery'[f].step = "marking" => delivery[f].step = "marking"
  BY CallStepShape DEF Orderly
<1>2. CASE KeepOwnEvent(e) \/ KeepDelivered(e)
  <2>1. SaveOwn(e) /\ runner' = runner
    BY <1>2 DEF KeepOwnEvent, KeepDelivered
  <2> QED BY <1>1, <2>1, BackedSave
<1>3. CASE ~(KeepOwnEvent(e) \/ KeepDelivered(e))
  <2>1. UNCHANGED <<store, marker, runner>>
    BY <1>3 DEF CallStep, CallProgress, PublishInline, EnqueueCall, PublishBeforeCommit,
                StartCall, Admit, AdmitFails, CallerRound, CallerWaits, FirstRound,
                AdmitDelivered, RecordDelivered, RecordFails, durable
  <2> QED BY <1>1, <2>1, BackedFrame
<1> QED
  BY <1>2, <1>3

LEMMA RunnerStepBacked ==
  ASSUME TypeOK, Backed, RunnerStep
  PROVE  Backed'
<1>1. \A f \in Event : delivery'[f].step = "marking" => delivery[f].step = "marking"
  BY RunnerStepShape
<1>2. ASSUME NEW e \in Event, RestoreSave(e)
      PROVE  Backed'
  <2>1. SaveOwn(e) /\ runner' = [runner EXCEPT !.at = "remarking", !.todo = @ \ {e}, !.current = e]
    BY <1>2 DEF RestoreSave
  <2>2. runner'.current = e
    BY <2>1 DEF TypeOK, RunnerRecord
  <2> QED BY <1>1, <2>1, <2>2, BackedSave
<1>3. CASE RestoreMark
  <2>1. /\ runner.at = "remarking" /\ store' = store
        /\ marker' = MarkUndelivered(store, marker, runner.current)
        /\ runner' = [runner EXCEPT !.at = "restoring", !.current = None]
    BY <1>3 DEF RestoreMark
  <2>2. runner'.at = "restoring" /\ runner.current \in Event \cup {None}
    BY <2>1 DEF TypeOK, RunnerRecord
  <2>3. runner.current <= store
    BY <2>1 DEF Backed
  <2> QED BY <1>1, <2>1, <2>2, <2>3, BackedMark
<1>4. CASE \/ RunnerStart \/ RestoreDone \/ ListPending \/ Prune
           \/ \E e \in Event : Redeliver(e) \/ Discover(e) \/ SkipTracked(e)
  <2>1. UNCHANGED <<store, marker>>
    BY <1>4 DEF RunnerStart, RestoreDone, ListPending, Prune, Redeliver, Discover,
                SkipTracked, durable
  <2>2. runner'.at = "remarking" => runner' = runner
    BY <1>4 DEF RunnerStart, RestoreDone, ListPending, Prune, Redeliver, Discover,
                SkipTracked, Turned, TypeOK, RunnerRecord
  <2> QED BY <1>1, <2>1, <2>2, BackedFrame
<1> QED
  BY <1>2, <1>3, <1>4 DEF RunnerStep

LEMMA EnvironmentBacked ==
  ASSUME TypeOK, Backed, Environment
  PROVE  Backed'
<1>1. \A f \in Event : delivery'[f].step = "marking" => delivery[f].step = "marking"
  BY EnvironmentShape DEF NoDelivery
<1>2. runner'.at = "remarking" => runner' = runner
  BY DEF Environment, RetryAllFailed, ChangeRelays, Crash, OperatorRetry, InboundEvent, Stopped
<1>3. ASSUME NEW e \in Event, InboundEvent(e)
      PROVE  Backed'
  BY <1>1, <1>2, <1>3, BackedSave DEF InboundEvent
<1>4. CASE RetryAllFailed \/ ChangeRelays \/ \E e \in Event : OperatorRetry(e)
  <2>1. UNCHANGED <<store, marker>>
    BY <1>4 DEF RetryAllFailed, ChangeRelays, OperatorRetry, durable
  <2> QED BY <1>1, <1>2, <2>1, BackedFrame
<1>5. CASE Crash
  <2>1. /\ marker' = marker /\ runner'.at = "stopped"
        /\ \A f \in Event : delivery'[f].step = "idle"
    BY <1>5 DEF Crash, Stopped, NoDelivery
  <2>2. store \in Nat /\ marker \in Nat /\ Event \subseteq Nat
    BY DeliveryAssumption DEF TypeOK, None
  <2>3. store' >= store /\ store' \in Nat
    BY <1>5, <2>2 DEF Crash, SaveEvent
  <2> QED BY <2>1, <2>2, <2>3 DEF Backed
<1> QED
  BY <1>3, <1>4, <1>5 DEF Environment

LEMMA BackedCorrect ==
  ASSUME \A e \in Event : Path[e] # "inline"
  PROVE  Spec => []Backed
<1>1. Init => Backed
  BY DEF Init, Backed, NoDelivery, Stopped, None
<1>2. TypeOK /\ Shape /\ Backed /\ [Next]_vars => Backed'
  <2> SUFFICES ASSUME TypeOK, Shape, Backed, [Next]_vars PROVE Backed'
    OBVIOUS
  <2>1. CASE UNCHANGED vars
    BY <2>1 DEF vars, durable, Backed
  <2> QED
    BY <2>1, RoundStepBacked, CallStepBacked, RunnerStepBacked, EnvironmentBacked DEF Next
<1> QED
  BY <1>1, <1>2, TypeCorrect, ShapeCorrect, PTL DEF Spec

(* The undelivered marker never outruns the store, so long as no event is  *)
(* published inline: a round of the runner and the startup restoration     *)
(* save an event before they mark it, a crash inside a save leaves at most *)
(* the marker of an older version, and only the round of an inline caller  *)
(* deletes an event.                                                       *)
THEOREM MarkerIsBacked ==
  ASSUME \A e \in Event : Path[e] # "inline"
  PROVE  Spec => []MarkerBacked
<1>1. Backed => MarkerBacked
  BY DEF Backed, MarkerBacked
<1> QED
  BY <1>1, BackedCorrect, PTL
=============================================================================
