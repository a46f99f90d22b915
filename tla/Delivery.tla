------------------------------ MODULE Delivery ------------------------------
(***************************************************************************)
(* Durable delivery of signed events to write relays: the Publisher        *)
(* (internal/adapters/nostr: publisher.go, publish_delivery.go,            *)
(* publish_before_commit.go) over the durable outbox and the local event   *)
(* store.                                                                  *)
(*                                                                         *)
(* The actors are the publishing calls (one at a time per event), the      *)
(* outbox runner (one goroutine), the operator, the relay policy, inbound  *)
(* relay events, and crashes.  A delivery round holds the delivery's mutex *)
(* from BeginRound to Release; in between other actors move.  Every bbolt  *)
(* transaction is a step of its own, so a crash may fall between any two;  *)
(* only the two of a save, which stores a version and then lifts the older *)
(* marker, are one step, and Crash itself may come between them.           *)
(***************************************************************************)
EXTENDS Outbox, LocalStore

CONSTANTS
  Event,            \* positions in the coordinate's NIP-01 order, all > 0
  Path,             \* how each event comes to the daemon
  Eligible,         \* the events whose quorum is recorded as a proof
  Quorum,           \* nostr.publish_quorum: -1 is every relay, 0 means 1
  MaxAttempts,      \* rounds an entry gets before it is given up on
  MaxPublishes,     \* bounds on the environment: calls per event, and per behaviour
  MaxCrashes,       \* crashes, relay policy changes, operator retries and
  MaxRelayChanges,
  MaxRetries,
  MaxFaults         \* failed outbox transactions

ASSUME DeliveryAssumption ==
  /\ Event \subseteq Nat \ {0}
  /\ Path \in [Event -> {"inline", "beforeCommit", "enqueue", "foreign"}]
  /\ Eligible \subseteq Event
  /\ Quorum \in Int
  /\ MaxAttempts \in Nat \ {0}
  /\ MaxPublishes \in Nat /\ MaxCrashes \in Nat /\ MaxRelayChanges \in Nat
  /\ MaxRetries \in Nat /\ MaxFaults \in Nat

VARIABLES
  entry,        \* the outbox entry of each event           (durable)
  proof,        \* its delivery proof                       (durable)
  store,        \* the version the local store holds        (durable)
  marker,       \* the event marked undelivered             (durable)
  delivery,     \* the publisher's in-memory delivery of each event
  call,         \* the publishing call in progress for each event
  runner,       \* the outbox runner
  writeRelays,  \* the write relays of the effective relay policy
  left,         \* what the environment may still do
  acked,        \* history: relays whose OK the publisher heard
  told,         \* history: the last answer a publishing caller got
  notified,     \* history: events OnDelivered handlers were called for
  tried         \* history: rounds in which the relays had a chance

durable  == <<entry, proof, store, marker>>
history  == <<acked, told, notified, tried>>
vars     == <<durable, delivery, call, runner, writeRelays, left, history>>

-----------------------------------------------------------------------------
(* Types.                                                                  *)

Step == {"idle", "sending", "committed", "marking",
         "admitting", "keeping", "recording"}

DeliveryRecord ==
  [tracked : BOOLEAN, holder : {"none", "caller", "runner"}, step : Step,
   conf : SUBSET Relay, rounds : Nat,
   relays : [Relay -> RelayStatus], settled : BOOLEAN, delivered : BOOLEAN,
   reported : BOOLEAN, announce : BOOLEAN, scheduled : BOOLEAN]

NoDelivery ==
  [tracked |-> FALSE, holder |-> "none", step |-> "idle", conf |-> {},
   rounds |-> 0, relays |-> Fresh, settled |-> FALSE, delivered |-> FALSE,
   reported |-> FALSE, announce |-> FALSE, scheduled |-> FALSE]

NewDelivery == [NoDelivery EXCEPT !.tracked = TRUE]

CallRecord == [at : {"idle", "admit", "keep", "ready", "waiting", "round", "first"},
               conf : SUBSET Relay]
NoCall == [at |-> "idle", conf |-> {}]

RunnerRecord == [at : {"stopped", "restoring", "remarking", "idle", "paging"},
                 todo : SUBSET Event, current : Event \cup {None},
                 page : [Event -> Entry]]
NoPage  == [e \in Event |-> NoEntry]
Stopped == [at |-> "stopped", todo |-> {}, current |-> None, page |-> NoPage]

Left == [publishes : [Event -> Nat], crashes : Nat, changes : Nat, retries : Nat, faults : Nat]

TypeOK ==
  /\ entry \in [Event -> Entry]
  /\ proof \in [Event -> Proof]
  /\ store \in Event \cup {None}
  /\ marker \in Event \cup {None}
  /\ delivery \in [Event -> DeliveryRecord]
  /\ call \in [Event -> CallRecord]
  /\ runner \in RunnerRecord
  /\ writeRelays \in SUBSET Relay
  /\ left \in Left
  /\ acked \in [Event -> SUBSET Relay]
  /\ told \in [Event -> {"none", "ok", "queued", "abandoned", "error"}]
  /\ notified \in SUBSET Event
  /\ tried \in [Event -> Nat]

Init ==
  /\ entry = [e \in Event |-> NoEntry]
  /\ proof = [e \in Event |-> NoProof]
  /\ store = None
  /\ marker = None
  /\ delivery = [e \in Event |-> NoDelivery]
  /\ call = [e \in Event |-> NoCall]
  /\ runner = Stopped
  /\ writeRelays = Relay
  /\ left = [publishes |-> [e \in Event |-> MaxPublishes], crashes |-> MaxCrashes,
             changes |-> MaxRelayChanges, retries |-> MaxRetries,
             faults |-> MaxFaults]
  /\ acked = [e \in Event |-> {}]
  /\ told = [e \in Event |-> "none"]
  /\ notified = {}
  /\ tried = [e \in Event |-> 0]

-----------------------------------------------------------------------------
(* What one round learns and decides.                                      *)

(* What the relay pool reports of one target: an OK (or "duplicate:"), a   *)
(* permanent OK=false, any other answer or I/O error, a dial failure the   *)
(* event has not counted, the pool's reconnect backoff for one it has, or  *)
(* a frame the outbound admission controller refused.  A publication the   *)
(* controller refuses whole has the effect of every frame refused.         *)
Outcome == {"accepted", "rejected", "retry", "dialfail", "backoff", "refused"}

Outcomes(relays, targets) ==
  {o \in [targets -> Outcome] :
     \A r \in targets : o[r] = "backoff" => relays[r] = "dialed"}

(* The relays that said OK.                                                *)
OKs(o) == {r \in DOMAIN o : o[r] = "accepted"}

ClassifyPublishResult_AnyAnswer(status, outcome) ==    \* mutant: any answer is an OK
  CASE outcome \in {"accepted", "retry"} -> "accepted"
    [] outcome = "rejected" -> outcome
    [] outcome = "dialfail" -> "dialed"
    [] OTHER -> status

ClassifyPublishResult(status, outcome) ==
  CASE outcome \in {"accepted", "rejected"} -> outcome
    [] outcome = "dialfail" -> "dialed"
    [] OTHER -> status

ApplyRound(relays, o) ==
  [r \in Relay |-> IF r \in DOMAIN o THEN ClassifyPublishResult(relays[r], o[r])
                                     ELSE relays[r]]

(* applyRound calls a round countable when it had no target or some result *)
(* is not a known backoff; deliverRound takes that back when every result  *)
(* is a controller refusal.                                                *)
AllAdmissionRefusals_Never(o) == FALSE    \* mutant: refused rounds count

AllAdmissionRefusals(o) ==
  DOMAIN o # {} /\ \A r \in DOMAIN o : o[r] = "refused"

Countable(o) ==
  /\ DOMAIN o = {} \/ \E r \in DOMAIN o : o[r] # "backoff"
  /\ ~AllAdmissionRefusals(o)

(* The relays had a chance: there was none to ask, or neither did the      *)
(* controller refuse every frame nor the pool hold back every relay.       *)
Tried(o) ==
  \/ DOMAIN o = {}
  \/ /\ \E r \in DOMAIN o : o[r] # "refused"
     /\ \E r \in DOMAIN o : o[r] # "backoff"

RequiredAcceptances(n) ==
  LET wanted == IF Quorum = -1 THEN n ELSE IF Quorum <= 0 THEN 1 ELSE Quorum
  IN  IF wanted < n THEN wanted ELSE n

(* A relay that left the write set is forgotten, a new one starts open.    *)
SyncRelays(relays, conf) ==
  [r \in Relay |-> IF r \in conf THEN relays[r] ELSE "open"]

RetryableRelays(relays, conf) == {r \in conf : relays[r] \in {"open", "dialed"}}
AcceptedRelays(relays, conf)  == {r \in conf : relays[r] = "accepted"}

QuorumReached_AnyAnswer(relays, conf) ==  \* mutant: a rejection counts as an answer
  /\ conf # {}
  /\ Cardinality({r \in conf : relays[r] \in {"accepted", "rejected"}})
       >= RequiredAcceptances(Cardinality(conf))

(* The verdict of a round: the quorum is reached, and delivery is over.    *)
QuorumReached(relays, conf) ==
  /\ conf # {}
  /\ Cardinality(AcceptedRelays(relays, conf)) >= RequiredAcceptances(Cardinality(conf))

RoundSettles_NoBudget(relays, conf, rounds) ==    \* mutant: the attempt budget is ignored
  conf # {} /\ RetryableRelays(relays, conf) = {}

RoundSettles(relays, conf, rounds) ==
  LET accepted  == Cardinality(AcceptedRelays(relays, conf))
      retryable == Cardinality(RetryableRelays(relays, conf))
  IN  \/ rounds >= MaxAttempts
      \/ /\ conf # {}
         /\ \/ retryable = 0
            \/ accepted + retryable < RequiredAcceptances(Cardinality(conf))

(* The round count is kept up to the budget: nothing reads it past that.   *)
CountRound(rounds) == IF rounds < MaxAttempts THEN rounds + 1 ELSE rounds

RoundOf_FailsEarly(conf, rounds, relays, delivered, settled) ==  \* mutant: below quorum is failed
  [rounds |-> rounds, relays |-> relays, delivered |-> delivered,
   policy |-> [relays |-> conf, required |-> RequiredAcceptances(Cardinality(conf))],
   state  |-> IF ~delivered THEN "failed" ELSE IF settled THEN "published" ELSE "pending"]

RoundOf_SettledIsPublished(conf, rounds, relays, delivered, settled) ==  \* mutant: no failed state
  [rounds |-> rounds, relays |-> relays, delivered |-> delivered,
   policy |-> [relays |-> conf, required |-> RequiredAcceptances(Cardinality(conf))],
   state  |-> IF settled THEN "published" ELSE "pending"]

RoundOf(conf, rounds, relays, delivered, settled) ==
  [rounds |-> rounds, relays |-> relays, delivered |-> delivered,
   policy |-> [relays |-> conf, required |-> RequiredAcceptances(Cardinality(conf))],
   state  |-> IF ~settled THEN "pending" ELSE IF delivered THEN "published" ELSE "failed"]

-----------------------------------------------------------------------------
(* Steps shared by the publishing calls and the runner.                    *)

Running == runner.at # "stopped"

(* Store.SaveEvent commits the version and then, in a transaction of its   *)
(* own, lifts the marker it supersedes.  saveMu is held over both, so no   *)
(* other save, mark or deletion comes between; ClearUndelivered may, and   *)
(* leaves the same marker before or after.  Only a crash shows the gap:    *)
(* see Crash.                                                              *)
SaveOwn(e) ==
  /\ store' = SaveEvent(store, e)
  /\ marker' = ClearSuperseded(store, marker, e)

(* trackDelivery and lock: a delivery nobody tracks is registered first.   *)
BeginRound(e, who, d) ==
  delivery' = [delivery EXCEPT ![e] =
    [d EXCEPT !.holder = who, !.step = "sending", !.conf = writeRelays,
              !.relays = SyncRelays(d.relays, writeRelays), !.scheduled = FALSE]]

Release_RunnerHoldsLock(e) ==    \* mutant: a runner round that settles nothing never unlocks
  LET d      == delivery[e]
      caller == d.holder = "caller"
  IN  /\ delivery' = IF d.settled \/ (caller /\ ~Running) THEN [delivery EXCEPT ![e] = NoDelivery]
                     ELSE IF caller
                     THEN [delivery EXCEPT ![e] = [d EXCEPT !.holder = "none", !.step = "idle",
                             !.conf = {}, !.announce = FALSE, !.scheduled = TRUE]]
                     ELSE delivery
      /\ told' = IF caller THEN [told EXCEPT ![e] = "queued"] ELSE told
      /\ call' = IF caller THEN [call EXCEPT ![e] = NoCall] ELSE call

(* Unlock, forget what is settled or cannot be retried from memory, else   *)
(* leave it scheduled; the caller whose round it was, or who waited on a   *)
(* delivery that settled under it, gets its answer.                        *)
Release(e) ==
  LET d       == delivery[e]
      forget  == d.settled \/ (d.holder = "caller" /\ ~Running)
      answers == d.holder = "caller" \/ (call[e].at = "waiting" /\ d.settled)
  IN  /\ delivery' = [delivery EXCEPT ![e] =
           IF forget THEN NoDelivery
           ELSE [d EXCEPT !.holder = "none", !.step = "idle", !.conf = {},
                          !.announce = FALSE, !.scheduled = TRUE]]
      /\ told' = IF ~answers THEN told
                 ELSE [told EXCEPT ![e] = IF d.delivered THEN "ok"
                         ELSE IF d.settled THEN "abandoned" ELSE "queued"]
      /\ call' = IF answers THEN [call EXCEPT ![e] = NoCall] ELSE call

(* An outbox transaction that could have been committed fails.             *)
Fault == left.faults > 0 /\ left' = [left EXCEPT !.faults = @ - 1]

(* A process-wide admission gate refused the runner's round: the rest of   *)
(* the page is left for a later pass.                                      *)
PassStopped == [runner EXCEPT !.at = "idle", !.todo = {}, !.page = NoPage]

(* deliverRound after the relay I/O: apply the results, decide, and commit *)
(* the round to the outbox unless it was skipped.  A commit that fails     *)
(* keeps the delivery open.                                                *)
EndRoundWith(e, o) ==
  LET d         == delivery[e]
      relays    == ApplyRound(d.relays, o)
      rounds    == IF Countable(o) THEN CountRound(d.rounds) ELSE d.rounds
      delivered == QuorumReached(relays, d.conf)
      settled   == RoundSettles(relays, d.conf, rounds)
      rd        == RoundOf(d.conf, rounds, relays, delivered, settled)
      persist   == Countable(o) \/ settled
      possible  == CanCommit(entry[e], proof[e], rd, e \in Eligible)
      decide(ok) ==
        delivery' = [delivery EXCEPT ![e] =
          [d EXCEPT !.step = "committed", !.rounds = rounds, !.relays = relays,
                    !.settled = settled /\ ok, !.delivered = delivered,
                    !.reported = d.reported \/ (ok /\ delivered),
                    !.announce = ok /\ delivered /\ ~d.reported]]
  IN
  /\ d.step = "sending"
  /\ acked' = [acked EXCEPT ![e] = @ \cup OKs(o)]
  /\ tried' = IF Tried(o) THEN [tried EXCEPT ![e] = CountRound(@)] ELSE tried
  /\ \/ /\ persist /\ possible
        /\ entry' = [entry EXCEPT ![e] = CommitRound(@, rd)]
        /\ proof' = [proof EXCEPT ![e] = RecordPublisherProof(@, rd, e \in Eligible)]
        /\ decide(TRUE)
        /\ UNCHANGED left
     \/ /\ ~persist
        /\ decide(TRUE)
        /\ UNCHANGED <<entry, proof, left>>
     \/ /\ persist
        /\ IF possible THEN Fault ELSE UNCHANGED left
        /\ decide(FALSE)
        /\ UNCHANGED <<entry, proof>>
  /\ \/ UNCHANGED runner
     \/ /\ AllAdmissionRefusals(o) /\ d.holder = "runner"
        /\ runner' = PassStopped
  /\ UNCHANGED <<store, marker, call, writeRelays, told, notified>>

RoundOutcomes(e) ==
  LET d == delivery[e] IN Outcomes(d.relays, RetryableRelays(d.relays, d.conf))

EndRound(e) == \E o \in RoundOutcomes(e) : EndRoundWith(e, o)

Abandoned_IgnoresQuorum(d) == d.settled   \* mutant: every settled delivery is abandoned

Abandoned(d) == d.settled /\ ~d.delivered

(* The end of a round that did not abandon the event: the first durable    *)
(* quorum lifts the marker and is announced.                               *)
Conclude(e) ==
  LET d == delivery[e] IN
  /\ d.step = "committed" /\ ~Abandoned(d)
  /\ marker' = IF d.announce THEN ClearUndelivered(marker, e) ELSE marker
  /\ notified' = IF d.announce THEN notified \cup {e} ELSE notified
  /\ Release(e)
  /\ UNCHANGED <<entry, proof, store, runner, writeRelays, left, acked, tried>>

(* Abandoned in the caller's round: the event is not the daemon's output.  *)
ForgetOwnEvent(e) ==
  LET d == delivery[e] IN
  /\ d.step = "committed" /\ Abandoned(d) /\ d.holder = "caller"
  /\ store' = DeleteEvent(store, e)
  /\ Release(e)
  /\ UNCHANGED <<entry, proof, marker, runner, writeRelays, left, acked, notified, tried>>

KeepAbandoned_NotSaved(e) ==    \* mutant: the event is taken to be held already
  /\ delivery[e].step = "committed" /\ Abandoned(delivery[e]) /\ delivery[e].holder = "runner"
  /\ delivery' = [delivery EXCEPT ![e].step = "marking"]
  /\ UNCHANGED <<durable, call, runner, writeRelays, left, history>>

(* Abandoned later: save the event again, then mark its coordinate.        *)
KeepAbandoned(e) ==
  LET d == delivery[e] IN
  /\ d.step = "committed" /\ Abandoned(d) /\ d.holder = "runner"
  /\ SaveOwn(e)
  /\ delivery' = [delivery EXCEPT ![e].step = "marking"]
  /\ UNCHANGED <<entry, proof, call, runner, writeRelays, left, history>>

MarkOwnEventUndelivered(e) ==
  /\ delivery[e].step = "marking"
  /\ marker' = MarkUndelivered(store, marker, e)
  /\ Release(e)
  /\ UNCHANGED <<entry, proof, store, runner, writeRelays, left, acked, notified, tried>>

-----------------------------------------------------------------------------
(* Publishing calls.                                                       *)

StartCall(e, at) ==
  /\ call[e] = NoCall
  /\ left.publishes[e] > 0
  /\ left' = [left EXCEPT !.publishes[e] = @ - 1]
  /\ call' = [call EXCEPT ![e] = [at |-> at, conf |-> IF at = "first" THEN writeRelays ELSE {}]]
  /\ UNCHANGED <<durable, runner, writeRelays, history>>

(* enqueueAndDeliver registers the delivery before the entry is durable.   *)
PublishInline(e) ==
  /\ Path[e] = "inline"
  /\ StartCall(e, "admit")
  /\ delivery' = IF delivery[e].tracked THEN delivery
                 ELSE [delivery EXCEPT ![e] = NewDelivery]

EnqueueCall(e) ==
  /\ Path[e] = "enqueue"
  /\ StartCall(e, "admit")
  /\ UNCHANGED delivery

Admit(e) ==
  /\ call[e].at = "admit"
  /\ entry' = [entry EXCEPT ![e] = Enqueue(@, NewEntry)]
  /\ call' = [call EXCEPT ![e].at = "keep"]
  /\ UNCHANGED <<proof, store, marker, delivery, runner, writeRelays, left, history>>

(* The outbox refused the entry: the call fails and a delivery it          *)
(* registered (still untouched) is forgotten.                              *)
AdmitFails(e) ==
  /\ call[e].at = "admit"
  /\ Fault
  /\ call' = [call EXCEPT ![e] = NoCall]
  /\ told' = [told EXCEPT ![e] = "error"]
  /\ delivery' = IF delivery[e].step = "idle" /\ ~delivery[e].scheduled
                 THEN [delivery EXCEPT ![e] = NoDelivery] ELSE delivery
  /\ UNCHANGED <<durable, runner, writeRelays, acked, notified, tried>>

KeepOwnEvent(e) ==
  /\ call[e].at = "keep"
  /\ SaveOwn(e)
  /\ IF Path[e] = "enqueue"
     THEN /\ call' = [call EXCEPT ![e] = NoCall]
          /\ told' = [told EXCEPT ![e] = "queued"]
     ELSE /\ call' = [call EXCEPT ![e].at = "ready"]
          /\ UNCHANGED told
  /\ UNCHANGED <<entry, proof, delivery, runner, writeRelays, left, acked, notified, tried>>

CallerRound(e) ==
  /\ call[e].at \in {"ready", "waiting"}
  /\ delivery[e].step = "idle"
  /\ BeginRound(e, "caller", IF delivery[e].tracked THEN delivery[e] ELSE NewDelivery)
  /\ call' = [call EXCEPT ![e].at = "round"]
  /\ UNCHANGED <<durable, runner, writeRelays, left, history>>

CallerWaits(e) ==
  /\ call[e].at = "ready"
  /\ delivery[e].step # "idle"
  /\ call' = [call EXCEPT ![e].at = "waiting"]
  /\ UNCHANGED <<durable, delivery, runner, writeRelays, left, history>>

(* PublishBeforeCommit: one round first, and nothing is queued below the   *)
(* quorum.                                                                 *)
PublishBeforeCommit(e) ==
  /\ Path[e] = "beforeCommit"
  /\ writeRelays # {}
  /\ StartCall(e, "first")
  /\ UNCHANGED delivery

FirstRound(e) ==
  /\ call[e].at = "first"
  /\ \E o \in Outcomes(Fresh, call[e].conf) :
       LET conf   == call[e].conf
           relays == ApplyRound(Fresh, o)
       IN  /\ acked' = [acked EXCEPT ![e] = @ \cup OKs(o)]
           /\ \/ /\ \/ ~QuorumReached(relays, conf)
                    \/ delivery[e].tracked
                 /\ call' = [call EXCEPT ![e] = NoCall]
                 /\ told' = [told EXCEPT ![e] =
                      IF QuorumReached(relays, conf) /\ proof[e] # NoProof
                      THEN "ok" ELSE "error"]
                 /\ UNCHANGED <<delivery, tried>>
              \/ /\ QuorumReached(relays, conf)
                 /\ ~delivery[e].tracked
                 /\ delivery' = [delivery EXCEPT ![e] =
                      [NewDelivery EXCEPT !.holder = "caller", !.step = "admitting",
                         !.conf = conf, !.rounds = 1, !.relays = relays,
                         !.delivered = TRUE]]
                 /\ call' = [call EXCEPT ![e] = [at |-> "round", conf |-> {}]]
                 /\ tried' = [tried EXCEPT ![e] = CountRound(@)]
                 /\ UNCHANGED told
  /\ UNCHANGED <<durable, runner, writeRelays, left, notified>>

AdmitDelivered(e) ==
  LET d == delivery[e]
      rd == RoundOf(d.conf, d.rounds, d.relays, TRUE, FALSE)
  IN
  /\ d.step = "admitting"
  /\ entry' = [entry EXCEPT ![e] = Enqueue(@, [state |-> "pending",
                 rounds |-> rd.rounds, delivered |-> TRUE,
                 relays |-> rd.relays, policy |-> rd.policy])]
  /\ delivery' = [delivery EXCEPT ![e].step = "keeping"]
  /\ UNCHANGED <<proof, store, marker, call, runner, writeRelays, left, history>>

KeepDelivered(e) ==
  /\ delivery[e].step = "keeping"
  /\ SaveOwn(e)
  /\ delivery' = [delivery EXCEPT ![e].step = "recording"]
  /\ UNCHANGED <<entry, proof, call, runner, writeRelays, left, history>>

(* The round is committed with its proof; then the caller may be told.     *)
RecordDelivered(e) ==
  LET d       == delivery[e]
      settled == RetryableRelays(d.relays, d.conf) = {}
      rd      == RoundOf(d.conf, d.rounds, d.relays, TRUE, settled)
  IN
  /\ d.step = "recording"
  /\ CanCommit(entry[e], proof[e], rd, e \in Eligible)
  /\ entry' = [entry EXCEPT ![e] = CommitRound(@, rd)]
  /\ proof' = [proof EXCEPT ![e] = RecordPublisherProof(@, rd, e \in Eligible)]
  /\ notified' = notified \cup {e}
  /\ told' = [told EXCEPT ![e] = "ok"]
  /\ call' = [call EXCEPT ![e] = NoCall]
  /\ delivery' = [delivery EXCEPT ![e] =
       IF settled \/ ~Running THEN NoDelivery
       ELSE [d EXCEPT !.holder = "none", !.step = "idle", !.conf = {},
                      !.reported = TRUE, !.scheduled = TRUE]]
  /\ UNCHANGED <<store, marker, runner, writeRelays, left, acked, tried>>

(* An outbox transaction of PublishBeforeCommit fails, or its entry is     *)
(* gone: the delivery is forgotten and the caller gets an error.           *)
RecordFails(e) ==
  /\ delivery[e].step \in {"admitting", "recording"}
  /\ IF delivery[e].step = "recording" /\ entry[e].state = "absent"
     THEN UNCHANGED left
     ELSE Fault
  /\ delivery' = [delivery EXCEPT ![e] = NoDelivery]
  /\ call' = [call EXCEPT ![e] = NoCall]
  /\ told' = [told EXCEPT ![e] = "error"]
  /\ UNCHANGED <<durable, runner, writeRelays, acked, notified, tried>>

-----------------------------------------------------------------------------
(* The outbox runner: one goroutine, so at most one round at a time.       *)

RunnerBusy == \E e \in Event : delivery[e].holder = "runner"

(* Run starts by re-marking the coordinates of every failed entry.         *)
RunnerStart ==
  /\ runner.at = "stopped"
  /\ runner' = [runner EXCEPT !.at = "restoring",
                              !.todo = {e \in Event : entry[e].state = "failed"}]
  /\ UNCHANGED <<durable, delivery, call, writeRelays, left, history>>

(* The entries come by settling time, which need not be version order.     *)
RestoreSave(e) ==
  /\ runner.at = "restoring" /\ e \in runner.todo
  /\ SaveOwn(e)
  /\ runner' = [runner EXCEPT !.at = "remarking", !.todo = @ \ {e}, !.current = e]
  /\ UNCHANGED <<entry, proof, delivery, call, writeRelays, left, history>>

RestoreMark ==
  /\ runner.at = "remarking"
  /\ marker' = MarkUndelivered(store, marker, runner.current)
  /\ runner' = [runner EXCEPT !.at = "restoring", !.current = None]
  /\ UNCHANGED <<entry, proof, store, delivery, call, writeRelays, left, history>>

RestoreDone ==
  /\ runner.at = "restoring" /\ runner.todo = {}
  /\ runner' = [runner EXCEPT !.at = "idle"]
  /\ UNCHANGED <<durable, delivery, call, writeRelays, left, history>>

Redeliver(e) ==
  /\ runner.at = "idle" /\ ~RunnerBusy
  /\ delivery[e].tracked /\ delivery[e].scheduled /\ delivery[e].step = "idle"
  /\ BeginRound(e, "runner", delivery[e])
  /\ UNCHANGED <<durable, call, runner, writeRelays, left, history>>

(* discoverLocal reads a page of pending entries once and then walks it.   *)
ListPending ==
  LET pending == {e \in Event : entry[e].state = "pending"} IN
  /\ runner.at = "idle" /\ ~RunnerBusy
  /\ pending # {}
  /\ runner' = [runner EXCEPT !.at = "paging", !.todo = pending,
                !.page = [e \in Event |-> IF e \in pending THEN entry[e] ELSE NoEntry]]
  /\ UNCHANGED <<durable, delivery, call, writeRelays, left, history>>

Turned(e) == [runner EXCEPT !.at = IF runner.todo = {e} THEN "idle" ELSE "paging",
                            !.todo = @ \ {e}, !.page[e] = NoEntry]

Discover_NotRestored(e) ==    \* mutant: relay states of the entry are not restored
  /\ runner.at = "paging" /\ ~RunnerBusy
  /\ e \in runner.todo /\ ~delivery[e].tracked
  /\ BeginRound(e, "runner", [NewDelivery EXCEPT !.rounds = runner.page[e].rounds])
  /\ runner' = Turned(e)
  /\ UNCHANGED <<durable, call, writeRelays, left, history>>

Discover(e) ==
  /\ runner.at = "paging" /\ ~RunnerBusy
  /\ e \in runner.todo /\ ~delivery[e].tracked
  /\ BeginRound(e, "runner", [NewDelivery EXCEPT !.rounds = runner.page[e].rounds,
                                                 !.relays = runner.page[e].relays])
  /\ runner' = Turned(e)
  /\ UNCHANGED <<durable, call, writeRelays, left, history>>

SkipTracked(e) ==
  /\ runner.at = "paging" /\ ~RunnerBusy
  /\ e \in runner.todo /\ delivery[e].tracked
  /\ runner' = Turned(e)
  /\ UNCHANGED <<durable, delivery, call, writeRelays, left, history>>

(* Settled entries past their retention are dropped; proofs are not.       *)
Prune ==
  /\ runner.at = "idle" /\ ~RunnerBusy
  /\ \E expired \in SUBSET {e \in Event : Settled(entry[e])} :
       /\ expired # {}
       /\ entry' = [e \in Event |-> IF e \in expired THEN NoEntry ELSE entry[e]]
  /\ UNCHANGED <<proof, store, marker, delivery, call, runner, writeRelays, left, history>>

-----------------------------------------------------------------------------
(* The environment.                                                        *)

OperatorRetry(e) ==
  /\ left.retries > 0 /\ entry[e].state = "failed"
  /\ left' = [left EXCEPT !.retries = @ - 1]
  /\ entry' = [entry EXCEPT ![e] = Retry(@)]
  /\ tried' = [tried EXCEPT ![e] = 0]
  /\ UNCHANGED <<proof, store, marker, delivery, call, runner, writeRelays,
                 acked, told, notified>>

RetryAllFailed ==
  LET failed == {e \in Event : entry[e].state = "failed"} IN
  /\ left.retries > 0 /\ failed # {}
  /\ left' = [left EXCEPT !.retries = @ - 1]
  /\ entry' = [e \in Event |-> IF e \in failed THEN Retry(entry[e]) ELSE entry[e]]
  /\ tried' = [e \in Event |-> IF e \in failed THEN 0 ELSE tried[e]]
  /\ UNCHANGED <<proof, store, marker, delivery, call, runner, writeRelays,
                 acked, told, notified>>

(* A relay policy change: rounds read the new write relays from now on.    *)
ChangeRelays ==
  /\ left.changes > 0
  /\ left' = [left EXCEPT !.changes = @ - 1]
  /\ \E relays \in SUBSET Relay : relays # writeRelays /\ writeRelays' = relays
  /\ UNCHANGED <<durable, delivery, call, runner, history>>

(* The subscriber saves a version a relay serves: one of another instance, *)
(* or one of this daemon's that some relay accepted.                       *)
InboundEvent(e) ==
  /\ Path[e] = "foreign" \/ acked[e] # {}
  /\ e > store
  /\ SaveOwn(e)
  /\ UNCHANGED <<entry, proof, delivery, call, runner, writeRelays, left, history>>

(* Somebody is about to save e, or halfway through: a publishing call, the *)
(* round that gave e up, the restoration of markers, or the subscriber.    *)
Saving(e) ==
  \/ call[e].at = "keep"
  \/ delivery[e].step = "keeping"
  \/ delivery[e].step = "committed" /\ Abandoned(delivery[e]) /\ delivery[e].holder = "runner"
  \/ runner.at = "restoring" /\ e \in runner.todo
  \/ Path[e] = "foreign" \/ acked[e] # {}

(* The process dies and starts again: memory and pending calls are lost.   *)
(* It may die inside SaveEvent, with the version stored and the marker of  *)
(* the version it replaced still there; saving it again changes nothing.   *)
Crash ==
  /\ left.crashes > 0
  /\ runner.at # "stopped" \/ \E e \in Event : call[e] # NoCall
  /\ left' = [left EXCEPT !.crashes = @ - 1]
  /\ delivery' = [e \in Event |-> NoDelivery]
  /\ call' = [e \in Event |-> NoCall]
  /\ runner' = Stopped
  /\ \/ UNCHANGED store
     \/ \E e \in Event : Saving(e) /\ store' = SaveEvent(store, e)
  /\ UNCHANGED <<entry, proof, marker, writeRelays, history>>

-----------------------------------------------------------------------------
RoundStep(e) == \/ EndRound(e) \/ Conclude(e) \/ ForgetOwnEvent(e)
                \/ KeepAbandoned(e) \/ MarkOwnEventUndelivered(e)

CallProgress(e) == \/ Admit(e) \/ AdmitFails(e) \/ KeepOwnEvent(e)
                   \/ CallerRound(e) \/ CallerWaits(e)
                   \/ FirstRound(e) \/ AdmitDelivered(e) \/ KeepDelivered(e)
                   \/ RecordDelivered(e) \/ RecordFails(e)

CallStep(e) == \/ PublishInline(e) \/ EnqueueCall(e) \/ PublishBeforeCommit(e)
               \/ CallProgress(e)

RunnerStep == \/ RunnerStart \/ RestoreMark \/ RestoreDone \/ ListPending \/ Prune
              \/ \E e \in Event : \/ RestoreSave(e) \/ Redeliver(e)
                                  \/ Discover(e) \/ SkipTracked(e)

Environment == \/ RetryAllFailed \/ ChangeRelays \/ Crash
               \/ \E e \in Event : OperatorRetry(e) \/ InboundEvent(e)

Next == \/ \E e \in Event : RoundStep(e) \/ CallStep(e)
        \/ RunnerStep
        \/ Environment

Spec == Init /\ [][Next]_vars

(* Scheduling.  Every goroutine that can move does (weak fairness); each   *)
(* pass of Run serves the due deliveries and then discovers pending        *)
(* entries (strong fairness of both); a caller that waits for a delivery's *)
(* mutex is handed it (sync.Mutex starves nobody); and the admission gates *)
(* and the pool's reconnect backoff do not last forever: a delivery that   *)
(* keeps running rounds has some that count.                               *)
CountedRound(e) == \E o \in RoundOutcomes(e) : Countable(o) /\ EndRoundWith(e, o)

Fairness ==
  /\ WF_vars(RunnerStart) /\ WF_vars(RestoreMark) /\ WF_vars(RestoreDone)
  /\ SF_vars(ListPending)
  /\ \A e \in Event :
       /\ WF_vars(RoundStep(e)) /\ SF_vars(CountedRound(e))
       /\ WF_vars(CallProgress(e)) /\ SF_vars(CallerRound(e))
       /\ WF_vars(RestoreSave(e)) /\ WF_vars(Discover(e)) /\ WF_vars(SkipTracked(e))
       /\ SF_vars(Redeliver(e))

FairSpec == Spec /\ Fairness

-----------------------------------------------------------------------------
(* Properties.                                                             *)

(* Every acceptance the publisher acts on, in memory, in the outbox or in  *)
(* a page it read before a crash or a concurrent round, is one a relay     *)
(* really gave for this event.                                             *)
WasHeard(relays, e) == \A r \in Relay : relays[r] = "accepted" => r \in acked[e]

AcceptancesHeard ==
  \A e \in Event : /\ WasHeard(delivery[e].relays, e)
                   /\ WasHeard(entry[e].relays, e)
                   /\ WasHeard(runner.page[e].relays, e)

(* A delivery proof pins a write-relay set of which at least the quorum    *)
(* said OK for this very event (recordPublisherProof, ValidFor): neither a *)
(* restart, a merge with a stale round, nor a later relay policy ever      *)
(* leaves a proof the relays did not give.                                 *)
ProofSound ==
  \A e \in Event : proof[e] # NoProof =>
    /\ ValidFor(proof[e])
    /\ proof[e].ok \subseteq acked[e]
    /\ proof[e].required = RequiredAcceptances(Cardinality(proof[e].relays))

(* An entry settles as published only when a quorum of the relays of the   *)
(* policy it records accepted the event (deliverRound, commitRound).       *)
PublishedHasQuorum ==
  \A e \in Event : entry[e].state = "published" =>
    LET pol == entry[e].policy IN
    /\ pol.relays # {}
    /\ pol.required = RequiredAcceptances(Cardinality(pol.relays))
    /\ Cardinality(pol.relays \cap acked[e]) >= pol.required

(* A caller that was told the quorum accepted finds the quorum's proof     *)
(* durable ("verified quorum outcomes are committed before success is      *)
(* reported").                                                             *)
SuccessIsProven ==
  \A e \in Eligible : told[e] = "ok" => proof[e] # NoProof

(* OnDelivered handlers are called only for an event whose quorum is       *)
(* already durable ("the quorum's acceptance is durable; tell the owner of *)
(* the content").                                                          *)
AnnouncedIsDurable ==
  [][\A e \in Eligible : e \in notified' \ notified => proof'[e] # NoProof]_notified

(* A caller that gets ErrPublishIncomplete finds the event durably queued: *)
(* its entry is pending, so delivery outlives the process.                 *)
QueuedIsDurable ==
  [][\A e \in Event : Path[e] = "inline" /\ told'[e] = "queued" /\ call'[e] # call[e] =>
       entry[e].state = "pending"]_<<told, call>>

Quiet(e) == delivery[e].step = "idle" /\ call[e] = NoCall /\ runner.at \in {"idle", "paging"}
Untouched(e) == call[e] = NoCall /\ entry[e].state = "absent" /\ told[e] = "none" /\ acked[e] = {}
NewestAdmitted(e) == store <= e /\ \A f \in Event : f > e => Untouched(f)

(* An event the runner gave up on after its caller was told "queued" (or   *)
(* died) is never dropped silently: while it is the newest version, the    *)
(* store holds it and its coordinate is marked undelivered, also after     *)
(* crashes between the outbox commit and the store writes.                 *)
NeverSilentlyDropped ==
  \A e \in Event :
    /\ entry[e].state = "failed" /\ told[e] \in {"none", "ok", "queued"}
    /\ Quiet(e) /\ NewestAdmitted(e)
    => store = e /\ marker = e

(* A marker means what it says: no publish quorum accepted the event.      *)
MarkerHonest ==
  \A e \in Eligible : marker = e /\ Quiet(e) => proof[e] = NoProof

(* A marker never outruns the store: the store holds the marked event, or  *)
(* a newer version whose save a crash cut short before it lifted the       *)
(* marker.  No reader is told that a version the store never held is the   *)
(* daemon's undelivered state.                                             *)
MarkerBacked == marker <= store

(* With the write relays fixed, an entry is given up on only when so many  *)
(* of them rejected the event that the quorum is out of reach, or after    *)
(* MaxAttempts rounds that gave the relays a chance: a round the admission *)
(* controller refused whole or the pool held back whole spends nothing,    *)
(* and neither a merge, a failed commit nor a restart counts a round twice *)
(* or settles an entry whose relays could still make the quorum.           *)
GivenUpForCause ==
  \A e \in Event : entry[e].state = "failed" =>
    \/ tried[e] >= MaxAttempts
    \/ Cardinality({r \in Relay : entry[e].relays[r] # "rejected"})
         < RequiredAcceptances(Cardinality(Relay))

(* A round of the runner never contacts a relay whose acceptance the       *)
(* outbox holds: deliveries resume where they stopped, across restarts.    *)
NoResend ==
  \A e \in Event :
    delivery[e].step = "sending" /\ delivery[e].holder = "runner" =>
      \A r \in RetryableRelays(delivery[e].relays, delivery[e].conf) :
        entry[e].relays[r] # "accepted"

(* Delivery, whatever its rounds, crashes and relay policies, keeps the    *)
(* promises of PublishContract.                                            *)
Contract == INSTANCE PublishContract WITH
  status   <- [e \in Event |-> entry[e].state],
  okBy     <- acked,
  proven   <- {e \in Event : proof[e] # NoProof},
  Required <- RequiredAcceptances

ImplementsContract == Contract!Spec

(* A pending entry does not stay pending: under the scheduling above the   *)
(* runner delivers it or gives it up, across restarts, races with callers  *)
(* and skipped rounds.                                                     *)
PendingSettles ==
  \A e \in Event : entry[e].state = "pending" ~> entry[e].state # "pending"

(* A publishing call returns: no caller waits forever on a round of the    *)
(* runner.                                                                 *)
CallsReturn == \A e \in Event : call[e] # NoCall ~> call[e] = NoCall

(* Overlapping rounds never undo durable facts: acceptances, the round     *)
(* count, the delivered flag and a settled state only go away by operator  *)
(* retry of a failed entry or pruning of a settled one; a proof never.     *)
DurableProgress ==
  [][\A e \in Event :
       /\ proof[e] # NoProof => proof'[e] = proof[e]
       /\ \/ entry'[e] = Retry(entry[e]) /\ entry[e].state = "failed"
          \/ entry'[e] = NoEntry /\ Settled(entry[e])
          \/ /\ Settled(entry[e]) => entry'[e] = entry[e]
             /\ entry[e].state = "pending" => entry'[e].state # "absent"
             /\ entry'[e].rounds >= entry[e].rounds
             /\ entry[e].delivered => entry'[e].delivered
             /\ \A r \in Relay : entry[e].relays[r] = "accepted"
                                   => entry'[e].relays[r] = "accepted"]_<<entry, proof>>

=============================================================================
