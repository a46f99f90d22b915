# A TLA+ development of bahia's control plane

bahia is a control-plane daemon whose state of record is signed Nostr events.
What it is asked to do arrives as events from relays (or in process through MCP),
what it decides it says by publishing events to its write relays, and what it
provisions outside (deployment units, signer keys, agents) it must not provision
twice. This directory models the parts that carry these promises, checks them
with TLC on small instances, and proves the main safety properties of each with
TLAPS for every instance:

* publishing: the publish outbox, whose callers are told "accepted", "queued" or
  "abandoned" and are believed by everything built on top, and the admission
  controller that keeps every frame within the budgets of the relays;
* inbound synchronisation: every event a relay serves is stored and handled once,
  across broken sessions, refusals and restarts;
* intents: signed requests, deduplicated, applied, and answered by a status;
* governed provisioning: a saga with external effects, rollback and retention.

## Inventory

| Part | Code | State | Operations | What is hard about it |
| --- | --- | --- | --- | --- |
| Publisher | `internal/adapters/nostr/publisher.go`, `publish_delivery.go`, `publish_before_commit.go` | in-memory deliveries by event id, each with a mutex, per-relay state, round count; running flag | publish calls (inline round, enqueue only, relays first), delivery round, redelivery, discovery, restore at startup | callers and the runner run rounds of the same event; state is read from a page that grows stale; several transactions per outcome; crashes in between |
| Outbox | `localstore/outbox.go` | bbolt rows: state, rounds, relay states, delivered, policy; delivery proofs | enqueue, commit round, list, prune, retry | rounds overlap; commits merge; settled rows must stay settled |
| Local event store | `localstore/store.go`, `undelivered.go` | newest version per coordinate, undelivered markers | save, delete, mark, clear | reports arrive late and out of version order |
| Relay policy | service settings, `Publisher.relayURLs` | the write relays | replaced at run time | quorum is counted against a set that moves |
| Subscriber | `subscriber.go` | none of its own | saves inbound events | echoes of the daemon's own events and versions of other instances |
| Admission controller | `internal/nostrout`: `admission.go`, `publication.go`, `operation.go`, `bunker.go` | token buckets (aggregate, lanes, per relay), circuit breaker, kill switch, receipts, in-flight keys, relay identities with reference counts, operation slot and queue, opaque waiters | begin, attempt, observe, close of a publication; begin and close of an operation; AUTH frames; opaque signer requests | waits give up the mutex in the middle of a call; rollbacks; eviction; a timeout racing an activation; late results |
| Relay pool | `relay_pool.go` | connections, reconnect backoff | publish, subscribe | network I/O |
| Governed provisioning | `internal/soulfactory/saga`, `internal/soulfactory/governed_provisioning*.go` | saga checkpoint per request, adapter ledger, reservation of the agent id, deployment unit and intent, signer key, Soul projection, terminal results | provision, operator commands (reconcile, retry, safe abort), deliver success, purge | an effect and its record are not atomic; requests for one agent race under separate locks; rollback resumes; retention deletes records piecemeal |
| Intent processor | `internal/controlplane/intent_processor.go`, `intent_status.go`, `intent_subscriber.go`, `intent_giftwrap_ingress.go` | processed markers in the local store, trust set | process a relay, gift-wrapped or in-process intent | no lock between the marker's check and its save; ids reused; publications fail |
| Workflow coordinator, reconciler, remediation | `internal/workflow`, `internal/reconcile`, `internal/driftdecision` | runs, drift | start, detect stale, remediate | long-running work across restarts |
| Inbound sync | `inbound_sync.go`, `replay_cursor.go`, `relay_pool_closed.go`, `subscriber.go` | durable cursor per relay and filter, worker per relay, channel, cursor generations, relay progress, CLOSED budgets | catch up (negentropy, pages), follow live, ingest, commit, prune | relays answer newest first and late; a session ends anywhere; what the consumer learns is queued behind what it has not seen |
| Projector, adapters, API, MCP, CLI, web | the rest | | | data mapping and I/O |

How they interact. A producer signs an event and calls the Publisher. The
Publisher registers an in-memory delivery, admits the event to the outbox, saves
it in the local store, and runs one delivery round: the relay pool contacts every
write relay that has not answered for good, each frame passing the admission
controller. The outcome is committed to the outbox (one transaction, with the
delivery proof if the event's kind calls for one), then reflected in the local
store (marker lifted, event deleted, or event kept and marked), then announced to
handlers and to the caller. The runner, one goroutine, repeats rounds for what is
still pending, from memory or from pages of pending rows it reads, and rebuilds
markers at startup. On the way in, one worker per relay catches up and follows,
and one consumer validates, stores and dispatches: a signed intent goes to the
intent processor, which answers by publishing through the Publisher; a provisioning
request goes to the Soul Factory's reactor, which drives the saga and publishes the
Soul and the result.

What makes it correct: an acceptance is never invented and never forgotten; a
published row and a proof rest on a real quorum; a row settles once; a caller is
never told more than what is on disk; an event given up on after its caller was
told "queued" is never dropped silently; markers mean what they say; every
pending row settles and every call returns. Of the admission controller: no relay
is ever sent more than its budget and no lane loses what is reserved for it;
whatever a call took it gives back however it ends; the same event is not sent
twice at a time; a backoff outlives late good news; the operation slot is never
lost. Of inbound synchronisation: no cursor passes an event that was not stored,
handlers run once per stored event, completeness is claimed only when it holds,
and what a relay keeps serving is stored in the end. Of intents: an accepted status
is true, and success is not reported before the outcome is public. Of provisioning:
effects only under the reservation, one key, complete rollback, one kind of
result of a saga, and an identity that stays reserved while its Soul lives.

## Modules

* `LocalStore`: one replaceable or addressable coordinate of the local event
  store. The code orders versions totally (NIP-01) and reads nothing else of
  them here, so an event is its position in that order. Operators are the store's
  transactions: `SaveEvent`, `ClearSuperseded`, `DeleteEvent`, `MarkUndelivered`,
  `ClearUndelivered`.
* `Outbox`: one row and one proof, and what each transaction makes of them:
  `Enqueue`, `CommitRound` with `MergeRelayDeliveries`, `CanCommit`,
  `RecordPublisherProof`, `Retry`. A relay's state for an event is `open`,
  `dialed` (open, its last dial failure already counted), `accepted` or
  `rejected`.
* `Delivery`: the Publisher over both, as a state machine (below).
* `PublishContract`: the abstract specification: four states per event and who
  may move it between them, on whose word.
* `MCDelivery`: the instances for TLC.
* `DeliveryProofs`: theorems about `Delivery` and their proofs.
* `ScopedProofs`: theorems about the properties of `Delivery` that hold in a scope,
  with the scope as their hypothesis.
* `Admission`: the admission controller as a state machine (below).
* `MCAdmission`: its instances for TLC.
* `AdmissionProofs`: theorems about `Admission` and their proofs.
* `Inbound`: relay workers, consumer and cursors as a state machine (below).
* `MCInbound`: its instances for TLC.
* `InboundProofs`, `CursorProofs`: theorems about `Inbound` and their proofs; the
  second holds the one about the resume cursors.
* `Intents`: the processor's calls for one intent_id (below).
* `MCIntents`: its instance for TLC.
* `IntentsProofs`: theorems about `Intents` and their proofs.
* `Provisioning`: governed provisioning of one agent id (below).
* `MCProvisioning`: its instance for TLC.
* `ProvisioningProofs`: theorems about `Provisioning` and their proofs.

### `Delivery`: state and code

| Variable | Code |
| --- | --- |
| `entry`, `proof` | outbox rows and delivery proofs (durable) |
| `store`, `marker` | the coordinate in the local store (durable) |
| `delivery[e]` | `p.deliveries[e]`; `holder` and `step` are who has its mutex and how far the round is; `conf` the write relays the round read; `announce` that the round's commit is the first with a quorum |
| `call[e]` | the publishing call in progress: where it is between admission and answer |
| `runner` | `Run`: stopped, restoring (`todo`, `current`), idle, or walking `page` |
| `writeRelays` | what `relayURLs()` returns |
| `left` | bounds on the environment |
| `acked`, `told`, `notified`, `tried` | history: OKs heard, the last answer, handlers called, committed rounds in which relays had a chance |

Calls for one signed event come one after the other: a producer that publishes an
event again does so after its last call returned or the process died. This is an
assumption. Inline calls that overlap serialise on the delivery's mutex after an
idempotent admission, but the first round of `PublishBeforeCommit` takes no lock
(`publish_before_commit.go:49`), and two such calls at once are not modelled. A call
does overlap with rounds of the runner: one that finds the mutex taken waits
(`CallerWaits`) and either runs its own round or gets the answer of the settled
delivery. `Discover` registers, locks and restores a delivery in one step; in the
code a caller of the same event may find the delivery between these calls and take its
mutex before it is restored (`publish_delivery.go:826`-830); that order is left out.

| Action | Code |
| --- | --- |
| `PublishInline`, `Admit`, `AdmitFails`, `KeepOwnEvent`, `CallerRound`, `CallerWaits` | `PublishSignedEventWithResults`, `PublishPresignedEvent`, `PublishProjection` through `enqueueAndDeliver`, `admit`, `keepOwnEvent`, `publishOutboxEvent` |
| `EnqueueCall` | `EnqueueSignedEvent`, `Enqueue` |
| `PublishBeforeCommit`, `FirstRound`, `AdmitDelivered`, `KeepDelivered`, `RecordDelivered`, `RecordFails` | `PublishBeforeCommit` |
| `EndRound` | `deliverRound` from the relays' answers to the outbox commit; the start is `BeginRound` |
| `Conclude`, `ForgetOwnEvent`, `KeepAbandoned`, `MarkOwnEventUndelivered` | the rest of `deliverRound`, then unlock, forget and answer (`Release`) |
| `RunnerStart`, `RestoreSave`, `RestoreMark`, `RestoreDone` | `Run`, `restoreUndelivered` |
| `Redeliver`, `ListPending`, `Discover`, `SkipTracked`, `Prune` | `redeliverDue`, `discoverLocal`, `pruneLocalOutbox` |
| `OperatorRetry`, `RetryAllFailed` | `Outbox.Retry`, `RetryAllFailed` |
| `ChangeRelays`, `InboundEvent`, `Crash` | relay policy update, subscriber, process restart |

Every bbolt transaction is a step of its own, so a crash or another actor may
come between any two. The exception is `SaveEvent`, which commits the version and
then lifts the marker of the version it replaced: its mutex keeps other saves, marks
and deletions out, so the two are one step, except that `Crash` may come between them
and leave the newer version with the older marker. The round's relay I/O is the gap between `BeginRound` and
`EndRound`; all its outcomes are enumerated, per relay: OK, permanent rejection,
other answer or error, new dial failure, known reconnect backoff, frame refused
by admission. A publication refused whole is the case of every frame refused, and
one that stops the runner's pass is `PassStopped`.

The round count is kept only up to the attempt budget, since the code compares it
with the budget and nothing else.

### `Admission`: state and code

| Variable | Code |
| --- | --- |
| `killed` | `runtimeKilled` or the kill switch file |
| `breaker` | `breakerUntil` (as the time left), `breakerDelay`, `breakerGeneration` |
| `aggregate`, `lanes` | tokens of the aggregate and the lane buckets |
| `known`, `wire`, `refs` | the keys of `relays`, the tokens of their two buckets, their reference counts |
| `inflight`, `active`, `receipts` | the fields of these names, `receiptOrder` |
| `pub[p]`, `flight[p]` | a `Publication` and the relays it sent to without a result so far |
| `ops[o]`, `operation`, `queue` | an `Operation` with the call of `BeginOperation` that made it, the slot, `operationQueue` |
| `opaque[c]`, `opaqueWaiters` | calls inside `AdmitOpaque` |
| `allowance` | history: the bucket a relay itself would keep of what it receives; never evicted |
| `fresh` | history: the publications admitted since the last rate limit answer |

| Action | Code |
| --- | --- |
| `Begin`, `BeginRefused` | `Admission.Begin` through `beginLocked`, `registerLocked`; refused after registering |
| `BeforeAttempt`, `Observe`, `Close` | the methods of `Publication` |
| `BeginOperation`, `OperationReady`, `LeaveQueue`, `AbandonOperationWaiter`, `CloseOperation` | `BeginOperation` up to its `select`, the branches of the `select`, `abandonOperationWaiter`, `Operation.Close` |
| `OperationBegin`, `OperationBeginDone`, `PacedAdmitted`, `PacedRefused` | `Operation.Begin`: up to the wait, without one, and how the wait ends |
| `AdmitAuth` | `AdmitAuth` |
| `AdmitOpaque`, `OpaqueRefused`, `OpaqueAdmitted`, `OpaqueGivesUp` | `AdmitOpaque`, up to the wait and how it ends |
| `ReportRateLimited`, `KillSwitch`, `Tick`, `PruneReceipts`, `OperationExpires` | rate limit notices, the operator, time |

The controller holds one mutex, so a call is one step except where `waitLocked`
or the `select` of `BeginOperation` gives it up. Calls that are refused and change
nothing are not steps. `BeforeAttempt` of an operation's publication may wait, but
looks at everything again afterwards and keeps nothing from before, so it is the
step in which it succeeds. The code refills a bucket whenever it looks at it;
because refilling for two spans one after the other is refilling for their sum,
`Tick` refills all buckets at once. `Token` refill units make a token, so rates
slower than a token per tick are there too. Which evictable identity a lookup
drops is Go's map order: any of them.

### `Inbound`: state and code

| Variable | Code |
| --- | --- |
| `clock`, `created`, `at` | time, events' `created_at`, what each relay stores (external) |
| `held` | the local event store |
| `cursor` | `AdvanceCursor`'s durable cursor of the regular filter, per relay |
| `worker`, `active`, `budget` | a `runRelay` goroutine: where its session is, the filters it still syncs, their CLOSED budgets |
| `chan` | the `inbound` channel |
| `gen` | `cursorGeneration` of the regular filter |
| `progress`, `caughtUp` | `relayProgress`, `IsCaughtUp` |
| `handled`, `rerun`, `pruned`, `rejected`, `failed`, `anchor` | history |
| `lag`, `faults` | bounds |

| Action | Code |
| --- | --- |
| `Connect`, `Negentropy`, `NegentropyUnavailable`, `Page`, `Widen` | `runRelay`, `syncRelay`, `catchUp`, `fetchPaged` with its widened second pass |
| `Open` | `follow`, the answer of a live REQ up to EOSE |
| `Drop`, `Closed` | a session that breaks, or is closed, in the middle of an answer (`Parts`); CLOSED answers, `inboundClosedLedger`, `closedRetryBudget` |
| `Consume...` | `consume` per item: `handleEvent` (rejected, failed, duplicate, new), begin, commit, caught up, failed, gave up; `cursorTracker`, `updateLoomProof`, `updateCaughtUp`, `pruneStore` |
| `Arrive`, `Tick`, `Crash`, `Restart` | a relay receives an event, time, a restart (which prunes before it syncs) at once and after a downtime |

The subscription is split, as `splitInboundFilter` does it, into a filter of
persistent kinds, reconciled in full (Loom statuses, for which completeness is
proved), and one of regular kinds that resumes from a cursor. Events are sent in one
item per event, newest first; a session that breaks or is closed has sent any prefix.
An event is valid while it is dated no further in the future than the skew, while it
is not too old (`MaxAge`, regular kinds only) and before its NIP-40 expiry; verified
history (`Historical`, `AllowsHistoricalReplay`) is admitted whatever its date. An event
reaches a relay at most `Overlap - Lag` after its `created_at`: this is what the
overlap is for, less the time a delivery may wait before its cursor moves. A
future-dated event is rejected until the clock catches up; the cursor is clamped
to the clock, so the skew is harmless. `NoGap` exempts events that failed to store
once (see the divergences) and more events in one second than a page holds, which
the code skips with a warning.

### `Intents`: state and code

| Variable | Code |
| --- | --- |
| `body[r]` | actor, domain, operation, coordinate and content of r |
| `class[r]` | how `process` treats the domain and operation of r: plain, evaluated, strict, virtual, admitted, backup |
| `standing` | what the trust set says of a principal |
| `call[c]` | a goroutine inside `process`: where, for which request, with what result |
| `marker` | the `ProcessedIntentRecord` in the local store |
| `applied`, `published`, `woken` | what handlers did, which statuses relays accepted, for whom `AfterAccepted` ran |

| Action | Code |
| --- | --- |
| `Submit`, `Drop`, `RejectMalformed` | `ProcessRelayIntent`, `processVerifiedRumor`, `ProcessInProcess` and step 0 of `process` |
| `Fresh`, `ReplayConflicts`, `ReplayAccepted`, `ReplaySkipped` | step 1, deduplication |
| `Authorize`, `Unauthorized`, `Untrusted` | step 3 |
| `Handle`, `Pending`, `HandleFails` | steps 4 and 5, the domain handler |
| `Evaluate`, `Mark`, `Announce`, `Accept`, `PublishFails`, `Wake` | publication of an evaluation, `markProcessed`, status, `AfterAccepted` |
| `ChangeTrust`, `Crash` | membership changes, restart |

Different intent_ids share nothing, so one id is followed. Two requests with it have
different bodies, or one body and another organisation or signed event. A strict replay
compares the bodies, and for virtualization the organisation and the signed event as
well (`Replays`), so elsewhere a request is answered by the record of another one with
its body.
Containment, disabled domains, a missing handler and invalid envelopes are one
action, since all leave without an effect. The marker's save may fail or lose
against an event of the same second; both are only logged. Refusals are published
best effort.

### `Provisioning`: state and code

| Variable | Code |
| --- | --- |
| `pc[r]` | the step of whoever holds `lockRequest` for r |
| `run[r]` | `saga.Run`: stage, run id, resume stage, resources created and compensated, retention |
| `ledger[r]` | `productionProvisioningState`: completed steps, owned resources, key, Soul published, terminal projection, success delivery |
| `reservation`, `unit`, `binding`, `intent`, `minted`, `soul` | the agent id's reservation, registered unit, newest release binding, deployment intent, signer keys, kind-31951 projection |
| `result[r]` | kind-7950 results on the relays: the saga's success or error, and refusals of the handler |
| `unsaved`, `issued`, `faults` | history and bounds |

| Action | Code |
| --- | --- |
| `Receive`, `Refuse`, `Prepare`, `Start`, `Operate` | the reactor's handler past its checks, its error results, `prepareRequest`, `Engine.Start`, operator commands |
| `Reconcile`, `Inspect`, `Verify`, `InspectFails`, `Checkpoint`, `Advance` | `Engine.Reconcile`: inspect, apply, inspect again, save lineage, save stage |
| `Reserve`, `RegisterUnit`, `SelectRelease`, `Deploy`, `Enroll`, `SaveKey`, `Ensure`, `Record`, `ApplyFails` | the production port's steps |
| `PublishSoul`, `SaveSoul` and their failures | publication of the active Soul |
| `Rollback`, `BeginAbort`, `Compensate`, `CompensateFails`, `RecordCompensation`, `FinishAbort`, `Mark` | `failAndRollback`, `SafeAbort`, `RetentionPolicy.Mark` |
| `EnsureTerminal`, `PublishError`, `SaveTerminal` | `ensureTerminal` |
| `Sign`, `Announce`, `Settle` | `deliverSuccess` |
| `Purge`, `PurgeRelease`, `PurgeDelete` | `PurgeExpired` over `ledgerPurgingStore` |
| `Abandon`, `Revoke` | a crash, a failed save or a cancelled context; the lifecycle handler |

Each step makes one durable write or one external effect, so a crash or another
request comes between any two. Under a request's lock the engine's copy of the run
is the stored one, so version checks never fail and are left out. Several requests
name one agent id; requests for different agents share nothing. `Refuse` is the handler
for a requester who is not authorized, a missing factory key, a request that does not
parse or a missing registry: it publishes an error whatever the request's saga has come
to, since most of these checks come before the lookup of an earlier result. For a
request that was accepted before, the configuration must have changed over a restart,
so refusals are among the faults. `RecordCompensation` includes the inspection after
`Remove`: only what is gone, or there and no longer the run's, is recorded as
compensated. `EnsureTerminal` adds the projection of the end to the run's lineage.

## Runs

`Quorum`, `MaxAttempts` and the relays are the code's parameters; the other
bounds limit the environment. `MaxAttempts = 2` is the smallest budget with a
round that does not exhaust it; two relays are the smallest set in which a
quorum, a partial answer and a disagreement all exist; one crash, relay change,
retry or fault each is enough to separate every pair of transactions. `Live` has one
relay and publishes its event twice, so that the second call meets the runner's round
of the first and waits for it; its relay change leaves no relay, or brings it back.
Deadlock is not checked: a daemon whose environment has nothing left to do is idle.

| Run | Instance | Checks |
| --- | --- | --- |
| `Live` | two inline publishes of one event, one relay, crash, relay change, retry | `PendingSettles`, `CallsReturn` |
| `BeforeCommit` | two calls of `PublishBeforeCommit`, two relays, quorum 1, crash, relay change, retry, fault | `AcceptancesHeard`, `SuccessIsProven`, `ProofSound`, `PublishedHasQuorum` |
| `Coordinate` | two inline versions, one relay, crash | `NeverSilentlyDropped`, `QueuedIsDurable` |
| `Queued` | two queued versions and a newer foreign one, two relays, quorum 1, crash (416 000 states) | `MarkerHonest`, `MarkerBacked`, `NoResend`, `GivenUpForCause`, `AnnouncedIsDurable` |
| `Faults` | two inline publishes of one event, two relays, all-relays quorum, relay change, fault | `TypeOK`, `DurableProgress`, `ImplementsContract` |
| `Gate` | three relays of which two fit the registry, two publications, an opaque request, AUTH frames; tokens that take one or two ticks | `Admission`'s `TypeOK`, `NothingLeaked`, `HeldIdentitiesKnown`, `WireBudget`, `LanesReserved` |
| `Paced` | two operations, two publications of two events, one relay, a rate limit answer (2.1 million states) | `NoConcurrentCopy`, `OneOutstanding`, `BackoffKept` |
| `OperationQueue` | four operations, a queue of two | `SlotOwned`, `QueuedServed` |
| `Inbound` | one relay, a late regular event that is verified history, a punctual one that grows too old, a future-dated status that expires, pages of two, one fault (1.35 million states) | `NoGap`, `HandledOnce`, `LoomProofSound`, `EventuallyHeld` |
| `Intents` | the relay consumer and an MCP caller, two requests of one principal with one intent_id, of one body or two, every class (3.7 million states) | `AcceptedIsApplied`, `SuccessIsPublished` |
| `Provisioning` | two requests for one agent, two run ids each, one fault (332 000 states) | `TypeOK`, `LiveSoulReserved`, `ResultExclusive`, `LineageKept`, `RolledBackComplete`, `KeyMintedOnce`, `EffectsHoldReservation`, `WorkflowReturns` |
| `HandlersRerun` | one relay, one event, retention longer than the overlap | `HandlersRunOnce`, which the code violates |

For `Gate`, two identities for three relays is the smallest registry in which an
eviction competes with a reference held; two publications give a reference count
of two and a rollback beside a publication that stays. For `Paced`, two operations
let one be closed during a wait and the other take the slot, and two events let an
operation claim a second publication while its first one waits. For
`OperationQueue`, four operations fill the slot and the queue and leave one to be
refused. Publications and relays are symmetric; the liveness run uses no symmetry.

For `Inbound`, three events exceed a page of two, so paging, the widened pass and a
page that ends within a second all happen; `Overlap`, `Lookback` and `Retention` are
two ticks so that the clock, which starts at `Start` and is bounded by `MaxClock`, passes each of
them; a relay sends events of one second in any order; `Lag`
bounds how long a delivery waits and `Capacity` how far a worker runs ahead of the
consumer; one fault (`MaxFaults`) is a drop at any point, CLOSED answers to any
filters, a failed store, a failed cursor write or a restart. For
`Intents` there is no counter and nothing to bound; two requests are enough for one
to find the other's marker, and two calls for a race. For `Provisioning`, two run
ids let a purged request come back with a new one; the safety properties were also
checked with two faults (3.1 million states). In `Inbound` and `Provisioning`
deadlock is not checked: the clock's bound and an idle factory end behaviours.

### Where the code does something else than its documents say

`HandlersRerun` is a finding in `PROJECT.json` with the quotations: the cursor of a
filter that has been quiet for longer than the retention stays at its last event,
which is pruned at a restart and then delivered again from cursor minus overlap, as
new, so that its handlers run a second time.

Other divergences, met while modelling and visible in the models, though no run is
kept for them:

* Publishing. A version abandoned in its caller's round is deleted, but the older
  version that `SaveEvent` replaced does not come back, although its own delivery was
  queued and later given up on (`publisher.go:796`; `docs/architecture/outbox-delivery.md:112`
  "Nothing is lost because the caller knows.").
* Publishing. A page read before a caller's round restarts a delivery the caller
  settled and forgot (`publish_delivery.go:806`, 820-830); it contacts relays that already
  accepted and, given up on, marks an event whose proof is on disk
  (`localstore/undelivered.go:24` "no publish quorum accepted it").
* Publishing. A restart between the replacement of a version and the lifting of its
  marker, which are two transactions (`localstore/store.go:263`,
  `localstore/undelivered.go:117`), leaves the coordinate marked for a version the store
  no longer holds, and saving the newer version again returns before the marker
  (`localstore/store.go:246`; `localstore/undelivered.go:24` "The marker is cleared when
  [...] a newer version is saved on the coordinate").
* Publishing. A refused frame beside a reconnect backoff already seen makes a round
  count (`publish_delivery.go:61`), and such rounds alone exhaust the budget
  (`outbox-delivery.md:180` "both remain relay-reported outcomes").
* Publishing. `deliverRound` reports a delivered round without error although
  `persistRound` failed (`publish_delivery.go:491`; `outbox-delivery.md:43` "Verified
  quorum outcomes are committed before success is reported").
* Inbound. A catch-up in which an event failed to store is not committed, but
  `follow` begins a new generation, which is clean, and live events then move the
  cursor past the event that failed (`replay_cursor.go:249`, against its comment at
  :26).
* Inbound. Exactly `PageLimit` Loom statuses in one second make `fetchPaged` report
  "more than %d events share" them (`inbound_sync.go:628`) for ever, which also keeps
  that relay's regular filter from being reached.
* Intents. A restart between the store of a relay intent and its processing loses the
  intent: it is not new any more (`docs/architecture/intents-and-authority.md:352`
  says it is replayed). Two calls can both apply one intent, since no lock spans the
  check and the marker (`:126` "never applies an intent twice"); what holds is
  `AcceptedIsApplied`.
* Intents. The subscription is not restarted when the trust set changes: the
  cancel function is stored and never called (`intent_subscriber.go:20`).
* Intents. Outside virtualization a strict replay does not compare the organisation
  (`intent_processor.go:368`): a request for another organisation with the same id and
  body is answered "accepted" from the first one's record.
* Provisioning. The handler's checks of authorization, factory key and syntax come
  before the lookup of an earlier result (`reactor.go:625`-654), so a request backfilled
  at a restart after its requester lost the authorization gets an error result beside
  its success (`reactor.go:278` "Existing terminal-result checks make replay
  idempotent"); and a refusal on the relays makes `deliverSuccess` of a later attempt
  stop with a conflict. What holds is `ResultExclusive`, which is about the saga's own
  results.
* Provisioning. A revoked Soul is treated as absent (`governed_provisioning_production.go:354`),
  so a retried request publishes it active again (`lifecycle_handler.go:1453`
  "permanently terminates").
* Provisioning. A restart between the save of `rolled_back` and the separate save of
  its retention leaves a run that no pass purges; one between the release of a
  resource in the ledger and its compensation record makes the next abort refuse it
  and end in `failed_terminal`; a Soul that was published before a rollback stays
  active under a run that cannot finish it. The compensation ranks are not the reverse
  of the forward order.

Scope of the passing properties, from the same causes. The code does not keep the
following properties beyond it:

* `QueuedIsDurable`: the first publish of an event. Publishing again an event whose
  row has failed answers "queued" for a row that stays failed.
* `AnnouncedIsDurable`: queued events, no failing transactions. A quorum can be reached
  without its proof being committed (a failed commit, or a delivery that a stale page
  restarted and whose row was settled and pruned), and a later skipped round announces
  it. A `PublishBeforeCommit` event is outside as well: a crash after its entry is
  admitted with the quorum and before the proof is committed leaves a quorum without
  proof to a later skipped round.
* `NoResend`: queued events, at most one policy change. With inline events the stale
  page resends, and a relay that leaves the policy and returns has been forgotten by
  `SyncRelays` and is contacted again.
* `MarkerHonest` and `MarkerBacked`: queued events. Inline ones meet the stale page,
  and a caller that abandons an event between the save and the mark of the startup
  restoration leaves a marker that points at nothing. `MarkerBacked` says that the store
  holds the marked version or a newer one, not that it holds the marked one, because of
  the restart inside a save.
* `MarkerHonest` also: published once, no operator retries, no policy change. A
  crash between the commit of a retried event's quorum and the lifting of its marker
  leaves the marker on an event that was delivered; when the policy drops the
  relay that accepted and the remaining one refuses, a delivered event is marked.
* `NeverSilentlyDropped`: for inline events, the first publish.
* `GivenUpForCause`: unchanged write relays; for inline events also no operator retry,
  since a delivery that a stale page restarted counts on from before the retry. It says
  that a round in which every relay was refused, or every relay held back, spends
  nothing; a round in which some were refused and the others held back does count, as
  listed above.
* `HandledOnce` leaves out events that retention removed, `NoGap` events that
  failed to store, and `EventuallyHeld` a relay that holds a page of statuses in
  one second.

### Fairness

`FairSpec` assumes weak fairness of every goroutine's next step (rounds, calls,
startup); strong fairness of `Redeliver` and `ListPending`, because every pass of
`Run` serves all due deliveries and then lists pending rows, so neither can be
passed over forever; strong fairness of a waiting caller's round, because a
`sync.Mutex` is handed to the goroutine that has waited longest before the runner's
next round can take it again and again; and strong fairness of a counted round, because
admission gates and reconnect backoff end. Nothing is assumed of the environment: crashes,
retries and relay changes need not happen. `PendingSettles` needs the attempt
budget: relays may refuse to answer forever.

`Admission`'s `FairSpec` assumes that callers close the operations they were given
("The returned Operation must be closed"), that a `select` with a ready branch
goes on, and that a call that left it gets the mutex. Nothing is assumed of timers
and cancellations, so `QueuedServed` holds because slots are handed on, not
because waiters time out.

`Inbound` assumes weak fairness of each worker's next step and of the consumer:
goroutines that are ready run, and a backoff ends. Events, drops, CLOSED answers,
failures and restarts need not happen. `EventuallyHeld` says that of what a relay
stores, everything a filter still active there matches is stored again and again,
so a broken session must be followed by another. `Provisioning` assumes weak
fairness of the holder of each request's lock: a goroutine inside a call goes on.
Requests, commands, faults and purges come when they come. `Intents` is about
safety only and assumes none.

## Proofs

`DeliveryProofs` assumes only `RelayAssumption` (the relays are a finite set) and
`DeliveryAssumption` (types of the other constants, an attempt budget of at least
one). It proves, for every set of relays and events, every quorum and all bounds:

* `TypeCorrect`: `Spec => []TypeOK`.
* `EvidenceCorrect`: `Spec => []Evidence`, the inductive invariant behind the
  next three.
* `AcceptancesSound`, `ProofsSound`, `PublishedSound`: `AcceptancesHeard`,
  `ProofSound`, `PublishedHasQuorum` hold always.
* `ProgressIsDurable`: `Spec => DurableProgress`.
* `ContractIsImplemented`: `Spec => ImplementsContract`, the refinement of
  `PublishContract`.
* `SuccessIsDurable`: `SuccessIsProven` holds always if no event that calls for a
  proof is published inline.
* `MarkerIsBacked`: `MarkerBacked` holds always if no event is published inline.

`ProofSound` and `PublishedHasQuorum` are not inductive: a proof or a published
row is written from the in-memory delivery, which was restored from a page, which
was read from a row. `Evidence` says of all four that the acceptances they hold
were heard, and of a delivery between `FirstRound` and `RecordDelivered` that it
has its quorum. It is preserved because what is heard only grows
(`EvidenceMonotone`), because a commit claims a quorum only for the relay set it
was counted against (`CommitEvidence`), and because every other step copies
evidence from one place to another or drops it (`SilentStep`).

What the steps do to the outbox is stated once, as `DurableStep`: a row is
submitted, a round is committed to it with what relays said, failed rows are
reopened, settled ones expire, or nothing durable changes. Every action is shown to
be one of these, and `DurableProgress` and the refinement are then proved of
`DurableStep` alone. The first also needs `AbsentIsEmpty` (an event the outbox does
not know has nothing recorded), the second `Evidence`, because the contract lets a
row settle as published only on a quorum that was heard.

The hypothesis of the last two theorems is on the constant `Path`, which says by
which call an event is published, and it is the code's own condition. Only a
caller's own inline round answers from the verdict in memory when the commit of the
round failed (`publish_delivery.go:491`), and only such a round deletes its event
from the store (`publisher.go:796`). TLC finds a counterexample to each property
when the hypothesis is dropped. `Shape` says that a call of the other paths never
holds a round that is released with a verdict, and `Answered` that it told success
only after the proof was on disk. `Backed` adds to `MarkerBacked` that an event
about to be marked, by a round or by the startup restoration, was saved before, so that
a crash inside a save, which only makes the stored version newer, keeps it.

`ScopedProofs` proves the remaining safety properties of `Delivery`, each in a
scope that its hypotheses name. Within it relays, events, quorum, attempt budget and
the bounds that are not named are arbitrary. `NotInline` says that no event is
published inline, `QueuedOnly` that every event is queued (`Enqueue`) or foreign.

| theorem | property | hypotheses |
|---|---|---|
| `NothingIsDroppedSilently` | `NeverSilentlyDropped` | `NotInline` |
| `NothingIsResent` | `NoResend` | `QueuedOnly`, no policy change |
| `AnnouncementsAreDurable` | `AnnouncedIsDurable` | `QueuedOnly`, no policy change, no failing transaction |
| `AbandonmentHasCause` | `GivenUpForCause` | `QueuedOnly`, no policy change |
| `MarksAreHonest` | `MarkerHonest` | `QueuedOnly`, no policy change, no operator retry, one publish per event |
| `QueuedAnswersAreDurable` | `QueuedIsDurable` | one publish per event |

Most hypotheses mark the edge of the property: TLC finds a counterexample when
`NotInline`, "one publish", "no operator retry" or "no failing transaction" is
dropped, when the policy may change once for `MarkerHonest` and `GivenUpForCause` or
twice for `NoResend`, and when events are published inline or by `PublishBeforeCommit`
for `NoResend` and `AnnouncedIsDurable`, or inline and retried for `GivenUpForCause`.
The others limit the proof, not, as far as TLC saw, the property: for `GivenUpForCause`
and `MarkerHonest` it found none with `PublishBeforeCommit` alone, and for
`AnnouncedIsDurable` none with two policy changes. The hypotheses are met by the run
`Queued` (the first five) and by `Coordinate` (the last). `Coordinate` checks
`NeverSilentlyDropped` for the first publish of inline events, which the theorem does
not cover; that part stays model-checked.

`OrderCorrect` is the invariant the first five rest on: without inline callers the
runner has one round at a time, its page names no event it is busy with or that was
given up on since the page was read, and a delivery of such an event announces
nothing. `Kept` adds that an event that was given up on is stored and, while it is
the newest, marked, or that somebody is on the way to do so: the round that gave it
up, or the startup restoration, since a crash may come between the commit and the
store writes. A version that is not known cannot become one that was known before
(`UntouchedBefore`), so what was marked as the newest stays the newest.

For queued events every step, seen from one event, is one of a few (`Steps`,
`NextSteps`): a round begins, ends, is parked or kept, the page is read, the entry is
submitted, retried or dropped, or nothing changes. The invariants below are each
proved of `Steps`. `Flow`: a delivery in memory, and a page copy, know every
acceptance their pending entry holds, so retryable relays are never among the
accepted ones. `KnownIsProven`: a quorum of acceptances, wherever it is recorded, has
its proof. `BudgetIsSpent`: no count of rounds, in memory, in the entry or on the
page, is ahead of the rounds in which relays had a chance, and an entry that failed has
used up its budget or lost its quorum to rejections. `Honest`: an event that is
marked or about to be was given up on, its entry will not come back, and a pending
entry with a proof holds a quorum, so no later round gives it up. For inline events
`FirstCall` says that an event is before its call, in it or past it; during the call
the delivery that `enqueueAndDeliver` registers before admission keeps the runner
away, so the entry is pending until the caller's own round settles it. TLC checked
`Order`, `Kept`, `Flow`, `BudgetIsSpent` and `Honest` for two queued events on two
relays with a crash and a failing transaction (2.1 million states), and `FirstCall` on
the instance of `Coordinate` and for one event on two relays with a crash, a relay
change, a retry and a failing transaction.

`AdmissionProofs` assumes only `AdmissionAssumption` (relays, publications and
opaque calls are finite sets; budgets, bounds and the breaker's delays are
positive, the largest delay no smaller than the least) and `NoneAssumption` (the
null value is no publication, operation or event). It proves, for all of these:

* `Invariance`: `Spec => []Inv`, the inductive invariant.
* `AdmissionTypeCorrect`, `HoldingsSound`, `IdentitiesHeld`, `NoCopies`,
  `WireBudgetSound`, `LanesSound`: `TypeOK`, `NothingLeaked`,
  `HeldIdentitiesKnown`, `NoConcurrentCopy`, `WireBudget`, `LanesReserved` hold
  always.
* `SlotIsOwned`, `OneClaimAtATime`: `SlotOwned`, `OneOutstanding` hold always.
* `BackoffIsKept`: `Spec => BackoffKept`.

`WireBudget` is about what relays receive and is not inductive. `Inv` says that
the controller's buckets are the relays' (`BucketsMatch`), where an identity that
is not known counts as full; that holds because only full buckets are evicted
(`NewIdentities`), and a frame is charged to a bucket that is really there only if
its relay is known, which is `HeldIdentitiesKnown`. An identity in use stays known
because its count is positive (`HeldIsReferenced`), so the counts must be exact:
`NothingLeaked`. A count goes down by one for each holder because no two
publications share a key (`NoConcurrentCopy`) and every holder is counted once
(`PublicationRegisters`, `PublicationUnregisters`, `OpaqueRegisters`,
`OpaqueUnregisters`). `LanesReserved` is preserved by a refill because a sum of
minima is at most the minimum of the sums (`TickStep`).

`SlotInv` adds to `SlotOwned` that the slot's owner, and nobody else, is marked
activated, and that the queue holds each waiting call once and no activated one:
without it a call could leave the queue twice, or an activation could go to one that
is gone. `ClaimInv` says what a paced call keeps while it has given up the mutex: the
operation is busy for one publication only and has room for its event.
`FreshInv` says that the publications of the breaker's present generation are those
admitted since the last rate limit answer, so that a result of an older generation is
recognised. TLC checked the three on `OperationQueue` and `Paced`.

`InboundProofs` assumes only `InboundAssumption` (finitely many events, an overlap of
at least one tick that covers how long a delivery waits and how late an event is
dated, pages of at least one event). It proves, for any relays, events, windows, page
limit, budget and bounds:

* `HandlersGated`: `Spec => []HandledOnce`.
* `LoomProofIsSound`: `Spec => []LoomProofSound`.

For the first, `Gate` adds that what was handled is stored or was pruned. The second
relates the consumer's record of a relay to a worker that has run ahead of it, over
what is in the channel. `LoomInv` therefore speaks of the part of the channel that
belongs to the relay's present session, after the last note that one failed
(`Pending`, `Cut`). A relay is in one of two phases (`LoomOf`). Before the session's
live status REQ is open, the consumer is not ready and will not become ready from
what is queued (`Before`): a REQ that begins counts only behind the note that the
catch-up is complete, and such notes and beginnings come in the right order
(`Ordered`). The worker has meanwhile sent everything above the page it asks for, or,
past the status catch-up, everything but what the live REQ will repeat (`Covers`).
Once the live REQ is open, every status the relay holds is stored, rejected, queued,
or known to be lost (`AllGot`). A step of a worker is examined for its own relay
(`Keeps`); `Carry` says when a step leaves the phase of a relay as it is, which covers
other relays' workers, the clock, arrivals and the consumer. The pages need that a
relay's answer holds the newest events, which leaves nothing between two pages
(`PageCovers`), and that an event which arrives during the session is dated late
enough for the live REQ, which is what the overlap is for. A part of an answer
(`PartsForm`) is followed by the note that the session failed, and a restart changes
nothing but what retention removes (`RestartKeeps`). TLC checked `LoomInv` on
`Inbound`.

`CursorProofs` proves, from the same assumption:

* `CursorsLeaveNoGap`: `Spec => []NoGap`.

The cursor moves when the consumer takes a commit or, in a live generation, an event;
what it may skip was decided when the worker sent these, long before. `GapInv`
follows an event that a relay holds and the store never got (`Lost`) over that
distance. The event may be fresh (`Fresh`): dated so late that no cursor, which is
never ahead of the clock, leaves it more than the overlap behind. This is where the
assumption is used that the overlap covers the lag between a delivery and its cursor.
Otherwise it is stale, and no event becomes lost and stale at once. Then every
commit on its way, and every event a live generation will observe, comes behind a
delivery of it in the channel (`Commits`, `Observed`), so by the time the cursor moves
it is stored, rejected or failed, and not lost. A worker can send such a commit
because of what it has done before (`Follows`): a paged catch-up has in its window
all that the relay's first committed catch-up began with, and has sent what lies above
the next page (`Window`, `PageReaches`; a second that more than a page shares is what
`NoGap` leaves out); its events belong to a generation that has begun and is not live,
whatever commits an earlier session left in the channel (`Reopened`); a live REQ opens
only behind all this and repeats what is fresh. The first commit of a relay sets what
later ones are measured by (`anchor`), and may do so only for a catch-up, not for a
live REQ, whose commit carries no floor: this is `Known`, which says over the
channel what the consumer will believe of the relay when it comes to an item. A step
of a worker is examined for its own relay (`MovesGap`, `MovesFollows`), and
`GapAside` and `NoteGap` say when a step leaves a relay as it is. TLC checked `GapInv`
on `Inbound` (1.35 million states).

`ProvisioningProofs` assumes only `ProvisioningAssumption` (at least one run id, a
null value that is no request). It proves, for any number of requests for the agent,
of run ids and of faults:

* `ProvisioningInvariant`: `Spec => []IInv`, the inductive invariant.
* `WellTyped`, `LiveIdentityIsReserved`, `OneKindOfResult`, `LineageIsKept`,
  `RollbackIsComplete`, `OneKeyPerRun`: `TypeOK`, `LiveSoulReserved`,
  `ResultExclusive`, `LineageKept`, `RolledBackComplete`, `KeyMintedOnce` hold always.
* `EffectsAreReserved`: `Spec => EffectsHoldReservation`.

None of these is inductive. `IInv` has one part about the durable records of a
request, wherever its workflow stands (`Durable`: whose they are, which steps a stage
rests on, what ties it to the reservation, what a rollback has done, what results
were signed), and one about each place of a workflow (`Works`, `Place`, `Stands`,
`Keys`): which records the place works on, at which stage, and what the steps before
it have established, because an effect and its record are separate steps and a crash
may come between. Effects are reserved because the identity step is the first, its
ledger record is there only while the reservation is the request's, and every later
stage rests on that record. A step of one request leaves the records of the others
alone (`StepOf`), and the shared reservation and Soul change hands only in ways the
others do not see (`Untouched`). `Rolls` keeps apart the projection of an end, which a
rolled back run records as created and nothing compensates, from the resources of the
steps, and says that a Soul is recorded as compensated only when it is not active;
`Results` speaks of the saga's own results, which a refusal may stand beside. TLC checked
`IInv` with two faults (3.1 million states).

`IntentsProofs` assumes only `PathAssumption`, `ActorAssumption` and
`NoneAssumption` (ways in, principals, a null value that is no request). It proves,
for any callers, requests and principals:

* `AcceptedIsAppliedAlways`: `Spec => []AcceptedIsApplied`.
* `SuccessIsPublishedAlways`: `Spec => []SuccessIsPublished`.

Neither is inductive: what a replay publishes depends on the marker another call
left, and what a call publishes at its end on what it did before. The inductive
invariant adds what the marker stands for (`MarkerStands`: a marked request was
applied, and a marked evaluation published) and what each place in `process` stands
for (`CallStands`: a call at `mark` or `accept` has applied its request, one at
`republish` has it or one it replays applied (`Served`), one past an evaluation has
published it, one at `wake` has its status out). The
lemma `Frame` says that what the other calls rely on only grows, so a step of one
call is examined for that call alone (`StepTyped`, `StepIInv`); the strict
comparison is what lets a replay infer its own application from the marker.

Only model-checked: the liveness properties `PendingSettles`, `CallsReturn`,
`QueuedServed`, `EventuallyHeld` and `WorkflowReturns`, which are out of the prover's
reach; and `NeverSilentlyDropped` for inline events, where it holds of the first publish
only.

## Not modelled

Time: retry delays, jitter, retention periods, the pacing of `Run`. The
PostgreSQL archive mirror, best effort in the code. Evidence holds and backup
pins on rows, `PurgeEvents`, kind-5 deletions, the assistant-checkpoint guard on
`DeleteEvent`, events that are neither replaceable nor addressable. Failing
writes to the local event store, which the code logs and ignores. The handlers
that `OnDelivered` and `OnDeliveryAbandoned` call. The cap on discovered
deliveries. Of the admission controller: metrics, the defaults that complete a
configuration, normalisation of relay URLs, the lane an event's kind and tags give
it (a constant function), the files behind the kill switch and their write errors.
Of inbound
synchronisation: changes of the relay set and the epochs that guard them, the
daemon's own events, the sizes of backoff delays, events that arrive later than the
overlap, deletions, the construction of filters from authors. Of intents: what each
domain handler does, parsing and signatures (their verdicts are choices). Of
provisioning: dry runs, the monitor, steps with several resources, the arbitration
between a ledger record, its file and the process's copy, content generation.
The relay pool's sockets, the read-model projector, runtime and service adapters,
HTTP, MCP, command line and web application are input and output or data mapping
around these parts. The workflow coordinator and the reconciler have state worth
modelling and are next in the plan.

## Plan

1. Done: `LocalStore`, `Outbox`, `Delivery`, `PublishContract`; type correctness
   and the soundness of acceptances, proofs and published rows.
2. Done: `Admission` (`internal/nostrout`): budgets, breaker generations, receipts
   and in-flight keys, identities, the operation queue with abandoned waiters;
   its type correctness and the soundness of holdings and budgets.
3. Done: `Provisioning`, with the saga engine, its production port and retention.
4. Done: `Inbound`, with cursors, the Loom proof and liveness under faults.
5. Done: `Intents`, with its two safety properties proved.
6. The workflow coordinator with its stale-run detector; the reconciler with drift
   decisions and remediation.
7. The incident marker of the runtime kill switch: the fence survives crashes and
   write errors.
8. Done: theorems about `Provisioning`, the refinement of `PublishContract`, the
   operation slot, claims and backoff, the Loom proof.
9. Done: the theorem that cursors leave no gap, in `CursorProofs`.
10. Done: theorems for the properties of `Delivery` that hold in a named scope, in
    `ScopedProofs`.
11. Theorems for the first publish of inline events: `NeverSilentlyDropped`, from the
    phases of `FirstCall`. Concurrent calls for one event.
