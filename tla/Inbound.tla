------------------------------ MODULE Inbound ------------------------------
(***************************************************************************)
(* Inbound synchronisation (internal/adapters/nostr: inbound_sync.go,      *)
(* replay_cursor.go and Subscriber.handleEvent).  One worker per relay     *)
(* catches the relay up filter by filter and then follows it live; its     *)
(* items pass through one FIFO channel to one consumer, which stores and   *)
(* dispatches events and keeps the resume cursors.                         *)
(*                                                                         *)
(* There are two filters.  "status" is persistent (the Loom kind-30100     *)
(* set): it is reconciled in full on every connect, so its cursor is never *)
(* read and is left out.  "regular" resumes from its cursor.  A relay      *)
(* answers a REQ in one step, unless the session drops after part of the   *)
(* answer.  The relay clock and ours agree.                                *)
(***************************************************************************)
EXTENDS Integers, Sequences, FiniteSets, SequencesExt, FiniteSetsExt

CONSTANTS
    Relay,
    Event,
    Regular,       \* events of the regular filter; the others are statuses
    Own,           \* events the daemon itself signed
    Offset,        \* Offset[e]: created_at less the time of writing
    Overlap,       \* ResumeOverlap
    Lookback,      \* RegularLookback
    Retention,     \* how long regular events are kept
    Skew,          \* InboundEventMaxFutureSkew
    MaxAge,        \* InboundEventMaxPastAge, of regular events
    Expiring,      \* events with a NIP-40 expiration
    Lifetime,      \* their expiration less created_at
    Historical,    \* events the store admits as verified history
    BackdateOverlap, \* pagingBackdateOverlap
    PageLimit,
    Budget,        \* nostr.closed_retry_budget
    Capacity,      \* bound: items waiting when a worker still sends
    Lag,           \* bound: ticks while a catch-up runs or an item waits
    MaxClock,      \* bound: the last instant
    MaxFaults      \* bound: crashes, drops, CLOSEDs and failed writes

ASSUME InboundAssumption ==
    /\ IsFiniteSet(Event) /\ Regular \subseteq Event /\ Own \subseteq Event
    /\ Expiring \subseteq Event /\ Historical \subseteq Event
    /\ Offset \in [Event -> Int]
    /\ {Lookback, Retention, Skew, MaxAge, Lifetime, BackdateOverlap, Budget, Capacity, MaxClock, MaxFaults} \subseteq Nat
    /\ Overlap \in Nat \ {0} /\ PageLimit \in Nat \ {0}
    /\ Lag \in 0 .. Overlap
    /\ \A e \in Event : Offset[e] >= Lag - Overlap

VARIABLES
    clock,      \* the time
    lag,        \* ticks since the last quiet instant
    created,    \* created[e]: created_at, 0 while e is unwritten
    at,         \* at[k]: events relay k holds
    held,       \* events in the local store
    cursor,     \* cursor[k]: durable resume cursor of the regular filter
    worker,     \* worker[k]: the relay's worker
    active,     \* active[k]: filters not given up on the relay
    budget,     \* budget[k][f]: CLOSEDs in a row
    chan,       \* items on their way to the consumer
    gen,        \* gen[k]: generation of the regular key
    progress,   \* progress[k]: what the consumer knows of the relay
    caughtUp,   \* IsCaughtUp
    handled,    \* history: events whose handlers ran
    rerun,      \* history: events whose handlers ran more than once
    pruned,     \* history: events retention removed
    rejected,   \* history: events a delivery of which was rejected
    failed,     \* history: events that once failed to store
    anchor,     \* history: where relay k's first committed catch-up began
    faults

relays == <<clock, lag, created, at>>
workers == <<worker, active, budget>>
history == <<handled, rerun, pruned, rejected, failed, anchor>>
vars == <<relays, held, cursor, workers, chan, gen, progress, caughtUp, history, faults>>

----------------------------------------------------------------------------
(* Filters, timestamps and items. *)

Filters == <<"status", "regular">>
Filter == ToSet(Filters)
FilterOf(e) == IF e \in Regular THEN "regular" ELSE "status"
Status == Event \ Regular

\* What arrives this late is still found: the overlap less the time that
\* passes between a delivery and its cursor.
Tolerance == Overlap - Lag

ClampToClock(t) == Min({t, clock})

ResumeSince(c, now) ==
    IF c > 0 THEN Max({0, c - Overlap})
             ELSE IF Lookback = 0 THEN 0 ELSE Max({0, now - Lookback})

Begin(k, f)     == [op |-> "begin", relay |-> k, filter |-> f]
Deliver(k, e)   == [op |-> "event", relay |-> k, ev |-> e]
Commit(k, f, t) == [op |-> "commit", relay |-> k, filter |-> f, floor |-> t]
Note(op, k)     == [op |-> op, relay |-> k]

\* The events of S once each, newest first, as relays answer; the order within
\* one second is the relay's.
Newest(S) ==
    {s \in [1 .. Cardinality(S) -> S] :
        /\ \A e \in S : \E i \in DOMAIN s : s[i] = e
        /\ \A i, j \in DOMAIN s : i < j => created[s[i]] >= created[s[j]]}
Deliveries(k, S) == {[i \in DOMAIN s |-> Deliver(k, s[i])] : s \in Newest(S)}

Matching(k, f, since, until) ==
    {e \in at[k] : /\ FilterOf(e) = f
                   /\ created[e] >= since
                   /\ until = 0 \/ created[e] <= until}

\* The newest PageLimit of the matching events; a relay breaks ties as it likes.
Pages(M) ==
    {P \in SUBSET M :
        /\ Cardinality(P) = Min({PageLimit, Cardinality(M)})
        /\ \A e \in P, d \in M \ P : created[e] >= created[d]}

NoWorker == [pc |-> "down"]
NoGen == [newest |-> 0, live |-> FALSE, dirty |-> FALSE]
NoProgress == [caughtUp |-> FALSE, failed |-> FALSE, live |-> "none",
               ready |-> FALSE, dirty |-> FALSE, gaveUp |-> FALSE]
NoBudget == [f \in Filter |-> [retryable |-> 0, auth |-> FALSE]]

\* The first instant: late enough for every window, and every created_at, to
\* come after 0.
Start == Lookback + Overlap + 1

Init ==
    /\ clock = Start /\ lag = 0
    /\ created = [e \in Event |-> 0]
    /\ at = [k \in Relay |-> {}]
    /\ held = {}
    /\ cursor = [k \in Relay |-> 0]
    /\ worker = [k \in Relay |-> NoWorker]
    /\ active = [k \in Relay |-> Filter]
    /\ budget = [k \in Relay |-> NoBudget]
    /\ chan = <<>>
    /\ gen = [k \in Relay |-> NoGen]
    /\ progress = [k \in Relay |-> NoProgress]
    /\ caughtUp = FALSE
    /\ handled = {} /\ rerun = {} /\ pruned = {}
    /\ rejected = {} /\ failed = {}
    /\ anchor = [k \in Relay |-> -1]
    /\ faults = 0

Fault == faults < MaxFaults /\ faults' = faults + 1
Send(items) == chan' = chan \o items

----------------------------------------------------------------------------
(* Relays and time. *)

\* The live REQ of f on relay k is open.
Following(k, f) ==
    \/ worker[k].pc = "live" /\ f \in active[k]
    \/ worker[k].pc = "open" /\ f \in active[k] /\ f = "status" /\ worker[k].filter = "regular"

CatchingUp(k) == worker[k].pc \in {"negentropy", "page", "widen", "open"}
Quiet == chan = <<>> /\ \A k \in Relay : ~CatchingUp(k)

Tick ==
    /\ clock < MaxClock
    /\ Quiet \/ lag < Lag
    /\ clock' = clock + 1
    /\ lag' = IF Quiet THEN 0 ELSE lag + 1
    /\ UNCHANGED <<created, at, held, cursor, workers, chan, gen, progress, caughtUp, history, faults>>

\* An event is written and reaches one relay, or reaches a further one within
\* the tolerance.  A relay hands it to the live REQ it matches.
Arrive(k, e) ==
    /\ e \notin at[k]
    /\ LET t == IF created[e] = 0 THEN clock + Offset[e] ELSE created[e] IN
       t >= clock - Tolerance /\ created' = [created EXCEPT ![e] = t]
    /\ at' = [at EXCEPT ![k] = @ \cup {e}]
    /\ Send(IF Following(k, FilterOf(e)) THEN <<Deliver(k, e)>> ELSE <<>>)
    /\ UNCHANGED <<clock, lag, held, cursor, workers, gen, progress, caughtUp, history, faults>>

----------------------------------------------------------------------------
(* A relay's worker: runRelay, syncRelay, catchUp, fetchPaged, follow. *)

SetWorker(k, w) == worker' = [worker EXCEPT ![k] = w]
OnlyWorker == UNCHANGED <<relays, held, cursor, gen, progress, caughtUp, history>>

\* The worker as it starts to catch up on f.
CatchUp(k, f, start) ==
    IF f = "status" THEN [pc |-> "negentropy", filter |-> f, start |-> start]
    ELSE [pc |-> "page", filter |-> f, start |-> start,
          since |-> ResumeSince(cursor[k], start), until |-> 0, paged |-> FALSE, first |-> clock]

First(k) == IF "status" \in active[k] THEN "status" ELSE "regular"
HasNext(k, f) == f = "status" /\ "regular" \in active[k]

Connect(k) ==
    /\ worker[k].pc = "down"
    /\ SetWorker(k, CatchUp(k, First(k), clock))
    /\ Send(<<Begin(k, First(k))>>)
    /\ OnlyWorker /\ UNCHANGED <<active, budget, faults>>

\* The filter's catch-up is complete: its items are followed by the commit, its
\* CLOSED count starts over, and the next filter or the live REQs follow.
Caught(k, items, floor) ==
    LET w == worker[k]
        done == items \o <<Commit(k, w.filter, floor)>>
    IN  /\ budget' = [budget EXCEPT ![k][w.filter] = [retryable |-> 0, auth |-> FALSE]]
        /\ IF HasNext(k, w.filter)
           THEN /\ SetWorker(k, CatchUp(k, "regular", w.start))
                /\ Send(done \o <<Begin(k, "regular")>>)
           ELSE /\ SetWorker(k, [pc |-> "open", filter |-> First(k), start |-> w.start])
                /\ Send(done \o <<Note("caughtUp", k)>>)
        /\ OnlyWorker /\ UNCHANGED <<active, faults>>

\* NIP-77: what the relay has and the local store lacks.
Negentropy(k) ==
    /\ worker[k].pc = "negentropy"
    /\ \E items \in Deliveries(k, Matching(k, "status", 0, 0) \ held) : Caught(k, items, 0)

NegentropyUnavailable(k) ==
    /\ worker[k].pc = "negentropy"
    /\ SetWorker(k, [pc |-> "page", filter |-> "status", start |-> worker[k].start,
                     since |-> 0, until |-> 0, paged |-> FALSE, first |-> clock])
    /\ OnlyWorker /\ UNCHANGED <<active, budget, chan, faults>>

\* The floor a filter's commit carries.
Floor(w) == IF w.filter = "regular" THEN w.since ELSE 0

\* Where the page after a full one ends, 0 when there is none.
NextUntil(w, P) ==
    LET oldest == Min({created[e] : e \in P})
        next == IF w.until # 0 /\ oldest >= w.until THEN w.until - 1 ELSE oldest
    IN  IF next <= 0 \/ next < w.since THEN 0 ELSE next

\* More than a page shares one second: skipped, but never for Loom statuses.
Overfull(w, P) == w.until # 0 /\ Min({created[e] : e \in P}) >= w.until

EndSession(k, items) == Send(items \o <<Note("failed", k)>>) /\ SetWorker(k, NoWorker)

Page(k) ==
    /\ worker[k].pc = "page"
    /\ LET w == worker[k] IN
       \E P \in Pages(Matching(k, w.filter, w.since, w.until)) : \E items \in Deliveries(k, P) :
         \/ /\ Cardinality(P) < PageLimit
            /\ \/ ~w.paged /\ Caught(k, items, Floor(w))
               \/ /\ w.paged
                  /\ Send(items) /\ SetWorker(k, [w EXCEPT !.pc = "widen"])
                  /\ OnlyWorker /\ UNCHANGED <<active, budget, faults>>
         \/ /\ Cardinality(P) = PageLimit
            /\ \/ /\ Overfull(w, P) /\ w.filter = "status"
                  /\ EndSession(k, items)
               \/ /\ ~(Overfull(w, P) /\ w.filter = "status")
                  /\ Send(items)
                  /\ SetWorker(k, IF NextUntil(w, P) = 0
                                  THEN [w EXCEPT !.pc = "widen", !.paged = TRUE]
                                  ELSE [w EXCEPT !.until = NextUntil(w, P), !.paged = TRUE])
            /\ OnlyWorker /\ UNCHANGED <<active, budget, faults>>

\* After several pages, the newest part of the window is read again.
Recheck(k) ==
    LET w == worker[k] IN
    Deliveries(k, Matching(k, w.filter, Max({w.since, w.first - BackdateOverlap}), 0))

Widen(k) ==
    /\ worker[k].pc = "widen"
    /\ \E items \in Recheck(k) : Caught(k, items, Floor(worker[k]))

\* The stored events a live REQ opens with.
LiveAnswer(k) ==
    Deliveries(k, Matching(k, worker[k].filter, ResumeSince(worker[k].start, worker[k].start), 0))

Open(k) ==
    /\ worker[k].pc = "open"
    /\ LET w == worker[k] IN
       /\ \E items \in LiveAnswer(k) :
             Send(<<Begin(k, w.filter)>> \o items \o <<Commit(k, w.filter, 0)>>)
       /\ SetWorker(k, IF HasNext(k, w.filter) THEN [w EXCEPT !.filter = "regular"]
                                               ELSE [pc |-> "live"])
    /\ OnlyWorker /\ UNCHANGED <<active, budget, faults>>

\* What the REQ in progress would deliver.
Answers(k) ==
    LET w == worker[k] IN
    CASE w.pc = "negentropy" -> Deliveries(k, Matching(k, "status", 0, 0) \ held)
      [] w.pc = "page" -> UNION {Deliveries(k, P) : P \in Pages(Matching(k, w.filter, w.since, w.until))}
      [] w.pc = "widen" -> Recheck(k)
      [] w.pc = "open" -> {<<Begin(k, w.filter)>> \o items : items \in LiveAnswer(k)}
      [] OTHER -> {<<>>}

\* What it has delivered when it is cut off.
Parts(k) == UNION {{SubSeq(answer, 1, n) : n \in 0 .. Len(answer)} : answer \in Answers(k)}

Drop_GivesUp(k) ==    \* mutant: a broken session is not resynced
    /\ worker[k].pc \notin {"down", "stopped"}
    /\ Fault
    /\ Send(<<Note("failed", k)>>) /\ SetWorker(k, [pc |-> "stopped"])
    /\ OnlyWorker /\ UNCHANGED <<active, budget>>

\* The session ends without a CLOSED: a dropped connection, a failed REQ.
Drop(k) ==
    /\ worker[k].pc \notin {"down", "stopped"}
    /\ Fault
    /\ \E part \in Parts(k) : EndSession(k, part)
    /\ OnlyWorker /\ UNCHANGED <<active, budget>>

\* closedRetryBudget.closed.
Terminal(b, verdict) ==
    \/ verdict = "refused"
    \/ verdict = "auth" /\ b.auth
    \/ verdict = "retry" /\ b.retryable + 1 > Budget
Charge(b, verdict) ==
    CASE verdict = "auth" -> [b EXCEPT !.auth = TRUE]
      [] verdict = "retry" -> [b EXCEPT !.retryable = @ + 1]
      [] OTHER -> b

\* Filters with a REQ the relay can close.
Requested(k) ==
    IF worker[k].pc = "live" THEN active[k]
    ELSE {worker[k].filter} \cup {f \in active[k] : Following(k, f)}

\* The relay closes the REQs of some filters, each for a reason of its own and
\* perhaps after part of an answer; a refusal stands for a policy refusal and for a failed AUTH.
Closed(k) ==
    /\ worker[k].pc \notin {"down", "stopped", "negentropy"}
    /\ Fault
    /\ \E S \in SUBSET Requested(k) \ {{}} : \E v \in [S -> {"retry", "auth", "refused"}] :
       LET over == {f \in S : Terminal(budget[k][f], v[f])}
           left == active[k] \ over
       IN  /\ budget' = [budget EXCEPT ![k] =
                            [f \in Filter |-> IF f \in S THEN Charge(@[f], v[f]) ELSE @[f]]]
           /\ active' = [active EXCEPT ![k] = left]
           /\ \E part \in Parts(k) :
                Send(part \o <<Note("failed", k)>> \o (IF left = {} THEN <<Note("gaveUp", k)>> ELSE <<>>))
           /\ SetWorker(k, IF left = {} THEN [pc |-> "stopped"] ELSE NoWorker)
    /\ OnlyWorker

----------------------------------------------------------------------------
(* The consumer: consume, handleEvent and the cursor tracker. *)

Item == chan[1]
Receive(op) == chan # <<>> /\ Item.op = op /\ chan' = Tail(chan)
SetProgress(k, p) == progress' = [progress EXCEPT ![k] = p]

\* AdvanceCursor: a cursor never moves back; a failed write is only logged.
Advance(k, to) ==
    \/ cursor' = [cursor EXCEPT ![k] = Max({@, to})] /\ UNCHANGED faults
    \/ Fault /\ UNCHANGED cursor

Observe_Eager(k, e) ==    \* mutant: the cursor moves before EOSE
    IF e \in Own \/ e \notin Regular THEN UNCHANGED <<gen, cursor, faults>>
    ELSE UNCHANGED gen /\ Advance(k, ClampToClock(created[e]))

\* cursorTracker.observe of a stored event.
Observe(k, e) ==
    LET g == gen[k] IN
    IF e \in Own \/ e \notin Regular THEN UNCHANGED <<gen, cursor, faults>>
    ELSE IF ~g.live
         THEN /\ gen' = [gen EXCEPT ![k].newest = Max({@, ClampToClock(created[e])})]
              /\ UNCHANGED <<cursor, faults>>
         ELSE IF ~g.dirty
              THEN UNCHANGED gen /\ Advance(k, ClampToClock(created[e]))
              ELSE UNCHANGED <<gen, cursor, faults>>

\* ValidateInboundEvent, of an event that is well formed and signed, and the
\* admission of verified history in its place.
Valid(e) ==
    \/ e \in Historical
    \/ /\ created[e] <= clock + Skew
       /\ e \in Regular => created[e] >= clock - MaxAge
       /\ e \in Expiring => created[e] + Lifetime > clock

ConsumeRejected ==
    /\ Receive("event") /\ ~Valid(Item.ev)
    /\ rejected' = rejected \cup {Item.ev}
    /\ UNCHANGED <<relays, held, cursor, workers, gen, progress, caughtUp,
                   handled, rerun, pruned, failed, anchor, faults>>

\* SaveEvent fails: the generation is dirty, and no proof holds.
ConsumeFailed ==
    /\ Receive("event") /\ Valid(Item.ev) /\ Item.ev \notin held
    /\ Fault
    /\ LET k == Item.relay IN
       IF Item.ev \in Regular
       THEN gen' = [gen EXCEPT ![k].dirty = TRUE] /\ UNCHANGED progress
       ELSE /\ SetProgress(k, [progress[k] EXCEPT !.dirty = TRUE, !.ready = FALSE])
            /\ UNCHANGED gen
    /\ failed' = failed \cup {Item.ev}
    /\ UNCHANGED <<relays, held, cursor, workers, caughtUp, handled, rerun, pruned,
                   rejected, anchor>>

ConsumeDuplicate_Dispatches ==    \* mutant: handlers run for held events
    /\ Receive("event") /\ Valid(Item.ev) /\ Item.ev \in held
    /\ handled' = handled \cup {Item.ev}
    /\ rerun' = rerun \cup ({Item.ev} \cap handled)
    /\ Observe(Item.relay, Item.ev)
    /\ UNCHANGED <<relays, held, workers, progress, caughtUp, pruned, rejected, failed, anchor>>

ConsumeDuplicate ==
    /\ Receive("event") /\ Valid(Item.ev) /\ Item.ev \in held
    /\ Observe(Item.relay, Item.ev)
    /\ UNCHANGED <<relays, held, workers, progress, caughtUp, history>>

\* Handlers run only for an event that was not in the store.
ConsumeNew ==
    /\ Receive("event") /\ Valid(Item.ev) /\ Item.ev \notin held
    /\ held' = held \cup {Item.ev}
    /\ IF Item.ev \in Own THEN UNCHANGED <<handled, rerun>>
       ELSE /\ handled' = handled \cup {Item.ev}
            /\ rerun' = rerun \cup ({Item.ev} \cap handled)
    /\ Observe(Item.relay, Item.ev)
    /\ UNCHANGED <<relays, workers, progress, caughtUp, pruned, rejected, failed, anchor>>

ConsumeBegin ==
    /\ Receive("begin")
    /\ LET k == Item.relay p == progress[k] IN
       /\ gen' = IF Item.filter = "regular" THEN [gen EXCEPT ![k] = NoGen] ELSE gen
       /\ IF Item.filter = "status" /\ p.caughtUp
          THEN SetProgress(k, [p EXCEPT !.live = "begun", !.ready = FALSE])
          ELSE UNCHANGED progress
    /\ UNCHANGED <<relays, held, cursor, workers, caughtUp, history, faults>>

\* cursorTracker.commit: not for a generation that failed to store an event.
ConsumeCommitRegular ==
    /\ Receive("commit") /\ Item.filter = "regular"
    /\ LET k == Item.relay g == gen[k] IN
       /\ gen' = [gen EXCEPT ![k].live = TRUE]
       /\ IF g.dirty THEN UNCHANGED <<cursor, anchor, faults>>
          ELSE /\ Advance(k, ClampToClock(Max({g.newest, Item.floor})))
               /\ anchor' = IF faults' = faults /\ anchor[k] = -1 /\ ~progress[k].caughtUp
                            THEN [anchor EXCEPT ![k] = Item.floor] ELSE anchor
    /\ UNCHANGED <<relays, held, workers, progress, caughtUp, handled, rerun, pruned,
                   rejected, failed>>

ConsumeCommitStatus ==
    /\ Receive("commit") /\ Item.filter = "status"
    /\ LET k == Item.relay p == progress[k] IN
       IF p.live # "none" /\ p.caughtUp
       THEN SetProgress(k, [p EXCEPT !.live = "answered", !.ready = ~p.dirty])
       ELSE UNCHANGED progress
    /\ UNCHANGED <<relays, held, cursor, workers, gen, caughtUp, history, faults>>

\* updateLoomProof: the relay is proved complete.
LoomProof(k) == /\ progress[k].ready /\ ~progress[k].failed
                /\ ~progress[k].gaveUp /\ ~progress[k].dirty

\* updateCaughtUp, over what progress becomes.
UpdateCaughtUp ==
    caughtUp' = \/ caughtUp
                \/ /\ \A k \in Relay : progress'[k].caughtUp \/ progress'[k].failed
                   /\ \E k \in Relay : progress'[k].caughtUp

\* PruneRegularEvents, from a store that holds kept.
Prune(kept) ==
    LET old == {e \in kept \cap Regular : created[e] < clock - Retention}
    IN  held' = kept \ old /\ pruned' = pruned \cup old

ConsumeCaughtUp_Proves ==    \* mutant: catch-up alone counts as the proof
    /\ Receive("caughtUp")
    /\ SetProgress(Item.relay, [progress[Item.relay] EXCEPT !.caughtUp = TRUE, !.failed = FALSE,
                                  !.live = "none", !.ready = ~progress[Item.relay].dirty])
    /\ UpdateCaughtUp
    /\ Prune(held) \/ UNCHANGED <<held, pruned>>
    /\ UNCHANGED <<relays, cursor, workers, gen, handled, rerun,
                   rejected, failed, anchor, faults>>

\* The store is pruned if the last time was long enough ago.
ConsumeCaughtUp ==
    /\ Receive("caughtUp")
    /\ LET k == Item.relay IN
       SetProgress(k, [progress[k] EXCEPT !.caughtUp = TRUE, !.failed = FALSE,
                                          !.live = "none", !.ready = FALSE])
    /\ UpdateCaughtUp
    /\ Prune(held) \/ UNCHANGED <<held, pruned>>
    /\ UNCHANGED <<relays, cursor, workers, gen, handled, rerun,
                   rejected, failed, anchor, faults>>

ConsumeRelayFailed ==
    /\ Receive("failed")
    /\ SetProgress(Item.relay, [NoProgress EXCEPT !.failed = TRUE,
                                                  !.gaveUp = progress[Item.relay].gaveUp])
    /\ UpdateCaughtUp
    /\ UNCHANGED <<relays, held, cursor, workers, gen, history, faults>>

ConsumeGaveUp ==
    /\ Receive("gaveUp")
    /\ LET k == Item.relay IN
       SetProgress(k, [progress[k] EXCEPT !.failed = TRUE, !.gaveUp = TRUE,
                                          !.caughtUp = FALSE, !.ready = FALSE])
    /\ UpdateCaughtUp
    /\ UNCHANGED <<relays, held, cursor, workers, gen, history, faults>>

Consume ==
    \/ ConsumeRejected \/ ConsumeFailed \/ ConsumeDuplicate \/ ConsumeNew
    \/ ConsumeBegin \/ ConsumeCommitRegular \/ ConsumeCommitStatus
    \/ ConsumeCaughtUp \/ ConsumeRelayFailed \/ ConsumeGaveUp

\* The event the consumer may be about to store.
Storing == IF chan # <<>> /\ Item.op = "event" /\ Valid(Item.ev) THEN {Item.ev} ELSE {}

\* The daemon dies, perhaps between the store of an event and its handlers,
\* and restarts.  Run prunes before it starts the workers.
Crash ==
    /\ Fault
    /\ \E stored \in SUBSET Storing : Prune(held \cup stored)
    /\ worker' = [k \in Relay |-> NoWorker]
    /\ active' = [k \in Relay |-> Filter]
    /\ budget' = [k \in Relay |-> NoBudget]
    /\ chan' = <<>>
    /\ gen' = [k \in Relay |-> NoGen]
    /\ progress' = [k \in Relay |-> NoProgress]
    /\ caughtUp' = FALSE
    /\ UNCHANGED <<relays, cursor, handled, rerun, rejected, failed, anchor>>

\* The same restart, after a time that the daemon was down.
Restart ==
    /\ chan = <<>> /\ \A k \in Relay : worker[k] = NoWorker /\ progress[k] = NoProgress
    /\ Prune(held)
    /\ UNCHANGED <<relays, cursor, workers, chan, gen, progress, caughtUp, handled, rerun,
                   rejected, failed, anchor, faults>>

Work(k) ==
  /\ Len(chan) <= Capacity
  /\ \/ Connect(k) \/ Negentropy(k) \/ NegentropyUnavailable(k)
     \/ Page(k) \/ Widen(k) \/ Open(k)

Next ==
    \/ Tick
    \/ \E k \in Relay, e \in Event : Arrive(k, e)
    \/ \E k \in Relay : Work(k) \/ Drop(k) \/ Closed(k)
    \/ Consume
    \/ Crash \/ Restart

Spec ==
    /\ Init /\ [][Next]_vars
    /\ \A k \in Relay : WF_vars(Work(k))
    /\ WF_vars(Consume)

----------------------------------------------------------------------------
(* Properties. *)

\* How many events of its filter relay k holds that share e's second.
Sharing(k, e) ==
    Cardinality({d \in at[k] : FilterOf(d) = FilterOf(e) /\ created[d] = created[e]})

\* No gap below a cursor: a regular event a relay holds and the store never
\* got is still ahead of where the next resume from that relay starts, however
\* sessions break, pages overlap and crashes fall (resumeSince, commit and
\* observe).  Left out: what the loudly skipped seconds hold, what is older
\* than the first catch-up, and events whose delivery was rejected or failed.
NoGap ==
    \A k \in Relay : \A e \in at[k] \cap Regular :
        (/\ e \notin held \cup pruned \cup rejected \cup failed
         /\ anchor[k] # -1 /\ created[e] >= anchor[k]
         /\ Sharing(k, e) <= PageLimit)
        => created[e] >= ResumeSince(cursor[k], clock)

\* Handlers run once per event across overlap replay, copies from several
\* relays and restarts (handleEvent's store gate), unless retention removed
\* the event in between.
HandledOnce == rerun \subseteq pruned

\* Handlers never run twice for an event: "neither overlap replay, nor another
\* relay's copy, nor a restart re-runs side effects" (handleEvent).
HandlersRunOnce == rerun = {}

InFlight(k, e) == \E i \in DOMAIN chan : chan[i] = Deliver(k, e)
Broken(k) == Note("failed", k) \in ToSet(chan)

\* While a relay's status replay counts as proved complete, the only statuses
\* it holds and the store lacks are on their way to the consumer, or were
\* rejected as expired or dated in the future; the end of the session is on its way when
\* they are not (consume, updateLoomProof).
LoomProofSound ==
    \A k \in Relay : LoomProof(k) =>
        \/ Broken(k)
        \/ \A e \in at[k] \cap Status : e \in held \/ InFlight(k, e) \/ ~Valid(e) \/ e \in rejected

\* A page of statuses that share one second ends every paged session.
Unprovable(k) == \E d \in at[k] \cap Status : Sharing(k, d) >= PageLimit

Settled(k, e) ==
    \/ e \in held \cup pruned \cup rejected \cup failed
    \/ e \in Regular /\ created[e] < clock - Lookback
    \/ Sharing(k, e) > PageLimit \/ Unprovable(k)
    \/ FilterOf(e) \notin active[k]

\* Everything a relay holds reaches the store in the end, unless it is
\* rejected, fails to store, left the window of a fresh filter, or the relay
\* refused the filter for good: runRelay resyncs without limit, and what it
\* does on one filter does not starve the other.
EventuallyHeld == \A k \in Relay : []<>(\A e \in at[k] : Settled(k, e))

=============================================================================
