----------------------------- MODULE Admission -----------------------------
(***************************************************************************)
(* The process-wide outbound admission controller (internal/nostrout):     *)
(* nothing is sent to a relay before it is admitted here.                  *)
(*                                                                         *)
(* The controller runs under one mutex, so a call is one step, except      *)
(* where waitLocked gives the mutex up: a publication of an operation      *)
(* waits for bulk capacity, a signer request waits for its budgets, and an *)
(* operation waits in a queue.  Such a wait starts in one step and ends in *)
(* another.  BeforeAttempt reads nothing before it waits that it does not  *)
(* read again afterwards, so it is the one step in which it succeeds.      *)
(* Calls that are refused and change nothing are not steps.                *)
(*                                                                         *)
(* The clock is Tick.  The code refills a bucket when it looks at it; as   *)
(* refilling twice adds up to refilling once for both times, Tick refills  *)
(* every bucket.  Buckets count refill units, Token of which make a token. *)
(***************************************************************************)
EXTENDS Integers, Sequences, FiniteSets

CONSTANTS
  Relay, Event,      \* normalized relay identities, events
  Signed,            \* the events that have an id
  Publication,       \* handles: publications,
  Operation,         \* operations (each used once)
  Opaque,            \* and calls of AdmitOpaque
  PurposeForEvent,   \* the lane of each event
  Token,             \* refill units in one token
  Aggregate,         \* the budget of all lanes together
  Lane,              \* the budget of each lane
  Wire,              \* the budget of a relay for priority and other frames
  BreakerMin, BreakerMax,
  MaxActive,         \* MaxActivePublications
  MaxIdentities,     \* MaxRelayIdentities
  MaxQueued,         \* MaxQueuedOperations
  MaxEvents,         \* events every operation declares
  MaxOpaque,         \* MaxOpaqueWaiters
  DuplicateLimit,
  MaxLimits          \* bound on the environment: rate limit answers

Purpose == {"priority", "state", "general", "bulk", "signer"}
Class   == {"priority", "other"}
Budget  == [rate : Nat \ {0}, burst : Nat \ {0}]

ASSUME AdmissionAssumption ==
  /\ IsFiniteSet(Relay) /\ IsFiniteSet(Publication) /\ IsFiniteSet(Opaque)
  /\ Signed \subseteq Event
  /\ PurposeForEvent \in [Event -> Purpose]
  /\ Token \in Nat \ {0}
  /\ Aggregate \in Budget
  /\ Lane \in [Purpose -> Budget]
  /\ Wire \in [Class -> Budget]
  /\ BreakerMin \in Nat \ {0} /\ BreakerMax \in Nat /\ BreakerMax >= BreakerMin
  /\ MaxActive \in Nat \ {0} /\ MaxIdentities \in Nat \ {0}
  /\ MaxQueued \in Nat \ {0} /\ MaxEvents \in Nat \ {0}
  /\ MaxOpaque \in Nat \ {0} /\ DuplicateLimit \in Nat \ {0}
  /\ MaxLimits \in Nat

None == "none"
ASSUME NoneAssumption == None \notin Publication \cup Operation \cup Event

VARIABLES
  killed,         \* the kill switch, its file or its runtime fence
  breaker,        \* circuit breaker: time to wait, backoff delay, generation
  aggregate,      \* tokens of the aggregate bucket
  lanes,          \* tokens of each lane
  known,          \* the relay identities that have a bucket,
  wire,           \* its tokens
  refs,           \* and how many publications and waiters refer to it
  inflight,       \* event and relay pairs being sent
  active,         \* number of registered publications
  receipts,       \* event and relay pairs accepted lately, oldest first
  pub,            \* the publications
  flight,         \* relays a publication sent to and has no result from
  ops,            \* the operations and the calls that began them
  operation,      \* the active operation
  queue,          \* the operations waiting to become active
  opaque,         \* the opaque calls
  opaqueWaiters,  \* number of opaque calls waiting
  allowance,      \* history: the bucket a relay would keep of what it receives
  fresh           \* history: publications admitted since the last rate limit

gates      == <<killed, breaker>>
budgets    == <<aggregate, lanes>>
registry   == <<known, wire, refs>>
keys       == <<inflight, active>>
pubs       == <<pub, flight>>
operations == <<ops, operation, queue>>
opaques    == <<opaque, opaqueWaiters>>
history    == <<allowance, fresh>>
vars == <<gates, budgets, registry, keys, receipts, pubs, operations, opaques,
          history>>

-----------------------------------------------------------------------------
(* Records.                                                                *)

(* closed: closed while results were still to come.  A publication without *)
(* a handle is idle, and so is one that was closed and has all results.    *)
PublicationRecord ==
  [state : {"idle", "pacing", "open", "closed"}, op : Operation \cup {None},
   event : Event \cup {None}, relays : SUBSET Relay, generation : Nat]

NoPublication == [state |-> "idle", op |-> None, event |-> None,
                  relays |-> {}, generation |-> 0]

(* caller is where the call of BeginOperation is: waiting in its select,   *)
(* leaving it by timeout or cancellation, closing an operation that was    *)
(* activated meanwhile, holding the operation, or gone.                    *)
OperationRecord ==
  [caller : {"idle", "waiting", "leaving", "closing", "holding", "gone"},
   activated : BOOLEAN, closed : BOOLEAN, expired : BOOLEAN, busy : BOOLEAN,
   outstanding : Publication \cup {None}, used : Nat]

NewOperation == [caller |-> "idle", activated |-> FALSE, closed |-> FALSE,
                 expired |-> FALSE, busy |-> FALSE, outstanding |-> None,
                 used |-> 0]

NotWaiting == [waiting |-> FALSE, relays |-> {}]

FullWire == [c \in Class |-> Wire[c].burst]

Init ==
  /\ killed = FALSE
  /\ breaker = [wait |-> 0, delay |-> 0, generation |-> 0]
  /\ aggregate = Aggregate.burst
  /\ lanes = [l \in Purpose |-> Lane[l].burst]
  /\ known = {}
  /\ wire = [r \in Relay |-> FullWire]
  /\ refs = [r \in Relay |-> 0]
  /\ inflight = {}
  /\ active = 0
  /\ receipts = <<>>
  /\ pub = [p \in Publication |-> NoPublication]
  /\ flight = [p \in Publication |-> {}]
  /\ ops = [o \in Operation |-> NewOperation]
  /\ operation = None
  /\ queue = <<>>
  /\ opaque = [w \in Opaque |-> NotWaiting]
  /\ opaqueWaiters = 0
  /\ allowance = [r \in Relay |-> FullWire]
  /\ fresh = {}

-----------------------------------------------------------------------------
(* Sequences and buckets.                                                  *)

(* A sequence without the x it has at most once.                           *)
Without(s, x) ==
  IF \E i \in DOMAIN s : s[i] = x
  THEN LET i == CHOOSE i \in DOMAIN s : s[i] = x
       IN SubSeq(s, 1, i - 1) \o SubSeq(s, i + 1, Len(s))
  ELSE s

Least(a, b)    == IF a <= b THEN a ELSE b
Greatest(a, b) == IF a >= b THEN a ELSE b

ClassOf(purpose) == IF purpose = "priority" THEN "priority" ELSE "other"

Refill(tokens, budget) == Least(budget.burst, tokens + budget.rate)

LaneReady_AggregateOnly(purpose) == aggregate >= Token    \* mutant: the lane is not looked at

LaneReady(purpose) == aggregate >= Token /\ lanes[purpose] >= Token

SpendLane_Unlaned(purpose) ==    \* mutant: a lane charged to the aggregate only
  /\ aggregate' = aggregate - Token
  /\ UNCHANGED lanes

SpendLane(purpose) ==
  /\ aggregate' = aggregate - Token
  /\ lanes' = [lanes EXCEPT ![purpose] = @ - Token]

(* The buckets w of the relays after one frame of class c to each of R.    *)
Charged(w, R, c) ==
  [r \in Relay |-> IF r \in R THEN [w[r] EXCEPT ![c] = @ - Token] ELSE w[r]]

-----------------------------------------------------------------------------
(* The registry of relay identities.                                       *)

Evictable_Idle(r) == refs[r] = 0    \* mutant: a bucket is dropped before it is full

Evictable_Full(r) == \A c \in Class : wire[r][c] >= Wire[c].burst    \* mutant: a referenced bucket is dropped

Evictable(r) == refs[r] = 0 /\ \A c \in Class : wire[r][c] >= Wire[c].burst

(* The identities known once every relay of R has been looked up in turn.  *)
(* A new identity finds a full registry only if an evictable one makes     *)
(* room; which one is the map's choice.  One of R that was evicted before  *)
(* its turn came is made anew, as full as it was.                          *)
Registries(R) ==
  {K \in SUBSET (known \cup R) :
     /\ R \subseteq K
     /\ Cardinality(K) = Least(Cardinality(known \cup R), MaxIdentities)
     /\ \A r \in known \ K : Evictable(r)}

(* The buckets when the known identities become K: new ones are full.      *)
WireIn(K) == [r \in Relay |-> IF r \in K \ known THEN FullWire ELSE wire[r]]

Held(R) == [r \in Relay |-> IF r \in R THEN refs[r] + 1 ELSE refs[r]]

Released_Nothing(held, R) == held    \* mutant: a failed lookup keeps the references

(* The references in held without those taken to the relays R.             *)
Released(held, R) == [r \in Relay |-> IF r \in R THEN held[r] - 1 ELSE held[r]]

(* The lookups of R fail: those of P succeeded and took a reference each,  *)
(* another one finds the registry full and nothing to evict.  References   *)
(* are given back, the changes to the registry stay.                       *)
RegistryFull(R) ==
  \E P \in SUBSET R : \E K \in Registries(P) :
    /\ ~(R \subseteq K)
    /\ Cardinality(K) = MaxIdentities
    /\ \A r \in K \ P : ~Evictable(r)
    /\ known' = K
    /\ wire' = WireIn(K)
    /\ refs' = Released(Held(P), P)

(* The lookups of R succeed and their references are given back at once.   *)
LookedUp(R) ==
  /\ \E K \in Registries(R) : known' = K /\ wire' = WireIn(K)
  /\ refs' = Released(Held(R), R)

-----------------------------------------------------------------------------
(* The circuit breaker.                                                    *)

(* A rate limit answer: a new generation and a longer backoff, with up to  *)
(* a fifth of jitter; an open circuit never closes earlier for it.         *)
OpenBreaker ==
  LET delay == IF breaker.delay < BreakerMin THEN BreakerMin
               ELSE Least(2 * breaker.delay, BreakerMax)
  IN /\ breaker.generation < MaxLimits
     /\ \E jitter \in 0 .. (delay \div 5) :
          breaker' = [wait |-> Greatest(breaker.wait, delay + jitter),
                      delay |-> delay, generation |-> breaker.generation + 1]
     /\ fresh' = {}

CloseBreaker_AnyGeneration(generation) ==    \* mutant: a late success resets the backoff
  breaker' = IF breaker.wait = 0 THEN [breaker EXCEPT !.delay = 0] ELSE breaker

(* A success resets the backoff if its publication was admitted in the     *)
(* current generation and the cooldown is over.                            *)
CloseBreaker(generation) ==
  breaker' = IF generation = breaker.generation /\ breaker.wait = 0
             THEN [breaker EXCEPT !.delay = 0] ELSE breaker

ReportRateLimited ==
  /\ OpenBreaker
  /\ UNCHANGED <<killed, budgets, registry, keys, receipts, pubs, operations,
                 opaques, allowance>>

-----------------------------------------------------------------------------
(* Ordinary publications.                                                  *)

Keys(event, R) == IF event \in Signed THEN {event} \X R ELSE {}

Accepted == {receipts[i] : i \in DOMAIN receipts}

(* The relays of R that have no receipt for the event.                     *)
Pending(event, R) == {r \in R : Keys(event, {r}) \cap Accepted = {}}

Registrable_AnyCopy(event, R) ==    \* mutant: a copy in flight is not looked for
  /\ R # {}
  /\ active < MaxActive

Registrable(event, R) ==
  /\ R # {}
  /\ Keys(event, R) \cap inflight = {}
  /\ active < MaxActive

(* The publication takes its slot, its keys and a reference to each relay. *)
Register(event, R) ==
  /\ \E K \in Registries(R) : known' = K /\ wire' = WireIn(K)
  /\ refs' = Held(R)
  /\ inflight' = inflight \cup Keys(event, R)
  /\ active' = active + 1

Unregister(p) ==
  /\ refs' = [r \in Relay |->
                IF r \in pub[p].relays \cap known /\ refs[r] > 0
                THEN refs[r] - 1 ELSE refs[r]]
  /\ inflight' = inflight \ Keys(pub[p].event, pub[p].relays)
  /\ active' = active - 1

Admitted(op, event, R) ==
  [state |-> "open", op |-> op, event |-> event, relays |-> R,
   generation |-> breaker.generation]

(* Begin refuses at once whatever it cannot admit.                         *)
Begin(p, event, R) ==
  LET need == Pending(event, R)
      lane == PurposeForEvent[event]
  IN /\ ~killed /\ breaker.wait = 0
     /\ pub[p].state = "idle"
     /\ Registrable(event, need)
     /\ LaneReady(lane)
     /\ Register(event, need)
     /\ SpendLane(lane)
     /\ pub' = [pub EXCEPT ![p] = Admitted(None, event, need)]
     /\ fresh' = fresh \cup {p}
     /\ UNCHANGED <<gates, receipts, flight, operations, opaques, allowance>>

(* Refused for want of identities or of lane tokens: registered and rolled *)
(* back, which leaves the identities it made.                              *)
BeginRefused(event, R) ==
  LET need == Pending(event, R)
  IN /\ ~killed /\ breaker.wait = 0
     /\ Registrable(event, need)
     /\ \/ RegistryFull(need)
        \/ ~LaneReady(PurposeForEvent[event]) /\ LookedUp(need)
     /\ UNCHANGED <<gates, budgets, keys, receipts, pubs, operations, opaques,
                    history>>

Purposed(p) == IF pub[p].op = None THEN PurposeForEvent[pub[p].event] ELSE "bulk"

(* One frame to relay r, first or after an AUTH.  The publication of an    *)
(* operation waits for what an ordinary one is refused for.                *)
BeforeAttempt(p, r) ==
  LET class == ClassOf(Purposed(p))
      op    == pub[p].op
  IN /\ pub[p].state = "open" /\ r \in pub[p].relays
     /\ op # None => ~ops[op].closed /\ ~ops[op].expired
     /\ ~killed /\ breaker.wait = 0
     /\ wire[r][class] >= Token
     /\ wire' = Charged(wire, {r}, class)
     /\ allowance' = Charged(allowance, {r}, class)
     /\ flight' = [flight EXCEPT ![p] = @ \cup {r}]
     /\ UNCHANGED <<gates, budgets, known, refs, keys, receipts, pub,
                    operations, opaques, fresh>>

(* The receipt list after key was accepted: refreshed or added at the back *)
(* and cut to its limit.                                                   *)
StoreReceipt(key) ==
  LET longer == Append(Without(receipts, key), key)
  IN IF Len(longer) > DuplicateLimit THEN Tail(longer) ELSE longer

(* What is left of a publication when its outstanding results are R.       *)
Kept(record, R) ==
  IF record.state = "closed" /\ R = {} THEN NoPublication ELSE record

(* A result of relay r, possibly after the publication was closed.         *)
Observe(p, r) ==
  /\ r \in flight[p]
  /\ flight' = [flight EXCEPT ![p] = @ \ {r}]
  /\ pub' = [pub EXCEPT ![p] = Kept(@, flight[p] \ {r})]
  /\ \/ OpenBreaker /\ UNCHANGED receipts                    \* rate limited
     \/ /\ receipts' = IF pub[p].event \in Signed            \* succeeded
                       THEN StoreReceipt(<<pub[p].event, r>>) ELSE receipts
        /\ CloseBreaker(pub[p].generation)
        /\ UNCHANGED fresh
     \/ UNCHANGED <<receipts, breaker, fresh>>               \* failed
  /\ UNCHANGED <<killed, budgets, registry, keys, operations, opaques,
                 allowance>>

Close(p) ==
  LET op == pub[p].op
  IN /\ pub[p].state = "open"
     /\ Unregister(p)
     /\ pub' = [pub EXCEPT ![p] = Kept([@ EXCEPT !.state = "closed"], flight[p])]
     /\ ops' = IF op # None /\ ops[op].outstanding = p
               THEN [ops EXCEPT ![op].outstanding = None] ELSE ops
     /\ UNCHANGED <<gates, budgets, known, wire, receipts, flight, operation,
                    queue, opaques, history>>

-----------------------------------------------------------------------------
(* Operations: a slot, a queue for it, and paced publications.             *)

Activated(o, caller) == [ops[o] EXCEPT !.activated = TRUE, !.caller = caller]

(* The slot if it is free and nobody waits, else a place in the queue.     *)
BeginOperation(o) ==
  /\ ~killed
  /\ ops[o].caller = "idle"
  /\ \/ /\ operation = None /\ queue = <<>>
        /\ operation' = o
        /\ ops' = [ops EXCEPT ![o] = Activated(o, "holding")]
        /\ UNCHANGED queue
     \/ /\ operation # None \/ queue # <<>>
        /\ Len(queue) < MaxQueued
        /\ queue' = Append(queue, o)
        /\ ops' = [ops EXCEPT ![o].caller = "waiting"]
        /\ UNCHANGED operation
  /\ UNCHANGED <<gates, budgets, registry, keys, receipts, pubs, opaques,
                 history>>

(* The waiting call's select takes one of its ready branches: the slot, or *)
(* its timer or cancellation, even when both are ready.                    *)
OperationReady(o) ==
  /\ ops[o].caller = "waiting" /\ ops[o].activated
  /\ ops' = [ops EXCEPT ![o].caller = "holding"]
  /\ UNCHANGED <<gates, budgets, registry, keys, receipts, pubs, operation,
                 queue, opaques, history>>

LeaveQueue(o) ==
  /\ ops[o].caller = "waiting"
  /\ ops' = [ops EXCEPT ![o].caller = "leaving"]
  /\ UNCHANGED <<gates, budgets, registry, keys, receipts, pubs, operation,
                 queue, opaques, history>>

AbandonOperationWaiter_Forgets(o) ==    \* mutant: an activated waiter just returns
  /\ ops[o].caller = "leaving"
  /\ queue' = Without(queue, o)
  /\ ops' = [ops EXCEPT ![o].caller = "gone"]
  /\ UNCHANGED <<gates, budgets, registry, keys, receipts, pubs, operation,
                 opaques, history>>

AbandonOperationWaiter_HoldsLock(o) ==    \* mutant: Close waits for the mutex its caller holds
  /\ ops[o].caller = "leaving" /\ ~ops[o].activated
  /\ queue' = Without(queue, o)
  /\ ops' = [ops EXCEPT ![o].caller = "gone"]
  /\ UNCHANGED <<gates, budgets, registry, keys, receipts, pubs, operation,
                 opaques, history>>

AbandonOperationWaiter(o) ==
  /\ ops[o].caller = "leaving"
  /\ \/ /\ ops[o].activated
        /\ ops' = [ops EXCEPT ![o].caller = "closing"]
        /\ UNCHANGED queue
     \/ /\ ~ops[o].activated
        /\ queue' = Without(queue, o)
        /\ ops' = [ops EXCEPT ![o].caller = "gone"]
  /\ UNCHANGED <<gates, budgets, registry, keys, receipts, pubs, operation,
                 opaques, history>>

(* Close frees the slot and hands it to the head of the queue.             *)
CloseOperation(o) ==
  LET closed == [ops EXCEPT ![o] = [ops[o] EXCEPT !.closed = TRUE, !.caller = "gone"]]
  IN /\ ops[o].caller \in {"holding", "closing"}
     /\ IF operation = o /\ queue # <<>>
        THEN /\ operation' = Head(queue)
             /\ queue' = Tail(queue)
             /\ ops' = [closed EXCEPT ![Head(queue)].activated = TRUE]
        ELSE /\ operation' = IF operation = o THEN None ELSE operation
             /\ ops' = closed
             /\ UNCHANGED queue
     /\ UNCHANGED <<gates, budgets, registry, keys, receipts, pubs, opaques,
                    history>>

Claimable_Overlapping(o) ==    \* mutant: a publication may start beside a waiting one
  /\ ops[o].caller = "holding" /\ ~ops[o].closed /\ operation = o
  /\ ops[o].outstanding = None
  /\ ops[o].used < MaxEvents

(* The operation may start a publication.                                  *)
Claimable(o) ==
  /\ ops[o].caller = "holding" /\ ~ops[o].closed /\ operation = o
  /\ ~ops[o].busy /\ ops[o].outstanding = None
  /\ ops[o].used < MaxEvents

(* The operation once its claim led to publication p, or to none if every  *)
(* relay had a receipt.                                                    *)
FinishClaim(o, p) == [ops[o] EXCEPT !.busy = FALSE, !.used = ops[o].used + 1,
                                    !.outstanding = p]

OperationLive(o) == ~killed /\ ~ops[o].expired /\ ~ops[o].closed

BulkReady == breaker.wait = 0 /\ LaneReady("bulk")

(* Operation.Begin: everything is reserved before the wait for the bulk    *)
(* lane.  An event that every relay has a receipt for counts and ends.     *)
OperationBegin(o, p, event, R) ==
  LET need == Pending(event, R)
  IN /\ Claimable(o) /\ OperationLive(o)
     /\ pub[p].state = "idle"
     /\ Registrable(event, need)
     /\ Register(event, need)
     /\ IF BulkReady
        THEN /\ SpendLane("bulk")
             /\ pub' = [pub EXCEPT ![p] = Admitted(o, event, need)]
             /\ ops' = [ops EXCEPT ![o] = FinishClaim(o, p)]
             /\ fresh' = fresh \cup {p}
        ELSE /\ pub' = [pub EXCEPT ![p] =
                          [Admitted(o, event, need) EXCEPT !.state = "pacing",
                                                           !.generation = 0]]
             /\ ops' = [ops EXCEPT ![o].busy = TRUE]
             /\ UNCHANGED <<budgets, fresh>>
     /\ UNCHANGED <<gates, receipts, flight, operation, queue, opaques,
                    allowance>>

(* Nothing to publish, or no room for the relays, or cancelled before the  *)
(* wait began.                                                             *)
OperationBeginDone(o, event, R) ==
  LET need == Pending(event, R)
  IN /\ Claimable(o) /\ OperationLive(o)
     /\ \/ /\ need = {}
           /\ ops' = [ops EXCEPT ![o] = FinishClaim(o, None)]
           /\ UNCHANGED registry
        \/ /\ Registrable(event, need)
           /\ RegistryFull(need) \/ LookedUp(need)
           /\ UNCHANGED ops
     /\ UNCHANGED <<gates, budgets, keys, receipts, pubs, operation, queue,
                    opaques, history>>

(* The wait ends: admitted, in the generation of this moment.              *)
PacedAdmitted(p) ==
  LET o == pub[p].op
  IN /\ pub[p].state = "pacing"
     /\ OperationLive(o) /\ BulkReady
     /\ SpendLane("bulk")
     /\ pub' = [pub EXCEPT ![p] = [pub[p] EXCEPT !.state = "open",
                                                  !.generation = breaker.generation]]
     /\ ops' = [ops EXCEPT ![o] = FinishClaim(o, p)]
     /\ fresh' = fresh \cup {p}
     /\ UNCHANGED <<gates, registry, keys, receipts, flight, operation, queue,
                    opaques, allowance>>

(* Or refused: cancelled, expired, killed, or the operation was closed.    *)
PacedRefused(p) ==
  LET o == pub[p].op
  IN /\ pub[p].state = "pacing"
     /\ Unregister(p)
     /\ pub' = [pub EXCEPT ![p] = NoPublication]
     /\ ops' = [ops EXCEPT ![o].busy = FALSE]
     /\ UNCHANGED <<gates, budgets, known, wire, receipts, flight, operation,
                    queue, opaques, history>>

-----------------------------------------------------------------------------
(* AUTH frames and remote-signer requests.                                 *)

(* One AUTH frame, on the priority lane and the relay's priority share;    *)
(* refused, it leaves the identity it made.                                *)
AdmitAuth(r) ==
  /\ ~killed /\ breaker.wait = 0
  /\ \E K \in Registries({r}) :
       LET new == WireIn(K)
       IN /\ known' = K
          /\ IF LaneReady("priority") /\ new[r]["priority"] >= Token
             THEN /\ SpendLane("priority")
                  /\ wire' = Charged(new, {r}, "priority")
                  /\ allowance' = Charged(allowance, {r}, "priority")
             ELSE /\ wire' = new
                  /\ UNCHANGED <<budgets, allowance>>
  /\ UNCHANGED <<gates, refs, keys, receipts, pubs, operations, opaques, fresh>>

(* The one purpose AdmitOpaque is called with.                             *)
OpaquePurpose == "signer"

(* All budgets of an opaque request to the relays R, whose buckets are w.  *)
OpaqueReady(w, R) ==
  /\ breaker.wait = 0
  /\ LaneReady(OpaquePurpose)
  /\ \A r \in R : w[r][ClassOf(OpaquePurpose)] >= Token

AdmitOpaque(c, R) ==
  /\ ~killed
  /\ ~opaque[c].waiting
  /\ opaqueWaiters < MaxOpaque
  /\ \E K \in Registries(R) :
       LET new == WireIn(K)
       IN /\ known' = K
          /\ IF OpaqueReady(new, R)
             THEN /\ SpendLane(OpaquePurpose)
                  /\ wire' = Charged(new, R, ClassOf(OpaquePurpose))
                  /\ allowance' = Charged(allowance, R, ClassOf(OpaquePurpose))
                  /\ UNCHANGED <<refs, opaques>>
             ELSE /\ wire' = new
                  /\ refs' = Held(R)
                  /\ opaque' = [opaque EXCEPT ![c] = [waiting |-> TRUE, relays |-> R]]
                  /\ opaqueWaiters' = opaqueWaiters + 1
                  /\ UNCHANGED <<budgets, allowance>>
  /\ UNCHANGED <<gates, keys, receipts, pubs, operations, fresh>>

(* No room for the relays, or cancelled before the wait began.             *)
OpaqueRefused(R) ==
  /\ ~killed
  /\ opaqueWaiters < MaxOpaque
  /\ RegistryFull(R) \/ LookedUp(R)
  /\ UNCHANGED <<gates, budgets, keys, receipts, pubs, operations, opaques,
                 history>>

EndOpaque(c) ==
  /\ refs' = Released(refs, opaque[c].relays)
  /\ opaque' = [opaque EXCEPT ![c] = NotWaiting]
  /\ opaqueWaiters' = opaqueWaiters - 1

OpaqueAdmitted(c) ==
  LET R == opaque[c].relays
  IN /\ opaque[c].waiting
     /\ ~killed
     /\ OpaqueReady(wire, R)
     /\ SpendLane(OpaquePurpose)
     /\ wire' = Charged(wire, R, ClassOf(OpaquePurpose))
     /\ allowance' = Charged(allowance, R, ClassOf(OpaquePurpose))
     /\ EndOpaque(c)
     /\ UNCHANGED <<gates, known, keys, receipts, pubs, operations, fresh>>

(* Cancelled, timed out, or killed.                                        *)
OpaqueGivesUp(c) ==
  /\ opaque[c].waiting
  /\ EndOpaque(c)
  /\ UNCHANGED <<gates, budgets, known, wire, keys, receipts, pubs, operations,
                 history>>

-----------------------------------------------------------------------------
(* The operator and the clock.                                             *)

KillSwitch ==
  /\ killed' = ~killed
  /\ UNCHANGED <<breaker, budgets, registry, keys, receipts, pubs, operations,
                 opaques, history>>

Refilled(w) == [r \in Relay |-> [c \in Class |-> Refill(w[r][c], Wire[c])]]

Tick ==
  /\ aggregate' = Refill(aggregate, Aggregate)
  /\ lanes' = [l \in Purpose |-> Refill(lanes[l], Lane[l])]
  /\ wire' = Refilled(wire)
  /\ allowance' = Refilled(allowance)
  /\ breaker' = [breaker EXCEPT !.wait = IF @ > 0 THEN @ - 1 ELSE 0]
  /\ UNCHANGED <<killed, known, refs, keys, receipts, pubs, operations,
                 opaques, fresh>>

(* The oldest receipt outlives DuplicateTTL.                               *)
PruneReceipts ==
  /\ receipts # <<>>
  /\ receipts' = Tail(receipts)
  /\ UNCHANGED <<gates, budgets, registry, keys, pubs, operations, opaques,
                 history>>

(* The deadline that activation gave the operation passes.                 *)
OperationExpires(o) ==
  /\ ops[o].activated /\ ~ops[o].closed /\ ~ops[o].expired
  /\ ops' = [ops EXCEPT ![o].expired = TRUE]
  /\ UNCHANGED <<gates, budgets, registry, keys, receipts, pubs, operation,
                 queue, opaques, history>>

Next ==
  \/ \E event \in Event, R \in SUBSET Relay \ {{}} :
       \/ \E p \in Publication : Begin(p, event, R) \/ BeginRefused(event, R)
       \/ \E o \in Operation :
            \/ \E p \in Publication : OperationBegin(o, p, event, R)
            \/ OperationBeginDone(o, event, R)
  \/ \E p \in Publication :
       \/ \E r \in Relay : BeforeAttempt(p, r) \/ Observe(p, r)
       \/ Close(p) \/ PacedAdmitted(p) \/ PacedRefused(p)
  \/ \E o \in Operation :
       \/ BeginOperation(o) \/ OperationReady(o) \/ LeaveQueue(o)
       \/ AbandonOperationWaiter(o) \/ CloseOperation(o) \/ OperationExpires(o)
  \/ \E r \in Relay : AdmitAuth(r)
  \/ \E c \in Opaque :
       \/ \E R \in SUBSET Relay \ {{}} : AdmitOpaque(c, R) \/ OpaqueRefused(R)
       \/ OpaqueAdmitted(c) \/ OpaqueGivesUp(c)
  \/ ReportRateLimited \/ KillSwitch \/ Tick \/ PruneReceipts

Spec == Init /\ [][Next]_vars

(* Callers close the operations they were given, as BeginOperation asks,   *)
(* and a call whose select has a ready branch goes on.  Nothing is assumed *)
(* of timers and cancellations.                                            *)
FairSpec ==
  /\ Spec
  /\ \A o \in Operation :
       /\ WF_vars(OperationReady(o))
       /\ WF_vars(AbandonOperationWaiter(o))
       /\ WF_vars(CloseOperation(o))

-----------------------------------------------------------------------------
(* Properties.                                                             *)

Registered == {p \in Publication : pub[p].state \in {"pacing", "open"}}
Waiting    == {c \in Opaque : opaque[c].waiting}

UsersOf(r) == {p \in Registered : r \in pub[p].relays}
WaitersOf(r) == {c \in Waiting : r \in opaque[c].relays}

GateTypes ==
  /\ killed \in BOOLEAN
  /\ breaker \in [wait : Nat, delay : Nat, generation : Nat]

BudgetTypes ==
  /\ aggregate \in 0 .. Aggregate.burst
  /\ lanes \in [Purpose -> Nat]
  /\ \A l \in Purpose : lanes[l] <= Lane[l].burst

WireType(w) ==
  /\ w \in [Relay -> [Class -> Nat]]
  /\ \A r \in Relay, c \in Class : w[r][c] <= Wire[c].burst

RegistryTypes ==
  /\ known \subseteq Relay /\ Cardinality(known) <= MaxIdentities
  /\ WireType(wire)
  /\ refs \in [Relay -> Int]

KeyTypes ==
  /\ inflight \subseteq Event \X Relay
  /\ active \in Int /\ active <= MaxActive

PublicationTypes ==
  /\ pub \in [Publication -> PublicationRecord]
  /\ flight \in [Publication -> SUBSET Relay]

OperationTypes ==
  /\ ops \in [Operation -> OperationRecord]
  /\ operation \in Operation \cup {None}
  /\ queue \in Seq(Operation)

OpaqueTypes ==
  /\ opaque \in [Opaque -> [waiting : BOOLEAN, relays : SUBSET Relay]]
  /\ opaqueWaiters \in Int /\ opaqueWaiters <= MaxOpaque

HistoryTypes ==
  /\ allowance \in [Relay -> [Class -> Int]]
  /\ fresh \subseteq Publication

(* Types of the controller's state and the bounds of its structures: the   *)
(* buckets, the registry, the publications and the waiters.                *)
TypeOK ==
  /\ GateTypes /\ BudgetTypes /\ RegistryTypes /\ KeyTypes
  /\ receipts \in Seq(Event \X Relay)
  /\ PublicationTypes /\ OperationTypes /\ OpaqueTypes /\ HistoryTypes

(* Every refusal, close and give-up hands back exactly what was taken: the *)
(* slots, the references and the keys the controller counts are those of   *)
(* the publications and the opaque calls that are still under way, so      *)
(* capacity is never lost for good.                                        *)
NothingLeaked ==
  /\ active = Cardinality(Registered)
  /\ opaqueWaiters = Cardinality(Waiting)
  /\ \A r \in Relay : refs[r] = Cardinality(UsersOf(r)) + Cardinality(WaitersOf(r))
  /\ inflight = UNION {Keys(pub[p].event, pub[p].relays) : p \in Registered}

(* BeforeAttempt dereferences the relay's bucket without looking: a relay  *)
(* that a registered publication or a waiting opaque call refers to is     *)
(* never evicted.                                                          *)
HeldIdentitiesKnown ==
  /\ \A p \in Registered : pub[p].relays \subseteq known
  /\ \A c \in Waiting : opaque[c].relays \subseteq known

(* The same signed event is never under way to the same relay twice at a   *)
(* time, even when one of the two waits for the bulk lane.                 *)
NoConcurrentCopy ==
  \A p, q \in Registered :
    p # q => Keys(pub[p].event, pub[p].relays) \cap Keys(pub[q].event, pub[q].relays) = {}

(* A relay that keeps a bucket of the configured budget for what it        *)
(* receives never finds it empty, however often its identity is evicted    *)
(* and made anew: "recreating one can never restore burst capacity early". *)
WireBudget == \A r \in Relay, c \in Class : allowance[r][c] >= 0

(* The aggregate is the sum of the lanes, as when it is not configured.    *)
AggregateIsSum ==
  /\ Aggregate.burst = Lane["priority"].burst + Lane["state"].burst
       + Lane["general"].burst + Lane["bulk"].burst + Lane["signer"].burst
  /\ Aggregate.rate = Lane["priority"].rate + Lane["state"].rate
       + Lane["general"].rate + Lane["bulk"].rate + Lane["signer"].rate

LaneSum == lanes["priority"] + lanes["state"] + lanes["general"]
             + lanes["bulk"] + lanes["signer"]

(* Lanes partition the aggregate: whatever the other lanes spent and       *)
(* whenever the buckets filled up, the aggregate still covers all tokens   *)
(* left in the lanes, so churn in one never takes the capacity reserved    *)
(* for another.                                                            *)
LanesReserved == AggregateIsSum => LaneSum <= aggregate

(* The backoff is reset only by an answer to a publication that was        *)
(* admitted after the last rate limit: a late success never clears a       *)
(* newer circuit.                                                          *)
BackoffKept ==
  [][ (breaker.delay > 0 /\ breaker'.delay = 0)
        => \E p \in fresh : flight'[p] # flight[p] ]_vars

(* The operation slot always has someone who will release it, and nobody   *)
(* waits for a slot that is free: also when an activation meets the        *)
(* timeout of the waiter it activates.                                     *)
SlotOwned ==
  /\ operation # None => ops[operation].caller \in {"waiting", "leaving", "closing", "holding"}
  /\ queue # <<>> => operation # None
  /\ \A o \in Operation :
       ops[o].caller \in {"holding", "closing"} => operation = o

(* An operation has at most one publication under way and never starts     *)
(* more than it declared, also when it is closed during a wait.            *)
OneOutstanding ==
  /\ \A p, q \in Registered :
       pub[p].op = pub[q].op => p = q \/ pub[p].op = None
  /\ \A o \in Operation : ops[o].used <= MaxEvents

(* Every queued operation gets the slot or gives up, also if its own timer *)
(* never fires.                                                            *)
QueuedServed ==
  \A o \in Operation :
    ops[o].caller = "waiting" ~> ops[o].caller \in {"holding", "gone"}

=============================================================================
