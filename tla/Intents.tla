------------------------------ MODULE Intents ------------------------------
(***************************************************************************)
(* The intent processor of internal/controlplane: how a signed intent from *)
(* the relays, a gift-wrapped one or an MCP write becomes a mutation of    *)
(* the registry, a marker that deduplicates it and a status event signed   *)
(* by the daemon.                                                          *)
(*                                                                         *)
(* Processors of different intent_ids share nothing, so the module follows *)
(* the requests that carry ONE intent_id: retries of the same request, the *)
(* same body asked for in another organisation or by another signed event, *)
(* and other bodies (another actor, operation, coordinate or content) that *)
(* reuse the id.  No lock is held between the look at the marker and its   *)
(* save, so the calls interleave at every step that reads or writes state  *)
(* or waits for a relay.                                                   *)
(***************************************************************************)
CONSTANTS
  Caller,     \* the goroutines that call the processor
  Path,       \* Path[c]: the way in, "relay", "wrapped" or "mcp"
  Request,    \* the requests that carry the intent_id
  Actor,      \* the principals that sign or make them
  ActorOf,    \* ActorOf[r]: the principal of request r
  Body,       \* actor, domain, operation, coordinate and content hash
  None        \* no marker, no request

ASSUME PathAssumption == Path \in [Caller -> {"relay", "wrapped", "mcp"}]
ASSUME ActorAssumption == ActorOf \in [Request -> Actor]
ASSUME NoneAssumption == None \notin Request

VARIABLES
  body,       \* body[r]: the body of r; requests of one body are told apart by
              \* their organisation and their signed event
  class,      \* class[r]: how the domain and operation of r are processed
  standing,   \* the trust set: what it knows of each principal
  call,       \* call[c]: where the goroutine is, for which request, its result
  marker,     \* the intent-processed marker's record in the local store
  applied,    \* the requests a domain handler has applied
  published,  \* the status events the relays have accepted: <<status, request>>
  woken       \* the requests whose effect AfterAccepted has unlocked

vars == <<body, class, standing, call, marker, applied, published, woken>>

-----------------------------------------------------------------------------
(* "plain": no strict replay; "evaluated": a computed policy decision;     *)
(* "strict": a replay is compared and accepted again; "virtual": strict,   *)
(* and its handler may leave the request pending; "admitted": LLM life     *)
(* cycle and tool requests, deduplicated by their handler's admission and  *)
(* not by the marker; "backup": a backup run, whose status belongs to the  *)
(* delivery reconciler.                                                    *)
Classes == {"plain", "evaluated", "strict", "virtual", "admitted", "backup"}

(* requiresStrictIntentReplay.                                             *)
Strict(r) == class[r] \in {"strict", "virtual", "admitted", "backup"}

(* The requests whose replay the marker decides.                           *)
Cached(r) == class[r] \notin {"admitted", "backup"}

(* Request q's record answers r as a replay: the bodies are equal, and for  *)
(* virtualization the organisation and the signed event as well.           *)
Replays(q, r) == IF class[r] = "virtual" THEN q = r ELSE body[q] = body[r]

\* mutant: a strict replay is recognised by its intent_id alone
Conflicts_Never(r) == FALSE

(* The comparison of a strict replay with the marker's record.             *)
Conflicts(r) == ~Replays(marker, r)

At(c, pc) == call[c].pc = pc
Req(c) == call[c].req
Known(r) == standing[ActorOf[r]] # "stranger"

Idle == [pc |-> "idle", req |-> None, ok |-> FALSE]
Goto(c, pc) == call' = [call EXCEPT ![c] = [pc |-> pc, req |-> Req(c), ok |-> FALSE]]
Return(c, ok) == call' = [call EXCEPT ![c] = [pc |-> "returned", req |-> Req(c), ok |-> ok]]

(* A refusal without a status: an error in process, silence on the relays. *)
Refuse(c) == Return(c, Path[c] # "mcp")

(* A status whose publication the caller does not check may be lost.       *)
Tell(status, r) == published' \in {published, published \cup {<<status, r>>}}

-----------------------------------------------------------------------------
(* ProcessRelayIntent through applyEvent, processVerifiedRumor or          *)
(* ProcessInProcess is called for r.  A relay event is in the local store  *)
(* by then and never comes back; its author may publish another.           *)
Submit(c, r) ==
  /\ At(c, "idle")
  /\ call' = [call EXCEPT ![c] = [pc |-> "entry", req |-> r, ok |-> FALSE]]
  /\ UNCHANGED <<class, body, standing, marker, applied, published, woken>>

(* Containment, a relay author outside the trust set, a malformed intent of *)
(* a stranger, a disabled domain, a domain without a handler, an invalid   *)
(* signed envelope.                                                        *)
Drop(c) ==
  /\ At(c, "entry")
  /\ Refuse(c)
  /\ UNCHANGED <<class, body, standing, marker, applied, published, woken>>

(* A malformed intent of a known principal, or a plaintext one for a       *)
(* domain that must be gift-wrapped.                                       *)
RejectMalformed(c) ==
  /\ At(c, "entry")
  /\ Known(Req(c)) \/ Path[c] = "mcp"
  /\ Tell("rejected", Req(c))
  /\ Return(c, FALSE)
  /\ UNCHANGED <<class, body, standing, marker, applied, woken>>

(* Step 1 of process: no marker, or one that does not decide this request. *)
Fresh(c) ==
  /\ At(c, "entry")
  /\ Path[c] = "relay" => Known(Req(c))
  /\ Cached(Req(c)) => marker = None
  /\ Goto(c, "authorize")
  /\ UNCHANGED <<class, body, standing, marker, applied, published, woken>>

(* A replay of a processed intent_id.                                      *)
Replayed(c) ==
  /\ At(c, "entry")
  /\ Path[c] = "relay" => Known(Req(c))
  /\ Cached(Req(c)) /\ marker # None

ReplayConflicts(c) ==
  /\ Replayed(c) /\ Strict(Req(c)) /\ Conflicts(Req(c))
  /\ Tell("conflict", Req(c))
  /\ Return(c, FALSE)
  /\ UNCHANGED <<class, body, standing, marker, applied, woken>>

ReplayAccepted(c) ==
  /\ Replayed(c) /\ Strict(Req(c)) /\ ~Conflicts(Req(c))
  /\ Goto(c, "republish")
  /\ UNCHANGED <<class, body, standing, marker, applied, published, woken>>

ReplaySkipped(c) ==
  /\ Replayed(c) /\ ~Strict(Req(c))
  /\ Return(c, TRUE)
  /\ UNCHANGED <<class, body, standing, marker, applied, published, woken>>

(* Step 3: the trust set decides.                                          *)
Authorize(c) ==
  /\ At(c, "authorize")
  /\ standing[ActorOf[Req(c)]] = "permitted"
  /\ Goto(c, "handle")
  /\ UNCHANGED <<class, body, standing, marker, applied, published, woken>>

(* A known principal without the permission; a self-authorizing handler    *)
(* answers a stranger too.                                                 *)
Unauthorized(c) ==
  /\ At(c, "authorize")
  /\ standing[ActorOf[Req(c)]] # "permitted"
  /\ Tell("rejected", Req(c))
  /\ Return(c, FALSE)
  /\ UNCHANGED <<class, body, standing, marker, applied, woken>>

Untrusted(c) ==
  /\ At(c, "authorize")
  /\ standing[ActorOf[Req(c)]] = "stranger"
  /\ Refuse(c)
  /\ UNCHANGED <<class, body, standing, marker, applied, published, woken>>

-----------------------------------------------------------------------------
\* mutant: an evaluation is marked complete before its result is published
Handle_MarksFirst(c) ==
  /\ At(c, "handle")
  /\ applied' = applied \cup {Req(c)}
  /\ marker' = IF class[Req(c)] = "evaluated" THEN Req(c) ELSE marker
  /\ Goto(c, IF class[Req(c)] = "evaluated" THEN "evaluate" ELSE "mark")
  /\ UNCHANGED <<class, body, standing, published, woken>>

(* Steps 4 and 5: the domain handler brings the entity to the state the    *)
(* intent asks for.                                                        *)
Handle(c) ==
  /\ At(c, "handle")
  /\ applied' = applied \cup {Req(c)}
  /\ Goto(c, IF class[Req(c)] = "evaluated" THEN "evaluate" ELSE "mark")
  /\ UNCHANGED <<class, body, standing, marker, published, woken>>

(* ErrVirtualizationPending and ErrBackupRunPending: the handler has the   *)
(* request, nothing is marked and no status is published.                  *)
Pending(c) ==
  /\ At(c, "handle")
  /\ \/ class[Req(c)] = "virtual" /\ Refuse(c)
     \/ class[Req(c)] = "backup" /\ Return(c, TRUE)
  /\ UNCHANGED <<class, body, standing, marker, applied, published, woken>>

(* The handler refuses.  A conflicting backup admission publishes nothing. *)
HandleFails(c) ==
  /\ At(c, "handle")
  /\ \E status \in {"rejected", "conflict"} : Tell(status, Req(c))
  /\ Return(c, FALSE)
  /\ UNCHANGED <<class, body, standing, marker, applied, woken>>

(* PublishAcceptedEvaluation, before the marker.                           *)
Evaluate(c) ==
  /\ At(c, "evaluate")
  /\ published' = published \cup {<<"accepted", Req(c)>>}
  /\ Goto(c, "mark")
  /\ UNCHANGED <<class, body, standing, marker, applied, woken>>

(* markProcessed.  The marker is an addressable event: it replaces an      *)
(* older one, one of the same second and a smaller id keeps its place, and *)
(* a failed save is only logged.                                           *)
Mark(c) ==
  /\ At(c, "mark")
  /\ marker' \in {marker, Req(c)}
  /\ CASE class[Req(c)] \in {"evaluated", "backup"} -> Return(c, TRUE)
       [] class[Req(c)] = "plain" -> Goto(c, "announce")
       [] OTHER -> Goto(c, "accept")
  /\ UNCHANGED <<class, body, standing, applied, published, woken>>

(* PublishAccepted, unchecked.                                             *)
Announce(c) ==
  /\ At(c, "announce")
  /\ Tell("accepted", Req(c))
  /\ Return(c, TRUE)
  /\ UNCHANGED <<class, body, standing, marker, applied, woken>>

(* PublishAcceptedChecked, after the handler or for a replay.              *)
Accept(c) ==
  /\ At(c, "accept") \/ At(c, "republish")
  /\ published' = published \cup {<<"accepted", Req(c)>>}
  /\ IF At(c, "accept") /\ class[Req(c)] = "admitted" THEN Goto(c, "wake") ELSE Return(c, TRUE)
  /\ UNCHANGED <<class, body, standing, marker, applied, woken>>

(* The evaluation's or the checked status's publication fails: the caller  *)
(* learns it.                                                              *)
PublishFails(c) ==
  /\ call[c].pc \in {"evaluate", "accept", "republish"}
  /\ Return(c, FALSE)
  /\ UNCHANGED <<class, body, standing, marker, applied, published, woken>>

(* AfterAccepted.                                                          *)
Wake(c) ==
  /\ At(c, "wake")
  /\ woken' = woken \cup {Req(c)}
  /\ Return(c, TRUE)
  /\ UNCHANGED <<class, body, standing, marker, applied, published>>

(* The caller has its answer.                                              *)
Answered(c) ==
  /\ At(c, "returned")
  /\ call' = [call EXCEPT ![c] = Idle]
  /\ UNCHANGED <<class, body, standing, marker, applied, published, woken>>

-----------------------------------------------------------------------------
(* The organisation's membership changes the trust set.                    *)
ChangeTrust(a, s) ==
  /\ standing' = [standing EXCEPT ![a] = s]
  /\ UNCHANGED <<class, body, call, marker, applied, published, woken>>

(* A restart: the calls in progress are gone, what is stored stays.        *)
Crash ==
  /\ call' = [c \in Caller |-> Idle]
  /\ UNCHANGED <<class, body, standing, marker, applied, published, woken>>

Standings == {"stranger", "known", "permitted"}

(* The domain and the operation, which are of the body, decide the class.  *)
Init ==
  /\ body \in {b \in [Request -> Body] :
                 \A q, r \in Request : b[q] = b[r] => ActorOf[q] = ActorOf[r]}
  /\ class \in {k \in [Request -> Classes] :
                  \A q, r \in Request : body[q] = body[r] => k[q] = k[r]}
  /\ standing = [a \in Actor |-> "permitted"]
  /\ call = [c \in Caller |-> Idle]
  /\ marker = None
  /\ applied = {} /\ published = {} /\ woken = {}

Step(c) ==
  \/ \E r \in Request : Submit(c, r)
  \/ Drop(c) \/ RejectMalformed(c) \/ Fresh(c)
  \/ ReplayConflicts(c) \/ ReplayAccepted(c) \/ ReplaySkipped(c)
  \/ Authorize(c) \/ Unauthorized(c) \/ Untrusted(c)
  \/ Handle(c) \/ Pending(c) \/ HandleFails(c)
  \/ Evaluate(c) \/ Mark(c) \/ Announce(c) \/ Accept(c) \/ PublishFails(c)
  \/ Wake(c) \/ Answered(c)

Next ==
  \/ \E c \in Caller : Step(c)
  \/ \E a \in Actor, s \in Standings : ChangeTrust(a, s)
  \/ Crash

Spec == Init /\ [][Next]_vars

-----------------------------------------------------------------------------
(* An accepted status is true: a domain handler has applied the request it *)
(* names, or one of the same body that this request replays (outside       *)
(* virtualization the organisation and the signed event are not compared), *)
(* whichever of the calls racing on the intent_id published it, after a    *)
(* lost marker and after a restart; and an effect that waits for acceptance is unlocked    *)
(* only behind a published accepted status (process, the strict replay of  *)
(* step 1 and AfterAccepted).                                              *)
AcceptedIsApplied ==
  /\ \A r \in Request : <<"accepted", r>> \in published => \E q \in applied : Replays(q, r)
  /\ \A r \in woken : <<"accepted", r>> \in published

(* Success in process means that the outcome is public.  A strict request  *)
(* that returns without an error has its accepted status on the relays,    *)
(* and an evaluation that returns without one was either skipped behind    *)
(* another request's marker or has a published result, also when an        *)
(* earlier attempt failed to publish or was cut off by a restart (process, *)
(* "its result must be published before deduplication marks it complete"). *)
SuccessIsPublished ==
  \A c \in Caller :
    At(c, "returned") /\ call[c].ok /\ Path[c] = "mcp" =>
      /\ class[Req(c)] \in {"strict", "virtual", "admitted"} => <<"accepted", Req(c)>> \in published
      /\ class[Req(c)] = "evaluated" =>
           \/ \E r \in Request : class[r] = "evaluated" /\ <<"accepted", r>> \in published
           \/ marker # None /\ class[marker] # "evaluated"
=============================================================================
