---------------------------- MODULE Provisioning ----------------------------
(***************************************************************************)
(* Governed provisioning of one agent (internal/soulfactory and            *)
(* internal/soulfactory/saga): the saga engine, its production port, the   *)
(* adapter ledger, operator commands, delivery of the success result and   *)
(* the retention pass.  Several requests name the same agent id, each with *)
(* a spec of its own.                                                      *)
(*                                                                         *)
(* A request's workflow runs under its lock (lockRequest); pc[r] is where  *)
(* the holder stands and "idle" means that the lock is free.  Each step    *)
(* reads what the code reads and makes one durable write or one external   *)
(* effect.  While the lock is held the engine's copy of the run equals the *)
(* stored one: an operation whose save fails returns at once and drops its *)
(* copy.  The compare-and-swap on versions therefore never fails under the *)
(* lock, and versions are left out.  A step has one resource.              *)
(***************************************************************************)
EXTENDS Naturals, Sequences, FiniteSets, SequencesExt

CONSTANTS
    Request,     \* provisioning requests for the agent
    None,        \* no request
    MaxRuns,     \* bound: run ids issued to one request
    MaxFaults    \* bound: crashes, failed writes, failed reads, lost answers,
                 \*   restarts with a configuration that refuses a request

ASSUME ProvisioningAssumption ==
    /\ None \notin Request
    /\ MaxRuns \in Nat \ {0}
    /\ MaxFaults \in Nat

VARIABLES
    pc,           \* pc[r]: the step of the lock's holder, "idle" when free
    run,          \* run[r]: the durable saga checkpoint
    ledger,       \* ledger[r]: the adapter ledger's record of the request
    reservation,  \* the request the agent id is reserved for
    unit,         \* whose spec the registered deployment unit carries
    binding,      \* the request of the newest binding of the service's release
    intent,       \* the run id the deployment intent carries
    minted,       \* minted[r]: keys the signer made for the request
    unsaved,      \* unsaved[r]: of these, keys whose ledger save was lost
    soul,         \* the newest kind-31951 projection of the agent
    result,       \* result[r]: kind-7950 results on the relays: the saga's own
                  \*   success or error, and the handler's refusals
    issued,       \* issued[r]: run ids issued
    faults        \* faults so far

world == <<reservation, unit, binding, intent, minted, unsaved, soul, result, issued>>
vars == <<pc, run, ledger, world, faults>>

----------------------------------------------------------------------------
(* Stages and records. *)

Forward ==
    <<"identity_reserved", "service_registered", "release_selected",
      "runtime_allocated", "signer_enrolled", "nostr_configured",
      "llm_verified", "dm_verified", "running">>

ForwardStage == ToSet(Forward)
Ended == {"rolled_back", "failed_terminal"}
Stage == ForwardStage \cup Ended
           \cup {"requested", "rollback_pending", "failed_recoverable"}

\* 0 for a stage outside the forward order.
Rank(s) == IF s \in ForwardStage THEN CHOOSE i \in DOMAIN Forward : Forward[i] = s
                                 ELSE 0
NextStage(s) == Forward[Rank(s) + 1]
PreviousStage(s) == IF Rank(s) = 1 THEN "requested" ELSE Forward[Rank(s) - 1]

\* CompensationRank, and the newest first within one rank.
CompensationOrder ==
    <<"dm_verified", "llm_verified", "nostr_configured", "signer_enrolled",
      "service_registered", "release_selected", "runtime_allocated", "running">>

RunId == Request \X (1 .. MaxRuns)
NoRun == [stage |-> "none"]
NewRun(id) == [stage |-> "requested", id |-> id, resume |-> "requested",
               created |-> {}, compensated |-> {}, retain |-> FALSE]
NoLedger == [complete |-> {"none"}]
NewLedger(id) == [id |-> id, complete |-> {}, owned |-> {}, key |-> FALSE,
                  soul |-> FALSE, terminal |-> "none", success |-> "none"]

HasRun(r) == run[r] # NoRun
HasLedger(r) == ledger[r] # NoLedger
Completed(r, s) == HasLedger(r) /\ s \in ledger[r].complete
SoulOf(r) == [by |-> r, status |-> "active"]

Init ==
    /\ pc = [r \in Request |-> "idle"]
    /\ run = [r \in Request |-> NoRun]
    /\ ledger = [r \in Request |-> NoLedger]
    /\ reservation = None
    /\ unit = None
    /\ binding = None
    /\ intent = <<None, 0>>
    /\ minted = [r \in Request |-> 0]
    /\ unsaved = [r \in Request |-> 0]
    /\ soul = [by |-> None, status |-> "none"]
    /\ result = [r \in Request |-> {}]
    /\ issued = [r \in Request |-> 0]
    /\ faults = 0

----------------------------------------------------------------------------
(* Step vocabulary. *)

At(r, p) == pc[r] = p
Go(r, p) == pc' = [pc EXCEPT ![r] = p]
SaveRun(r, rec) == run' = [run EXCEPT ![r] = rec]
SaveLedger(r, rec) == ledger' = [ledger EXCEPT ![r] = rec]
Fault == faults < MaxFaults /\ faults' = faults + 1

Transition(r, s) ==
    SaveRun(r, [run[r] EXCEPT !.stage = s, !.resume = "requested"])

\* Engine.fail for a retryable cause: the stage to resume is remembered.
FailRecoverable(r, s) ==
    /\ SaveRun(r, [run[r] EXCEPT !.stage = "failed_recoverable", !.resume = s])
    /\ Go(r, "idle")

\* The stage the engine works on.
Target(r) == NextStage(run[r].stage)

\* inspectRealStep: markers other runs left on live resources are conflicts.
InspectRealStep(r, s) ==
    CASE s = "service_registered" -> unit = r
      [] s = "release_selected"   -> binding = r
      [] s = "runtime_allocated"  -> intent = ledger[r].id
      [] OTHER                    -> TRUE

\* What a driver's Inspect reports after enforceObservation.
Observe(r, s) ==
    IF s = "identity_reserved" THEN
        IF reservation \notin {None, r} THEN "conflict"
        ELSE IF reservation = r /\ Completed(r, s) THEN "matching" ELSE "absent"
    ELSE IF s = "running" THEN
        IF ledger[r].soul /\ soul = SoulOf(r) THEN "matching" ELSE "absent"
    ELSE IF ~Completed(r, s) THEN "absent"
    ELSE IF InspectRealStep(r, s) THEN "matching" ELSE "error"

----------------------------------------------------------------------------
(* Entry points: the reactor's handler and the operator's commands. *)

\* A kind-5950 request, live or backfilled at a restart.  The handler ignores
\* one with a terminal result, but a failed lookup of that result is only
\* logged, so that any delivery may get here.  MaxRuns bounds the run ids.
Receive(r) ==
    /\ At(r, "idle")
    /\ HasLedger(r) \/ issued[r] < MaxRuns
    /\ Go(r, "prepare")
    /\ UNCHANGED <<run, ledger, world, faults>>

\* The handler's own error results.  A requester who is not, or no longer,
\* authorized, a missing factory key and a request that does not parse are
\* refused before the lookup of an earlier result, a missing registry after it;
\* none of them looks at the lock.  The configuration that refuses a request it
\* once let pass came with a restart, which MaxFaults bounds.
Refuse(r) ==
    /\ Fault
    /\ result' = [result EXCEPT ![r] = @ \cup {"refused"}]
    /\ UNCHANGED <<pc, run, ledger, reservation, unit, binding, intent, minted, unsaved,
                   soul, issued>>

\* prepareRequest: the first delivery captures its inputs and issues a run id.
Prepare(r) ==
    /\ At(r, "prepare")
    /\ \/ /\ HasLedger(r)
          /\ UNCHANGED <<ledger, issued>>
       \/ /\ ~HasLedger(r)
          /\ issued' = [issued EXCEPT ![r] = @ + 1]
          /\ SaveLedger(r, NewLedger(<<r, issued'[r]>>))
    /\ Go(r, "start")
    /\ UNCHANGED <<run, reservation, unit, binding, intent, minted, unsaved, soul,
                   result, faults>>

\* Engine.Start: an existing run with another run id is a conflict.
Start(r) ==
    /\ At(r, "start")
    /\ \/ /\ ~HasRun(r)
          /\ SaveRun(r, NewRun(ledger[r].id))
          /\ Go(r, "reconcile")
       \/ /\ HasRun(r)
          /\ Go(r, IF run[r].id = ledger[r].id THEN "reconcile" ELSE "idle")
          /\ UNCHANGED run
    /\ UNCHANGED <<ledger, world, faults>>

Operate_Blind(r) ==    \* mutant: the ledger is not loaded first
    /\ At(r, "idle")
    /\ HasRun(r)
    /\ \E command \in {"reconcile", "abort"} : Go(r, command)
    /\ UNCHANGED <<run, ledger, world, faults>>

\* executeProvisioningCommand: retry and reconcile, and safe-abort.
Operate(r) ==
    /\ At(r, "idle")
    /\ HasRun(r) /\ HasLedger(r)
    /\ run[r].id = ledger[r].id
    /\ \E command \in {"reconcile", "abort"} : Go(r, command)
    /\ UNCHANGED <<run, ledger, world, faults>>

\* Engine.Reconcile up to its loop.
Reconcile(r) ==
    /\ At(r, "reconcile")
    /\ \/ /\ run[r].stage = "rollback_pending"
          /\ Go(r, "abort")
          /\ UNCHANGED run
       \/ /\ run[r].stage \in Ended \cup {"running"}
          /\ Go(r, "terminal")
          /\ UNCHANGED run
       \/ /\ run[r].stage = "failed_recoverable"
          /\ Transition(r, PreviousStage(run[r].resume))
          /\ Go(r, "inspect")
       \/ /\ run[r].stage \in {"requested"} \cup (ForwardStage \ {"running"})
          /\ Go(r, "inspect")
          /\ UNCHANGED run
    /\ UNCHANGED <<ledger, world, faults>>

----------------------------------------------------------------------------
(* The forward loop: inspect, apply, inspect again, checkpoint, advance. *)

\* Inspect before Apply; a conflict rolls back, an error is recoverable.
Inspect(r) ==
    /\ At(r, "inspect")
    /\ LET seen == Observe(r, Target(r)) IN
       \/ seen = "matching" /\ Go(r, "checkpoint") /\ UNCHANGED run
       \/ seen = "absent"   /\ Go(r, "apply")      /\ UNCHANGED run
       \/ seen = "conflict" /\ Go(r, "rollback")   /\ UNCHANGED run
       \/ seen = "error"    /\ FailRecoverable(r, Target(r))
    /\ UNCHANGED <<ledger, world, faults>>

\* Inspect after Apply: only reality counts, also when Apply reported success.
Verify(r) ==
    /\ At(r, "verify")
    /\ LET seen == Observe(r, Target(r)) IN
       \/ seen = "matching" /\ Go(r, "checkpoint") /\ UNCHANGED run
       \/ seen = "conflict" /\ Go(r, "rollback")   /\ UNCHANGED run
       \/ seen \in {"absent", "error"} /\ FailRecoverable(r, Target(r))
    /\ UNCHANGED <<ledger, world, faults>>

\* An inspection that fails on either side of Apply.
InspectFails(r) ==
    /\ pc[r] \in {"inspect", "verify"}
    /\ Fault
    /\ FailRecoverable(r, Target(r))
    /\ UNCHANGED <<ledger, world>>

\* ensureReservation: the reservation is made once; another holder's is a
\* conflict that the verification sees.
Reserve(r) ==
    /\ At(r, "apply") /\ Target(r) = "identity_reserved"
    /\ \/ reservation = None /\ reservation' = r /\ Go(r, "record")
       \/ reservation = r    /\ Go(r, "record") /\ UNCHANGED reservation
       \/ reservation \notin {None, r} /\ Go(r, "verify") /\ UNCHANGED reservation
    /\ UNCHANGED <<run, ledger, unit, binding, intent, minted, unsaved, soul, result,
                   issued, faults>>

\* The external effect of a step and whether this run created the resource.
RegisterUnit(r) ==
    /\ At(r, "apply") /\ Target(r) = "service_registered"
    /\ unit' = IF unit = None THEN r ELSE unit
    /\ Go(r, IF unit = None THEN "record_owned" ELSE "record")
    /\ UNCHANGED <<run, ledger, reservation, binding, intent, minted, unsaved, soul,
                   result, issued, faults>>

\* BindRelease appends the request's binding once; an earlier one of the same
\* release, its own included, makes the resource adopted.
SelectRelease(r) ==
    /\ At(r, "apply") /\ Target(r) = "release_selected"
    /\ binding' = r
    /\ Go(r, IF binding = None THEN "record_owned" ELSE "record")
    /\ UNCHANGED <<run, ledger, reservation, unit, intent, minted, unsaved, soul,
                   result, issued, faults>>

Deploy(r) ==
    /\ At(r, "apply") /\ Target(r) = "runtime_allocated"
    /\ intent' = IF intent[1] = None THEN ledger[r].id ELSE intent
    /\ Go(r, IF intent[1] = None THEN "record_owned" ELSE "record")
    /\ UNCHANGED <<run, ledger, reservation, unit, binding, minted, unsaved, soul,
                   result, issued, faults>>

MintsKey_Always(r) == TRUE    \* mutant: the saved key is not looked up
\* ensureIdentity makes a key unless the ledger names one ...
MintsKey(r) == ~ledger[r].key

Enroll(r) ==
    /\ At(r, "apply") /\ Target(r) = "signer_enrolled"
    /\ \/ /\ MintsKey(r)
          /\ minted' = [minted EXCEPT ![r] = @ + 1]
          /\ Go(r, "save_key")
       \/ /\ ~MintsKey(r)
          /\ Go(r, "record_owned")
          /\ UNCHANGED minted
    /\ UNCHANGED <<run, ledger, reservation, unit, binding, intent, unsaved, soul,
                   result, issued, faults>>

\* ... and saves it before memberships and the runtime are configured.
SaveKey(r) ==
    /\ At(r, "save_key")
    /\ SaveLedger(r, [ledger[r] EXCEPT !.key = TRUE])
    /\ Go(r, "record_owned")
    /\ UNCHANGED <<run, world, faults>>

\* Relay, model and readiness evidence are the request's own.
Ensure(r) ==
    /\ At(r, "apply")
    /\ Target(r) \in {"nostr_configured", "llm_verified", "dm_verified"}
    /\ Go(r, "record_owned")
    /\ UNCHANGED <<run, ledger, world, faults>>

\* The ledger save that ends a step.
Record(r) ==
    /\ pc[r] \in {"record", "record_owned"}
    /\ SaveLedger(r, [ledger[r] EXCEPT
                        !.complete = @ \cup {Target(r)},
                        !.owned = IF At(r, "record_owned") THEN @ \cup {Target(r)}
                                                           ELSE @])
    /\ Go(r, "verify")
    /\ UNCHANGED <<run, world, faults>>

\* An external call or a ledger save of a step fails: the error is not
\* retryable, the verification finds nothing, and the run rolls back.  A key
\* made before the failed save is lost.
ApplyFails(r) ==
    /\ \/ At(r, "apply") /\ Target(r) # "running"
       \/ pc[r] \in {"record", "record_owned", "save_key"}
    /\ Fault
    /\ unsaved' = [unsaved EXCEPT ![r] = @ + (IF At(r, "save_key") THEN 1 ELSE 0)]
    /\ Go(r, "rollback")
    /\ UNCHANGED <<run, ledger, reservation, unit, binding, intent, minted, soul,
                   result, issued>>

\* Publish for the running stage: the Soul goes out before the ledger save.
PublishSoul(r) ==
    /\ \/ At(r, "apply") /\ Target(r) = "running"
       \/ At(r, "terminal") /\ run[r].stage = "running"
            /\ Observe(r, "running") = "absent"
    /\ soul' = SoulOf(r)
    /\ Go(r, "save_soul")
    /\ UNCHANGED <<run, ledger, reservation, unit, binding, intent, minted, unsaved,
                   result, issued, faults>>

\* The publish reports an error, whether or not relays took the Soul; the
\* inspection that follows decides.
PublishSoulFails(r) ==
    /\ \/ At(r, "apply") /\ Target(r) = "running"
       \/ At(r, "terminal") /\ run[r].stage = "running"
            /\ Observe(r, "running") = "absent"
    /\ Fault
    /\ \/ UNCHANGED soul /\ Go(r, IF At(r, "apply") THEN "verify" ELSE "idle")
       \/ soul' = SoulOf(r) /\ Go(r, IF At(r, "apply") THEN "verify" ELSE "recheck")
    /\ UNCHANGED <<run, ledger, reservation, unit, binding, intent, minted, unsaved, result,
                   issued>>

SaveSoul_Loops(r) ==    \* mutant: the projection is published until it shows
    /\ At(r, "save_soul")
    /\ SaveLedger(r, [ledger[r] EXCEPT !.soul = TRUE])
    /\ Go(r, IF run[r].stage = "running" THEN "terminal" ELSE "verify")
    /\ UNCHANGED <<run, world, faults>>

SaveSoul(r) ==
    /\ At(r, "save_soul")
    /\ SaveLedger(r, [ledger[r] EXCEPT !.soul = TRUE])
    /\ Go(r, IF run[r].stage = "running" THEN "recheck" ELSE "verify")
    /\ UNCHANGED <<run, world, faults>>

\* The ledger save fails after the Soul went out: the error is not retryable,
\* and the run rolls back unless an earlier save had recorded a Soul.
SaveSoulFails(r) ==
    /\ At(r, "save_soul")
    /\ Fault
    /\ LET matching == Observe(r, "running") = "matching" IN
       Go(r, IF run[r].stage = "running" THEN "recheck"
             ELSE IF matching THEN "checkpoint" ELSE "rollback")
    /\ UNCHANGED <<run, ledger, world>>

\* The resources an inspection reports as created and owned by the run.
Owned(r) == ledger[r].owned \cup {"running"}

\* The resource's lineage is saved before the stage that rests on it.
Checkpoint(r) ==
    /\ At(r, "checkpoint")
    /\ SaveRun(r, [run[r] EXCEPT !.created = @ \cup ({Target(r)} \cap Owned(r))])
    /\ Go(r, "advance")
    /\ UNCHANGED <<ledger, world, faults>>

Advance(r) ==
    /\ At(r, "advance")
    /\ Transition(r, Target(r))
    /\ Go(r, IF Target(r) = "running" THEN "deliver" ELSE "inspect")
    /\ UNCHANGED <<ledger, world, faults>>

----------------------------------------------------------------------------
(* Rollback: failAndRollback and SafeAbort. *)

Rollback(r) ==
    /\ At(r, "rollback")
    /\ SaveRun(r, [run[r] EXCEPT !.stage = "rollback_pending"])
    /\ Go(r, "abort")
    /\ UNCHANGED <<ledger, world, faults>>

\* SafeAbort up to its loop.
BeginAbort(r) ==
    /\ At(r, "abort")
    /\ \/ /\ run[r].stage \in Ended \cup {"running"}
          /\ Go(r, "idle")
          /\ UNCHANGED run
       \/ /\ run[r].stage \notin Ended \cup {"running", "rollback_pending"}
          /\ Transition(r, "rollback_pending")
          /\ UNCHANGED pc
    /\ UNCHANGED <<ledger, world, faults>>

\* The resources this run created and has not compensated, as places in the
\* compensation order; the first of them is next.
Compensable(r) ==
    {i \in DOMAIN CompensationOrder :
        CompensationOrder[i] \in run[r].created \ run[r].compensated}
NextCompensation(r) == CompensationOrder[Min(Compensable(r))]

\* rollbackFail for a cause that is not retryable.
FailTerminal(r) ==
    /\ SaveRun(r, [run[r] EXCEPT !.stage = "failed_terminal", !.retain = TRUE])
    /\ Go(r, "terminal")

\* The next resource is inspected and, when the run still owns it, Remove
\* relinquishes it in the ledger; for the Soul, RemoveProjection does nothing.
Compensate(r) ==
    /\ At(r, "abort")
    /\ run[r].stage = "rollback_pending"
    /\ Compensable(r) # {}
    /\ LET s == NextCompensation(r)
           seen == Observe(r, s)
       IN \/ /\ seen = "error"
             /\ Go(r, "idle")
             /\ UNCHANGED <<run, ledger>>
          \/ /\ seen = "absent"
             /\ SaveRun(r, [run[r] EXCEPT !.compensated = @ \cup {s}])
             /\ UNCHANGED <<pc, ledger>>
          \/ /\ seen = "matching" /\ s \in Owned(r)
             /\ SaveLedger(r, [ledger[r] EXCEPT !.owned = @ \ {s}])
             /\ Go(r, "compensated")
             /\ UNCHANGED run
          \/ /\ seen = "matching" /\ s \notin Owned(r)
             /\ FailTerminal(r)
             /\ UNCHANGED ledger
    /\ UNCHANGED <<world, faults>>

\* Remove's ledger save fails.
CompensateFails(r) ==
    /\ At(r, "abort")
    /\ run[r].stage = "rollback_pending"
    /\ Compensable(r) # {}
    /\ NextCompensation(r) \in ledger[r].owned
    /\ Observe(r, NextCompensation(r)) = "matching"
    /\ Fault
    /\ FailTerminal(r)
    /\ UNCHANGED <<ledger, world>>

RecordCompensation_Unchecked(r) ==    \* mutant: no inspection after Remove
    /\ At(r, "compensated")
    /\ SaveRun(r, [run[r] EXCEPT !.compensated = @ \cup {NextCompensation(r)}])
    /\ Go(r, "abort")
    /\ UNCHANGED <<ledger, world, faults>>

\* The inspection after Remove: a resource that is gone, or there but no longer
\* the run's, is compensated; one that remains leaves the rollback pending.
RecordCompensation(r) ==
    /\ At(r, "compensated")
    /\ LET s == NextCompensation(r)
           seen == Observe(r, s)
       IN IF seen = "absent" \/ (seen = "matching" /\ s \notin Owned(r))
          THEN /\ SaveRun(r, [run[r] EXCEPT !.compensated = @ \cup {s}])
               /\ Go(r, "abort")
          ELSE /\ Go(r, "idle")
               /\ UNCHANGED run
    /\ UNCHANGED <<ledger, world, faults>>

FinishAbort(r) ==
    /\ At(r, "abort")
    /\ run[r].stage = "rollback_pending"
    /\ Compensable(r) = {}
    /\ Transition(r, "rolled_back")
    /\ Go(r, "mark")
    /\ UNCHANGED <<ledger, world, faults>>

\* RetentionPolicy.Mark, saved after the stage.
Mark(r) ==
    /\ At(r, "mark")
    /\ SaveRun(r, [run[r] EXCEPT !.retain = TRUE])
    /\ Go(r, "terminal")
    /\ UNCHANGED <<ledger, world, faults>>

----------------------------------------------------------------------------
(* ensureTerminal: the projection of a terminal stage. *)

\* observeProjection for a stage that ended without an active Soul.
ErrorProjected(r) == ledger[r].terminal = run[r].stage /\ result[r] # {}

\* The projection is there: it is added to the run's lineage as created, and
\* success of a running saga is delivered.  A projection missing after its
\* publication ends the workflow.
EnsureTerminal(r) ==
    /\ pc[r] \in {"terminal", "recheck"}
    /\ LET matching == IF run[r].stage = "running"
                       THEN Observe(r, "running") = "matching"
                       ELSE ErrorProjected(r)
       IN \/ /\ matching
             /\ SaveRun(r, [run[r] EXCEPT !.created = @ \cup {run[r].stage}])
             /\ Go(r, IF run[r].stage = "running" THEN "deliver" ELSE "idle")
          \/ ~matching /\ At(r, "recheck") /\ Go(r, "idle") /\ UNCHANGED run
    /\ UNCHANGED <<ledger, world, faults>>

\* Publish for a stage that ended without an active Soul.
PublishError(r) ==
    /\ At(r, "terminal")
    /\ run[r].stage \in Ended /\ ~ErrorProjected(r)
    /\ result' = [result EXCEPT ![r] = @ \cup {"error"}]
    /\ Go(r, "save_terminal")
    /\ UNCHANGED <<run, ledger, reservation, unit, binding, intent, minted, unsaved,
                   soul, issued, faults>>

SaveTerminal(r) ==
    /\ At(r, "save_terminal")
    /\ SaveLedger(r, [ledger[r] EXCEPT !.terminal = run[r].stage])
    /\ Go(r, "recheck")
    /\ UNCHANGED <<run, world, faults>>

----------------------------------------------------------------------------
(* deliverSuccess. *)

Sign_Unconditional(r) ==    \* mutant: no lookup of an earlier result
    /\ At(r, "deliver")
    /\ \/ ledger[r].success = "delivered" /\ Go(r, "idle") /\ UNCHANGED ledger
       \/ /\ ledger[r].success # "delivered"
          /\ SaveLedger(r, [ledger[r] EXCEPT !.success = "signed"])
          /\ Go(r, "announce")
    /\ UNCHANGED <<run, world, faults>>

\* The signed result is kept before it is published; the lookup returns any
\* result on the relays, and one other than success is a conflict.
Sign(r) ==
    /\ At(r, "deliver")
    /\ \/ ledger[r].success = "delivered" /\ Go(r, "idle") /\ UNCHANGED ledger
       \/ ledger[r].success = "signed" /\ Go(r, "announce") /\ UNCHANGED ledger
       \/ /\ ledger[r].success = "none" /\ result[r] \cap {"error", "refused"} # {}
          /\ Go(r, "idle")
          /\ UNCHANGED ledger
       \/ /\ ledger[r].success = "none" /\ (result[r] = {} \/ "success" \in result[r])
          /\ SaveLedger(r, [ledger[r] EXCEPT !.success = "signed"])
          /\ Go(r, "announce")
    /\ UNCHANGED <<run, world, faults>>

Announce(r) ==
    /\ At(r, "announce")
    /\ result' = [result EXCEPT ![r] = @ \cup {"success"}]
    /\ Go(r, "settle")
    /\ UNCHANGED <<run, ledger, reservation, unit, binding, intent, minted, unsaved,
                   soul, issued, faults>>

Settle(r) ==
    /\ At(r, "settle")
    /\ SaveLedger(r, [ledger[r] EXCEPT !.success = "delivered"])
    /\ Go(r, "idle")
    /\ UNCHANGED <<run, world, faults>>

----------------------------------------------------------------------------
(* Retention: PurgeExpired over ledgerPurgingStore.  The pass lists runs    *)
(* before it takes the lock and Delete compares versions under it, which    *)
(* makes the listing as fresh as a read under the lock.                     *)

ReleasesIdentity_AnyHolder(r) ==    \* mutant: the holder is not compared
    reservation # None /\ soul.status # "active"
ReleasesIdentity_NoSoul(r) == reservation = r    \* mutant: the Soul is not read

\* Only the holder's run frees the agent id, and only without a live Soul.
ReleasesIdentity(r) == reservation = r /\ soul.status # "active"

Purge_RunOnly(r) ==    \* mutant: the ledger is not purged with the run
    /\ At(r, "idle")
    /\ HasRun(r) /\ run[r].stage \in Ended /\ run[r].retain
    /\ Go(r, IF ReleasesIdentity(r) THEN "purge_release" ELSE "purge_delete")
    /\ UNCHANGED <<run, ledger, world, faults>>

\* The Soul is read before any record goes; the ledger goes first.
Purge(r) ==
    /\ At(r, "idle")
    /\ HasRun(r) /\ run[r].stage \in Ended /\ run[r].retain
    /\ SaveLedger(r, NoLedger)
    /\ Go(r, IF ReleasesIdentity(r) THEN "purge_release" ELSE "purge_delete")
    /\ UNCHANGED <<run, world, faults>>

PurgeRelease(r) ==
    /\ At(r, "purge_release")
    /\ reservation' = None
    /\ Go(r, "purge_delete")
    /\ UNCHANGED <<run, ledger, unit, binding, intent, minted, unsaved, soul, result,
                   issued, faults>>

PurgeDelete(r) ==
    /\ At(r, "purge_delete")
    /\ SaveRun(r, NoRun)
    /\ Go(r, "idle")
    /\ UNCHANGED <<ledger, world, faults>>

----------------------------------------------------------------------------
(* Faults and the rest of the factory. *)

\* A crash, a failed save of the run, or a failed read outside the forward
\* loop: the caller returns, the lock is free and what is durable stays.  A
\* publication that was under way may have reached a relay.
Abandon(r) ==
    /\ pc[r] # "idle"
    /\ Fault
    /\ unsaved' = [unsaved EXCEPT ![r] = @ + (IF At(r, "save_key") THEN 1 ELSE 0)]
    /\ Go(r, "idle")
    /\ UNCHANGED <<run, ledger, reservation, unit, binding, intent, minted, soul, result,
                   issued>>

\* The lifecycle handler's revoke.
Revoke ==
    /\ soul.status = "active"
    /\ soul' = [soul EXCEPT !.status = "revoked"]
    /\ UNCHANGED <<pc, run, ledger, reservation, unit, binding, intent, minted, unsaved,
                   result, issued, faults>>

\* What the holder of the lock does next, when nothing fails.
Work(r) ==
    \/ Prepare(r) \/ Start(r) \/ Reconcile(r) \/ Inspect(r) \/ Verify(r)
    \/ Reserve(r) \/ RegisterUnit(r) \/ SelectRelease(r) \/ Deploy(r) \/ Enroll(r) \/ SaveKey(r)
    \/ Ensure(r) \/ Record(r) \/ PublishSoul(r) \/ SaveSoul(r)
    \/ Checkpoint(r) \/ Advance(r) \/ Rollback(r) \/ BeginAbort(r)
    \/ Compensate(r) \/ RecordCompensation(r) \/ FinishAbort(r) \/ Mark(r)
    \/ EnsureTerminal(r) \/ PublishError(r) \/ SaveTerminal(r)
    \/ Sign(r) \/ Announce(r) \/ Settle(r)
    \/ PurgeRelease(r) \/ PurgeDelete(r)

Fails(r) ==
    \/ InspectFails(r) \/ ApplyFails(r) \/ PublishSoulFails(r)
    \/ SaveSoulFails(r) \/ CompensateFails(r) \/ Abandon(r)

Next ==
    \/ \E r \in Request : Receive(r) \/ Refuse(r) \/ Operate(r) \/ Purge(r)
    \/ \E r \in Request : Work(r) \/ Fails(r)
    \/ Revoke

\* Requests, operators, faults and revocations come when they come; a
\* workflow that holds its lock keeps going.
Spec == Init /\ [][Next]_vars /\ \A r \in Request : WF_vars(Work(r))

----------------------------------------------------------------------------
(* Properties. *)

PC == {"idle", "prepare", "start", "reconcile", "inspect", "apply", "verify",
       "record", "record_owned", "save_key", "save_soul", "checkpoint",
       "advance", "rollback", "abort", "compensated", "mark", "terminal",
       "recheck", "save_terminal", "deliver", "announce", "settle", "purge_release",
       "purge_delete"}

RunRecord ==
    [stage : Stage, id : RunId, resume : ForwardStage \cup {"requested"},
     created : SUBSET (ForwardStage \cup Ended), compensated : SUBSET ForwardStage,
     retain : BOOLEAN]

LedgerRecord ==
    [id : RunId, complete : SUBSET ForwardStage, owned : SUBSET ForwardStage,
     key : BOOLEAN, soul : BOOLEAN, terminal : Ended \cup {"none"},
     success : {"none", "signed", "delivered"}]

\* The state has its shape, and a workflow past its entry has what it works
\* on: a ledger from prepareRequest, and a run from Engine.Start.
TypeOK ==
    /\ pc \in [Request -> PC]
    /\ run \in [Request -> RunRecord \cup {NoRun}]
    /\ ledger \in [Request -> LedgerRecord \cup {NoLedger}]
    /\ reservation \in Request \cup {None}
    /\ unit \in Request \cup {None}
    /\ binding \in Request \cup {None}
    /\ intent \in RunId \cup {<<None, 0>>}
    /\ minted \in [Request -> Nat] /\ unsaved \in [Request -> Nat]
    /\ soul \in [by : Request \cup {None}, status : {"none", "active", "revoked"}]
    /\ result \in [Request -> SUBSET {"success", "error", "refused"}]
    /\ issued \in [Request -> 0 .. MaxRuns]
    /\ faults \in 0 .. MaxFaults
    /\ \A r \in Request :
          /\ pc[r] \notin {"idle", "prepare", "purge_release", "purge_delete"}
                => HasLedger(r)
          /\ pc[r] \notin {"idle", "prepare", "start"} => HasRun(r)

\* An external effect of a request's workflow (registering the unit, binding a
\* release, deploying it, making a key, publishing an active Soul) happens only
\* while the agent id is reserved for that request: ensureReservation, replays,
\* rollbacks and the retention pass never let two requests act for one agent.
EffectsHoldReservation ==
    [][/\ unit' # unit => unit' = reservation
       /\ binding' # binding => binding' = reservation
       /\ intent' # intent => intent'[1] = reservation
       /\ \A r \in Request : minted'[r] # minted[r] => r = reservation
       /\ (soul' # soul /\ soul'.status = "active") => soul'.by = reservation
      ]_<<unit, binding, intent, minted, soul>>

\* While a Soul is active its agent id stays reserved for the request that
\* published it, whatever became of that request's run: releasesIdentity never
\* frees the identity of a live agent.
LiveSoulReserved == soul.status = "active" => reservation = soul.by

\* A saga has one kind of result: its success is on the relays only while the
\* run is running and never beside a terminal error of the saga, across
\* retries, lost answers, a purged run whose request is delivered again and
\* refusals the handler published before.
ResultExclusive ==
    \A r \in Request : "success" \in result[r] =>
        "error" \notin result[r] /\ HasRun(r) /\ run[r].stage = "running"

\* Durable evidence never runs ahead of the run that owns it: a stage rests on
\* ledger records of every earlier step, completed steps belong to a run an
\* operator can name, and a reservation outlives its run only for an agent
\* that has had a Soul.
LineageKept ==
    \A r \in Request :
        /\ HasRun(r) => \A i \in 1 .. Rank(run[r].stage) \ {Len(Forward)} :
                            Completed(r, Forward[i])
        /\ HasLedger(r) /\ ledger[r].complete # {} =>
                HasRun(r) /\ run[r].id = ledger[r].id
        /\ reservation = r => HasRun(r) \/ soul.by = r

\* A run that reports rolled_back has compensated every resource of its steps
\* it recorded as created, owns none of them in the ledger, and has not left
\* the Soul it recorded active, however often the rollback was interrupted and
\* resumed.  The projection of the end itself is no step's and stays.
RolledBackComplete ==
    \A r \in Request : HasRun(r) /\ run[r].stage = "rolled_back" =>
        /\ run[r].created \ Ended \subseteq run[r].compensated
        /\ HasLedger(r) => run[r].created \cap ledger[r].owned = {}
        /\ "running" \in run[r].created => soul # SoulOf(r)

\* A request makes one key per run id, and a further one only when the save of
\* the earlier was lost: "A retry never provisions a second key".
KeyMintedOnce ==
    \A r \in Request :
        minted[r] <= issued[r] + unsaved[r]

\* Every handler, operator command and retention step gives its lock back.
WorkflowReturns == \A r \in Request : pc[r] # "idle" ~> pc[r] = "idle"
=============================================================================
