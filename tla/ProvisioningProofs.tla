------------------------- MODULE ProvisioningProofs -------------------------
(***************************************************************************)
(* Proofs about governed provisioning, for every number of requests that   *)
(* name the agent, of run ids and of faults.                               *)
(***************************************************************************)
EXTENDS Provisioning, TLAPS

----------------------------------------------------------------------------
(* The inductive invariant, request by request. *)

(* The stages from which the forward loop goes on.                         *)
Before == {"requested"} \cup (ForwardStage \ {"running"})

(* The places of the forward loop; save_soul belongs to it until the run   *)
(* is running.                                                             *)
Loop == {"inspect", "apply", "verify", "record", "record_owned", "save_key",
         "checkpoint", "advance", "rollback"}
Purging == {"purge_release", "purge_delete"}
Entering == {"idle", "prepare", "start"}

(* The number of forward stages a run rests on.                            *)
Position(r) == IF run[r].stage = "failed_recoverable" THEN Rank(run[r].resume) - 1
                                                      ELSE Rank(run[r].stage)

(* Whose records they are; completed steps are never without their run.    *)
Ids(r) ==
  /\ HasRun(r) => run[r].id[1] = r
  /\ HasLedger(r) => ledger[r].id[1] = r
  /\ HasLedger(r) /\ ledger[r].complete # {} => HasRun(r) /\ run[r].id = ledger[r].id

(* A run rests on ledger records of every stage behind it, also when it    *)
(* has failed and will resume.                                             *)
Rests(r) ==
  /\ HasRun(r) => \A i \in 1 .. Position(r) : i # 9 => Completed(r, Forward[i])
  /\ HasRun(r) /\ run[r].stage = "failed_recoverable" => run[r].resume \in ForwardStage

(* What ties a request to the reservation of the agent id.                 *)
Holds(r) ==
  /\ Completed(r, "identity_reserved") => reservation = r
  /\ reservation = r => HasRun(r) \/ soul.by = r

(* What a rollback has done and what is left to it.                        *)
Rolls(r) ==
  /\ HasRun(r) => "identity_reserved" \notin run[r].created
  /\ HasRun(r) /\ run[r].compensated # {} => run[r].stage \in Ended \cup {"rollback_pending"}
  /\ HasLedger(r) => ledger[r].owned \subseteq ledger[r].complete \ {"identity_reserved", "running"}
  /\ HasRun(r) /\ HasLedger(r) => run[r].compensated \cap ledger[r].owned = {}
  /\ HasRun(r) /\ run[r].stage = "rolled_back" =>
        run[r].created \ Ended \subseteq run[r].compensated
  /\ HasRun(r) /\ ~HasLedger(r) => run[r].stage \in Ended
  /\ HasRun(r) /\ run[r].stage \notin Ended /\ "running" \in run[r].created => ledger[r].soul
  /\ HasRun(r) /\ "running" \in run[r].compensated => soul # SoulOf(r)

(* The success result is signed only for a running saga without an error.  *)
Results(r) ==
  /\ "success" \in result[r] => HasLedger(r) /\ ledger[r].success # "none"
  /\ HasLedger(r) /\ ledger[r].success # "none" =>
        HasRun(r) /\ run[r].stage = "running" /\ "error" \notin result[r]

(* What holds of a request's records wherever its workflow stands.         *)
Durable(r) == Ids(r) /\ Rests(r) /\ Holds(r) /\ Rolls(r) /\ Results(r)

(* What a workflow at place p works on: a ledger from prepareRequest, a    *)
(* run of its run id from Engine.Start, and none of the ledger in a purge. *)
Works(r, p) ==
  /\ p \notin {"idle", "prepare"} \cup Purging => HasLedger(r)
  /\ p \notin Entering => HasRun(r)
  /\ p \notin Entering \cup Purging => run[r].id = ledger[r].id
  /\ p = "prepare" => HasLedger(r) \/ issued[r] < MaxRuns
  /\ p \in Purging => ~HasLedger(r)

(* The stage of the run at each place.                                     *)
Place(r, p) ==
  /\ p \in Loop => run[r].stage \in Before
  /\ p = "save_soul" => run[r].stage \in {"dm_verified", "running"}
  /\ p = "save_key" => Target(r) = "signer_enrolled"
  /\ p = "record_owned" => Target(r) \notin {"identity_reserved", "running"}
  /\ p = "compensated" => run[r].stage = "rollback_pending"
  /\ p = "mark" => run[r].stage = "rolled_back"
  /\ p \in {"terminal", "recheck"} => run[r].stage \in Ended \cup {"running"}
  /\ p \in Purging \cup {"save_terminal"} => run[r].stage \in Ended
  /\ p \in {"deliver", "announce", "settle"} => run[r].stage = "running"

(* What the steps before each place have established.                      *)
Stands(r, p) ==
  /\ p \in {"checkpoint", "advance"} /\ Target(r) # "running" => Completed(r, Target(r))
  /\ p = "checkpoint" /\ Target(r) = "running" => ledger[r].soul
  /\ p = "record" /\ Target(r) = "identity_reserved" => reservation = r
  /\ p = "purge_release" => reservation = r /\ soul.status # "active"
  /\ p = "purge_delete" /\ reservation = r => soul.by = r
  /\ p = "compensated" => Compensable(r) # {} /\ NextCompensation(r) \notin ledger[r].owned
  /\ p \in {"announce", "settle"} => ledger[r].success # "none"

(* A run id whose ledger names no key yet has one key to make.             *)
Unmade(r) == IF HasLedger(r) /\ ~ledger[r].key THEN 1 ELSE 0
Keys(r, p) ==
  /\ p # "save_key" => minted[r] + Unmade(r) <= issued[r] + unsaved[r]
  /\ p = "save_key" => ~ledger[r].key /\ minted[r] <= issued[r] + unsaved[r]

Local(r) == /\ Durable(r)
            /\ Works(r, pc[r]) /\ Place(r, pc[r]) /\ Stands(r, pc[r]) /\ Keys(r, pc[r])

(* The types of what belongs to one request, and of what is shared.        *)
Typed(r) ==
  /\ pc[r] \in PC
  /\ run[r] \in RunRecord \cup {NoRun}
  /\ ledger[r] \in LedgerRecord \cup {NoLedger}
  /\ minted[r] \in Nat /\ unsaved[r] \in Nat
  /\ result[r] \in SUBSET {"success", "error", "refused"}
  /\ issued[r] \in 0 .. MaxRuns

Shapes ==
  /\ pc = [r \in Request |-> pc[r]] /\ run = [r \in Request |-> run[r]]
  /\ ledger = [r \in Request |-> ledger[r]]
  /\ minted = [r \in Request |-> minted[r]]
  /\ unsaved = [r \in Request |-> unsaved[r]]
  /\ result = [r \in Request |-> result[r]]
  /\ issued = [r \in Request |-> issued[r]]

Agent ==
  /\ reservation \in Request \cup {None}
  /\ unit \in Request \cup {None}
  /\ binding \in Request \cup {None}
  /\ intent \in RunId \cup {<<None, 0>>}
  /\ soul \in [by : Request \cup {None}, status : {"none", "active", "revoked"}]
  /\ soul.status # "none" => soul.by \in Request
  /\ faults \in 0 .. MaxFaults
  /\ LiveSoulReserved

(* The inductive invariant.                                                *)
IInv == Shapes /\ Agent /\ \A r \in Request : Typed(r) /\ Local(r)

----------------------------------------------------------------------------
(* Facts about the stages. *)

(* Forward names nine stages, each once.                                   *)
LEMMA ForwardStages ==
  /\ Len(Forward) = 9 /\ DOMAIN Forward = 1 .. 9
  /\ ForwardStage = {"identity_reserved", "service_registered",
       "release_selected", "runtime_allocated", "signer_enrolled",
       "nostr_configured", "llm_verified", "dm_verified", "running"}
  /\ \A i, j \in 1 .. 9 : Forward[i] = Forward[j] => i = j
PROOF
<1>1. Len(Forward) = 9 /\ DOMAIN Forward = 1 .. 9
  BY DEF Forward
<1>2. ForwardStage = {Forward[i] : i \in 1 .. 9}
  BY <1>1 DEF ForwardStage, ToSet
<1>3. \A i \in 1 .. 9 : i \in {1, 2, 3, 4, 5, 6, 7, 8, 9}
  OBVIOUS
<1>4. \A i, j \in 1 .. 9 : Forward[i] = Forward[j] => i = j
  BY <1>3 DEF Forward
<1>5. ForwardStage = {"identity_reserved", "service_registered",
       "release_selected", "runtime_allocated", "signer_enrolled",
       "nostr_configured", "llm_verified", "dm_verified", "running"}
  BY <1>2, <1>3 DEF Forward
<1> QED
  BY <1>1, <1>4, <1>5

(* Rank is the place in the forward order, and 0 outside it.               *)
LEMMA RankFacts ==
  /\ \A i \in 1 .. 9 : Forward[i] \in ForwardStage /\ Rank(Forward[i]) = i
  /\ \A s \in ForwardStage : Rank(s) \in 1 .. 9 /\ Forward[Rank(s)] = s
  /\ \A s : s \notin ForwardStage => Rank(s) = 0
PROOF
<1>1. \A s \in ForwardStage : \E i \in DOMAIN Forward : Forward[i] = s
  BY DEF ForwardStage, ToSet
<1>2. \A s \in ForwardStage : Rank(s) \in 1 .. 9 /\ Forward[Rank(s)] = s
  BY <1>1, ForwardStages DEF Rank
<1>3. \A i \in 1 .. 9 : Forward[i] \in ForwardStage
  BY ForwardStages DEF ForwardStage, ToSet
<1>4. \A i \in 1 .. 9 : Rank(Forward[i]) = i
  BY <1>2, <1>3, ForwardStages
<1> QED
  BY <1>2, <1>3, <1>4 DEF Rank

(* The first, the last two and the ninth stage.                            *)
LEMMA Ends ==
  /\ Forward[1] = "identity_reserved" /\ Forward[8] = "dm_verified"
  /\ Forward[9] = "running"
  /\ Rank("identity_reserved") = 1 /\ Rank("dm_verified") = 8 /\ Rank("running") = 9
PROOF
<1>1. Forward[1] = "identity_reserved" /\ Forward[8] = "dm_verified" /\ Forward[9] = "running"
  BY DEF Forward
<1> QED
  BY <1>1, RankFacts

(* The loop goes on from the stages before running, one rank at a time.    *)
LEMMA NextFacts ==
  ASSUME NEW s \in Before
  PROVE  /\ s # "running" /\ Rank(s) \in 0 .. 8
         /\ NextStage(s) \in ForwardStage /\ Rank(NextStage(s)) = Rank(s) + 1
         /\ NextStage(s) = Forward[Rank(s) + 1]
         /\ NextStage(s) = "running" <=> Rank(s) = 8
         /\ NextStage(s) = "running" <=> s = "dm_verified"
         /\ NextStage(s) = "identity_reserved" <=> Rank(s) = 0
PROOF
<1>1. "requested" \notin ForwardStage
  BY ForwardStages
<1>2. s # "running" /\ Rank(s) \in 0 .. 8
  <2>1. CASE s = "requested"
    BY <2>1, <1>1, RankFacts
  <2>2. CASE s \in ForwardStage \ {"running"}
    BY <2>2, RankFacts, Ends
  <2> QED
    BY <2>1, <2>2 DEF Before
<1>3. Rank(s) + 1 \in 1 .. 9
  BY <1>2
<1>4. NextStage(s) \in ForwardStage /\ Rank(NextStage(s)) = Rank(s) + 1
  BY <1>3, RankFacts DEF NextStage
<1>5. NextStage(s) = "running" <=> Rank(s) = 8
  BY <1>2, <1>4, RankFacts, Ends DEF NextStage
<1>6. NextStage(s) = "identity_reserved" <=> Rank(s) = 0
  BY <1>2, <1>4, RankFacts, Ends DEF NextStage
<1>7. Rank(s) = 8 <=> s = "dm_verified"
  BY <1>2, RankFacts, Ends
<1> QED
  BY <1>2, <1>4, <1>5, <1>6, <1>7 DEF NextStage

(* A failed run resumes behind the stage that failed.                      *)
LEMMA PreviousFacts ==
  ASSUME NEW s \in ForwardStage
  PROVE  PreviousStage(s) \in Before /\ Rank(PreviousStage(s)) = Rank(s) - 1
PROOF
<1>1. "requested" \notin ForwardStage
  BY ForwardStages
<1>2. CASE Rank(s) = 1
  BY <1>1, <1>2, RankFacts DEF PreviousStage, Before
<1>3. CASE Rank(s) # 1
  <2>1. Rank(s) - 1 \in 1 .. 8
    BY <1>3, RankFacts
  <2>2. Forward[Rank(s) - 1] \in ForwardStage /\ Rank(Forward[Rank(s) - 1]) = Rank(s) - 1
    BY <2>1, RankFacts
  <2>3. Forward[Rank(s) - 1] # "running"
    BY <2>1, <2>2, Ends
  <2> QED
    BY <1>3, <2>2, <2>3 DEF PreviousStage, Before
<1> QED
  BY <1>2, <1>3

(* The kinds of stages are apart.                                          *)
LEMMA StageKinds ==
  /\ Before \subseteq Stage /\ ForwardStage \subseteq Stage /\ Ended \subseteq Stage
  /\ "rollback_pending" \in Stage /\ "failed_recoverable" \in Stage
  /\ "requested" \in Before
  /\ Before \cap (Ended \cup {"running", "rollback_pending", "failed_recoverable"}) = {}
  /\ Ended \cap {"running", "rollback_pending", "failed_recoverable"} = {}
  /\ Stage = Before \cup Ended \cup {"running", "rollback_pending", "failed_recoverable"}
  /\ "none" \notin Stage /\ "none" \notin ForwardStage
  /\ Before \subseteq ForwardStage \cup {"requested"}
  /\ \A s \in Ended \cup {"rollback_pending", "failed_recoverable", "requested"} :
       s \notin ForwardStage /\ Rank(s) = 0
PROOF
<1>1. \A s \in Ended \cup {"rollback_pending", "failed_recoverable", "requested"} :
       s \notin ForwardStage
  BY ForwardStages DEF Ended
<1> QED
  BY <1>1, ForwardStages, RankFacts DEF Before, Stage, Ended

(* No stored record is mistaken for a missing one.                         *)
LEMMA Missing ==
  /\ NoRun \notin RunRecord
  /\ NoLedger \notin LedgerRecord
BY StageKinds DEF NoRun, NoLedger, RunRecord, LedgerRecord

(* The compensation order names every stage but the reservation.           *)
LEMMA CompensationFacts ==
  /\ DOMAIN CompensationOrder = 1 .. 8
  /\ {CompensationOrder[i] : i \in 1 .. 8} = ForwardStage \ {"identity_reserved"}
PROOF
<1>1. DOMAIN CompensationOrder = 1 .. 8
  BY DEF CompensationOrder
<1>2. 1 .. 8 = {1, 2, 3, 4, 5, 6, 7, 8}
  OBVIOUS
<1>3. {CompensationOrder[i] : i \in 1 .. 8} = ForwardStage \ {"identity_reserved"}
  BY <1>2, ForwardStages DEF CompensationOrder
<1> QED
  BY <1>1, <1>3

(* A set of places in the compensation order has a first one.              *)
LEMMA FirstPlace ==
  ASSUME NEW S \in SUBSET (1 .. 8), S # {}
  PROVE  Min(S) \in S
PROOF
<1>1. \E x \in S : \A y \in S : x =< y
  <2>1. CASE 1 \in S
    BY <2>1
  <2>2. CASE 1 \notin S /\ 2 \in S
    BY <2>2
  <2>3. CASE 1 \notin S /\ 2 \notin S /\ 3 \in S
    BY <2>3
  <2>4. CASE 1 \notin S /\ 2 \notin S /\ 3 \notin S /\ 4 \in S
    BY <2>4
  <2>5. CASE S \subseteq 5 .. 8 /\ 5 \in S
    BY <2>5
  <2>6. CASE S \subseteq 6 .. 8 /\ 6 \in S
    BY <2>6
  <2>7. CASE S \subseteq 7 .. 8 /\ 7 \in S
    BY <2>7
  <2>8. CASE S \subseteq 8 .. 8
    <3>1. PICK x \in S : TRUE
      OBVIOUS
    <3>2. \A y \in S : x = 8 /\ y = 8
      BY <2>8
    <3> QED
      BY <3>2
  <2> QED
    BY <2>1, <2>2, <2>3, <2>4, <2>5, <2>6, <2>7, <2>8
<1> QED
  BY <1>1 DEF Min

(* The resource a rollback compensates next is one the run created and has *)
(* not compensated, and never the reservation.                             *)
LEMMA NextCompensationFacts ==
  ASSUME NEW r \in Request, Compensable(r) # {}
  PROVE  /\ NextCompensation(r) \in run[r].created \ run[r].compensated
         /\ NextCompensation(r) \in ForwardStage \ {"identity_reserved"}
PROOF
<1>1. Min(Compensable(r)) \in Compensable(r)
  BY FirstPlace, CompensationFacts DEF Compensable
<1> QED
  BY <1>1, CompensationFacts DEF Compensable, NextCompensation

(* A rollback with nothing left to compensate has compensated everything.  *)
LEMMA NothingLeft ==
  ASSUME NEW r \in Request, Compensable(r) = {},
         run[r].created \subseteq ForwardStage \cup Ended, "identity_reserved" \notin run[r].created
  PROVE  run[r].created \ Ended \subseteq run[r].compensated
PROOF
<1>1. \A s \in ForwardStage \ {"identity_reserved"} :
        \E i \in DOMAIN CompensationOrder : CompensationOrder[i] = s
  BY CompensationFacts
<1> QED
  BY <1>1 DEF Compensable

----------------------------------------------------------------------------
(* What a step of one request's workflow leaves alone. *)

(* A step of r's workflow writes r's own records ...                       *)
Own(r) ==
  /\ pc' = [pc EXCEPT ![r] = pc'[r]]
  /\ run' = [run EXCEPT ![r] = run'[r]]
  /\ ledger' = [ledger EXCEPT ![r] = ledger'[r]]
  /\ minted' = [minted EXCEPT ![r] = minted'[r]]
  /\ unsaved' = [unsaved EXCEPT ![r] = unsaved'[r]]
  /\ result' = [result EXCEPT ![r] = result'[r]]
  /\ issued' = [issued EXCEPT ![r] = issued'[r]]

(* ... and takes neither the reservation nor the Soul from its holder.     *)
Elsewhere(r) ==
  \A q \in Request \ {r} :
    /\ reservation' = q <=> reservation = q
    /\ soul' = SoulOf(q) => soul = SoulOf(q)
    /\ reservation = q => /\ soul'.by = soul.by
                          /\ soul'.status = "active" => soul.status = "active"

(* The invariant has the run's type invariant in it.                       *)
LEMMA IInvTypeOK == IInv => TypeOK
BY DEF IInv, Shapes, Agent, Typed, Local, Works, TypeOK, Purging, Entering

(* A request nobody touches keeps its part of the invariant.               *)
LEMMA Untouched ==
  ASSUME NEW q \in Request, Typed(q), Local(q),
         pc'[q] = pc[q], run'[q] = run[q], ledger'[q] = ledger[q],
         minted'[q] = minted[q], unsaved'[q] = unsaved[q],
         result'[q] = result[q], issued'[q] = issued[q],
         reservation' = q <=> reservation = q,
         soul' = SoulOf(q) => soul = SoulOf(q),
         reservation = q => soul'.by = soul.by /\ (soul'.status = "active" => soul.status = "active")
  PROVE  Typed(q)' /\ Local(q)'
PROOF
<1>1. Typed(q)'
  BY DEF Typed
<1>2. HasRun(q)' = HasRun(q) /\ HasLedger(q)' = HasLedger(q) /\ Target(q)' = Target(q)
      /\ Position(q)' = Position(q) /\ Compensable(q)' = Compensable(q)
      /\ \A s : Completed(q, s)' = Completed(q, s)
  BY DEF HasRun, HasLedger, Target, Position, Compensable, Completed
<1>3. NextCompensation(q)' = NextCompensation(q)
  BY <1>2 DEF NextCompensation
<1>4. Ids(q)' /\ Rests(q)'
  BY <1>2 DEF Local, Durable, Ids, Rests
<1>5. Holds(q)'
  BY <1>2 DEF Local, Durable, Holds
<1>6. Rolls(q)' /\ Results(q)'
  BY <1>2 DEF Local, Durable, Rolls, Results
<1>7. Works(q, pc[q])' /\ Place(q, pc[q])'
  BY <1>2 DEF Local, Works, Place
<1>8. Stands(q, pc[q])'
  BY <1>2, <1>3 DEF Local, Stands
<1>9. Keys(q, pc[q])'
  BY <1>2 DEF Local, Keys, Unmade
<1> QED
  BY <1>1, <1>4, <1>5, <1>6, <1>7, <1>8, <1>9 DEF Local, Durable

(* So a step need only be looked at where it works.                        *)
LEMMA StepOf ==
  ASSUME IInv, NEW r \in Request, Own(r), Elsewhere(r), Agent', Typed(r)', Local(r)'
  PROVE  IInv'
PROOF
<1>1. Shapes'
  BY DEF IInv, Shapes, Own
<1>2. ASSUME NEW q \in Request, q # r
      PROVE  Typed(q)' /\ Local(q)'
  <2>1. /\ pc'[q] = pc[q] /\ run'[q] = run[q] /\ ledger'[q] = ledger[q]
        /\ minted'[q] = minted[q] /\ unsaved'[q] = unsaved[q]
        /\ result'[q] = result[q] /\ issued'[q] = issued[q]
    BY <1>2 DEF IInv, Shapes, Own
  <2>2. Typed(q) /\ Local(q)
    BY DEF IInv
  <2> QED
    BY <1>2, <2>1, <2>2, Untouched DEF Elsewhere
<1> QED
  BY <1>1, <1>2 DEF IInv

(* A step that touches only the workflow's records.                        *)
LEMMA QuietStep ==
  ASSUME IInv, NEW r \in Request, NEW p \in PC,
         NEW x \in RunRecord \cup {NoRun}, NEW y \in LedgerRecord \cup {NoLedger},
         Go(r, p), SaveRun(r, x), SaveLedger(r, y),
         UNCHANGED world, faults' \in 0 .. MaxFaults, Local(r)'
  PROVE  IInv'
PROOF
<1>1. Own(r)
  BY DEF Own, IInv, Shapes, Go, SaveRun, SaveLedger, world
<1>2. Elsewhere(r)
  BY DEF Elsewhere, world
<1>3. Agent'
  BY DEF Agent, LiveSoulReserved, IInv, world
<1>4. Typed(r)'
  BY DEF IInv, Shapes, Typed, Go, SaveRun, SaveLedger, world
<1> QED
  BY <1>1, <1>2, <1>3, <1>4, StepOf

(* A step that only moves the workflow on.                                 *)
LEMMA Move ==
  ASSUME IInv, NEW r \in Request, NEW p \in PC, Go(r, p),
         UNCHANGED <<run, ledger, world>>, faults' \in 0 .. MaxFaults,
         Works(r, p), Place(r, p), Stands(r, p), Keys(r, p)
  PROVE  IInv'
PROOF
<1>1. SaveRun(r, run[r]) /\ SaveLedger(r, ledger[r])
  BY DEF IInv, Shapes, SaveRun, SaveLedger
<1>2. run[r] \in RunRecord \cup {NoRun} /\ ledger[r] \in LedgerRecord \cup {NoLedger}
  BY DEF IInv, Typed
<1>3. pc'[r] = p
  BY DEF IInv, Shapes, Go
<1>4. Durable(r)'
  BY DEF IInv, Local, Durable, Ids, Rests, Holds, Rolls, Results, HasRun, HasLedger, Completed, Position, world
<1>5. Works(r, pc[r])' /\ Place(r, pc[r])'
  BY <1>3 DEF Works, Place, HasRun, HasLedger, Target, world
<1>6. Compensable(r)' = Compensable(r)
  BY DEF Compensable
<1>7. Stands(r, pc[r])' /\ Keys(r, pc[r])'
  BY <1>3, <1>6 DEF Stands, Keys, Unmade, HasLedger, Completed, Target, NextCompensation, world
<1>8. Local(r)'
  BY <1>4, <1>5, <1>7 DEF Local
<1> QED
  BY <1>1, <1>2, <1>8, QuietStep

----------------------------------------------------------------------------
(* What the invariant says at a step. *)

(* The records of a request are there and well-formed.                     *)
LEMMA Here ==
  ASSUME IInv, NEW r \in Request
  PROVE  /\ Typed(r) /\ Durable(r) /\ Agent
         /\ Works(r, pc[r]) /\ Place(r, pc[r]) /\ Stands(r, pc[r]) /\ Keys(r, pc[r])
         /\ HasRun(r) => run[r] \in RunRecord
         /\ HasLedger(r) => ledger[r] \in LedgerRecord
         /\ pc[r] \notin Entering \cup Purging =>
              HasRun(r) /\ HasLedger(r) /\ run[r].id = ledger[r].id
         /\ pc[r] # "save_key" => minted[r] + Unmade(r) <= issued[r] + unsaved[r]
         /\ faults \in 0 .. MaxFaults
PROOF
<1>1. Typed(r) /\ Local(r) /\ Agent
  BY DEF IInv
<1>2. HasRun(r) => run[r] \in RunRecord
  BY <1>1 DEF Typed, HasRun
<1>3. HasLedger(r) => ledger[r] \in LedgerRecord
  BY <1>1 DEF Typed, HasLedger
<1>4. pc[r] \notin Entering \cup Purging =>
              HasRun(r) /\ HasLedger(r) /\ run[r].id = ledger[r].id
  BY <1>1 DEF Local, Works, Entering, Purging
<1>5. pc[r] # "save_key" => minted[r] + Unmade(r) <= issued[r] + unsaved[r]
  BY <1>1 DEF Local, Keys
<1> QED
  BY <1>1, <1>2, <1>3, <1>4, <1>5 DEF Local, Agent

(* An observed step before running is recorded complete, and an observed   *)
(* projection is an active Soul.                                           *)
LEMMA Matching ==
  ASSUME NEW r \in Request, NEW s, Observe(r, s) = "matching"
  PROVE  /\ s # "running" => Completed(r, s)
         /\ s = "running" => soul = SoulOf(r) /\ ledger[r].soul
BY DEF Observe

(* A conflict is of the reservation, or of nothing.                        *)
LEMMA Observations ==
  ASSUME NEW r \in Request, NEW s
  PROVE  Observe(r, s) \in {"matching", "absent", "conflict", "error"}
BY DEF Observe

(* A run in the forward order is of the request that holds the agent id.   *)
LEMMA Reserved ==
  ASSUME IInv, NEW r \in Request, HasRun(r), run[r].stage \in ForwardStage
  PROVE  reservation = r
PROOF
<1>1. Rank(run[r].stage) \in 1 .. 9
  BY RankFacts
<1>2. Position(r) = Rank(run[r].stage)
  BY StageKinds DEF Position
<1>3. Completed(r, Forward[1])
  BY <1>1, <1>2, Here DEF Durable, Rests
<1> QED
  BY <1>3, Ends, Here DEF Durable, Holds

(* A step that moves on from one place to another of the same workflow.    *)
LEMMA MoveOn ==
  ASSUME IInv, NEW r \in Request, NEW p \in PC \ (Entering \cup Purging \cup {"save_key"}),
         Go(r, p), UNCHANGED <<run, ledger, world>>, faults' \in 0 .. MaxFaults,
         pc[r] \notin Entering \cup Purging \cup {"save_key"},
         Place(r, p), Stands(r, p)
  PROVE  IInv'
PROOF
<1>1. Works(r, p)
  BY Here DEF Works, Entering, Purging
<1>2. Keys(r, p)
  BY Here DEF Keys
<1> QED
  BY <1>1, <1>2, Move

(* A step that returns: the lock is free and the records are as they were. *)
LEMMA Return ==
  ASSUME IInv, NEW r \in Request, Go(r, "idle"), UNCHANGED <<run, ledger, world>>,
         faults' \in 0 .. MaxFaults, pc[r] # "save_key"
  PROVE  IInv'
PROOF
<1>1. Works(r, "idle") /\ Place(r, "idle") /\ Stands(r, "idle")
  BY DEF Works, Place, Stands, Loop, Purging, Entering
<1>2. Keys(r, "idle") /\ "idle" \in PC
  BY Here DEF Keys, PC
<1> QED
  BY <1>1, <1>2, Move

(* A save of the run under the lock, and what it leaves as it was.         *)
LEMMA SavedRun ==
  ASSUME IInv, NEW r \in Request, NEW p, NEW x \in RunRecord,
         Go(r, p), SaveRun(r, x), UNCHANGED <<ledger, world>>
  PROVE  /\ pc'[r] = p /\ run'[r] = x /\ ledger'[r] = ledger[r]
         /\ HasRun(r)' /\ HasLedger(r)' = HasLedger(r)
         /\ \A s : Completed(r, s)' = Completed(r, s)
         /\ reservation' = reservation /\ soul' = soul /\ result'[r] = result[r]
         /\ minted'[r] = minted[r] /\ unsaved'[r] = unsaved[r] /\ issued'[r] = issued[r]
PROOF
<1>1. pc'[r] = p /\ run'[r] = x /\ ledger'[r] = ledger[r]
  BY DEF IInv, Shapes, Go, SaveRun
<1>2. HasRun(r)'
  BY <1>1, Missing DEF HasRun
<1> QED
  BY <1>1, <1>2 DEF HasLedger, Completed, world

(* The places a workflow reaches by saving its run: all that is asked of   *)
(* the new record is its lineage and its stage.                            *)
LEMMA RunStep ==
  ASSUME IInv, NEW r \in Request,
         NEW p \in PC \ ({"prepare", "start", "save_key"} \cup Purging), NEW x \in RunRecord,
         pc[r] \notin Entering \cup Purging \cup {"save_key"},
         Go(r, p), SaveRun(r, x), UNCHANGED <<ledger, world>>, faults' \in 0 .. MaxFaults,
         x.id = run[r].id,
         Rests(r)', Rolls(r)', Results(r)', Place(r, p)', Stands(r, p)'
  PROVE  IInv'
PROOF
<1>1. HasRun(r) /\ HasLedger(r) /\ run[r].id = ledger[r].id /\ ledger[r] \in LedgerRecord
  BY Here
<1>2. Ids(r)'
  BY <1>1, Here, SavedRun DEF Durable, Ids
<1>3. Holds(r)'
  BY <1>1, Here, SavedRun DEF Durable, Holds
<1>4. Works(r, p)'
  BY <1>1, SavedRun DEF Works, Purging, Entering
<1>5. Unmade(r)' = Unmade(r)
  BY SavedRun DEF Unmade
<1>6. Keys(r, p)'
  BY <1>5, Here, SavedRun DEF Keys
<1>7. Local(r)'
  BY <1>2, <1>3, <1>4, <1>6, SavedRun DEF Local, Durable
<1>8. SaveLedger(r, ledger[r])
  BY DEF IInv, Shapes, SaveLedger
<1> QED
  BY <1>1, <1>7, <1>8, QuietStep

(* A new record of the ledger under the lock, and what it leaves as it was.*)
LEMMA SavedLedger ==
  ASSUME IInv, NEW r \in Request, NEW p, NEW y \in LedgerRecord,
         Go(r, p), SaveLedger(r, y), UNCHANGED <<run, world>>
  PROVE  /\ pc'[r] = p /\ run'[r] = run[r] /\ ledger'[r] = y
         /\ HasLedger(r)' /\ HasRun(r)' = HasRun(r) /\ Target(r)' = Target(r)
         /\ Position(r)' = Position(r) /\ Compensable(r)' = Compensable(r)
         /\ NextCompensation(r)' = NextCompensation(r)
         /\ \A s : Completed(r, s)' <=> s \in y.complete
         /\ reservation' = reservation /\ soul' = soul /\ result'[r] = result[r]
         /\ minted'[r] = minted[r] /\ unsaved'[r] = unsaved[r] /\ issued'[r] = issued[r]
PROOF
<1>1. pc'[r] = p /\ run'[r] = run[r] /\ ledger'[r] = y
  BY DEF IInv, Shapes, Go, SaveLedger
<1>2. HasLedger(r)'
  BY <1>1, Missing DEF HasLedger
<1>3. Compensable(r)' = Compensable(r)
  BY <1>1 DEF Compensable
<1> QED
  BY <1>1, <1>2, <1>3 DEF HasRun, Completed, Target, Position, NextCompensation, world

(* The places a workflow reaches by saving its ledger.                     *)
LEMMA LedgerStep ==
  ASSUME IInv, NEW r \in Request,
         NEW p \in PC \ ({"prepare", "start", "save_key"} \cup Purging), NEW y \in LedgerRecord,
         pc[r] \notin Entering \cup Purging,
         Go(r, p), SaveLedger(r, y), UNCHANGED <<run, world>>, faults' \in 0 .. MaxFaults,
         y.id = ledger[r].id, ledger[r].complete \subseteq y.complete,
         Holds(r)', Rolls(r)', Results(r)', Place(r, p)', Stands(r, p)', Keys(r, p)'
  PROVE  IInv'
PROOF
<1>1. HasRun(r) /\ HasLedger(r) /\ run[r].id = ledger[r].id /\ run[r] \in RunRecord
  BY Here
<1>2. Ids(r)'
  BY <1>1, Here, SavedLedger DEF Durable, Ids
<1>3. \A s : Completed(r, s) => Completed(r, s)'
  BY SavedLedger DEF Completed
<1>4. Rests(r)'
  BY <1>1, <1>3, Here, SavedLedger DEF Durable, Rests
<1>5. Works(r, p)'
  BY <1>1, SavedLedger DEF Works, Purging, Entering
<1>6. Local(r)'
  BY <1>2, <1>4, <1>5, SavedLedger DEF Local, Durable
<1>7. SaveRun(r, run[r])
  BY DEF IInv, Shapes, SaveRun
<1> QED
  BY <1>1, <1>6, <1>7, QuietStep

----------------------------------------------------------------------------
(* Entry points. *)

(* Receiving a request takes the lock and nothing else.                    *)
LEMMA ReceiveKeeps == ASSUME IInv, NEW r \in Request, Receive(r) PROVE IInv'
PROOF
<1>1. Works(r, "prepare") /\ Place(r, "prepare") /\ Stands(r, "prepare")
  BY DEF Receive, Works, Place, Stands, Loop, Purging, Entering
<1>2. Keys(r, "prepare") /\ "prepare" \in PC
  BY Here DEF Receive, At, Keys, PC
<1> QED
  BY <1>1, <1>2, Here, Move DEF Receive, Go

(* A command needs the run and the ledger of one run id.                   *)
LEMMA OperateKeeps == ASSUME IInv, NEW r \in Request, Operate(r) PROVE IInv'
PROOF
<1>1. PICK p \in {"reconcile", "abort"} : Go(r, p)
  BY DEF Operate
<1>2. Works(r, p) /\ Place(r, p) /\ Stands(r, p)
  BY DEF Operate, Works, Place, Stands, Loop, Purging, Entering
<1>3. Keys(r, p) /\ p \in PC
  BY Here DEF Operate, At, Keys, PC
<1> QED
  BY <1>1, <1>2, <1>3, Here, Move DEF Operate

(* A refusal of the handler touches no workflow and no result of the saga. *)
LEMMA RefuseKeeps == ASSUME IInv, NEW r \in Request, Refuse(r) PROVE IInv'
PROOF
<1>1. /\ pc' = pc /\ run' = run /\ ledger' = ledger /\ reservation' = reservation
      /\ unit' = unit /\ binding' = binding /\ intent' = intent /\ minted' = minted
      /\ unsaved' = unsaved /\ soul' = soul /\ issued' = issued
      /\ result'[r] = result[r] \cup {"refused"}
  BY DEF Refuse, IInv, Shapes
<1>2. Own(r)
  BY DEF Refuse, IInv, Shapes, Own
<1>3. Elsewhere(r)
  BY <1>1 DEF Elsewhere
<1>4. faults' \in 0 .. MaxFaults
  BY Here, ProvisioningAssumption DEF Refuse, Fault
<1>5. Agent'
  BY <1>1, <1>4, Here DEF Agent, LiveSoulReserved
<1>6. Typed(r)'
  BY <1>1, Here DEF Typed
<1>7. Ids(r)' /\ Rests(r)' /\ Holds(r)' /\ Rolls(r)'
  BY <1>1, Here DEF Durable, Ids, Rests, Holds, Rolls, HasRun, HasLedger, Completed, Position
<1>8. Results(r)'
  BY <1>1, Here DEF Durable, Results, HasRun, HasLedger
<1>9. Works(r, pc[r])' /\ Place(r, pc[r])'
  BY <1>1, Here DEF Works, Place, HasRun, HasLedger, Target
<1>10. Compensable(r)' = Compensable(r)
  BY <1>1 DEF Compensable
<1>11. Stands(r, pc[r])' /\ Keys(r, pc[r])'
  BY <1>1, <1>10, Here DEF Stands, Keys, Unmade, HasLedger, Completed, Target, NextCompensation
<1>12. Local(r)'
  BY <1>7, <1>8, <1>9, <1>11 DEF Local, Durable
<1> QED
  BY <1>2, <1>3, <1>5, <1>6, <1>12, StepOf

(* Engine.Start with a run: it goes on only with the run of its ledger.    *)
LEMMA StartFound ==
  ASSUME IInv, NEW r \in Request, Start(r), HasRun(r)
  PROVE  IInv'
PROOF
<1>1. CASE run[r].id = ledger[r].id
  <2>1. Go(r, "reconcile") /\ UNCHANGED <<run, ledger, world, faults>> /\ pc[r] = "start"
    BY <1>1 DEF Start, At
  <2>2. Works(r, "reconcile") /\ Place(r, "reconcile") /\ Stands(r, "reconcile")
    BY <1>1, <2>1, Here DEF Works, Place, Stands, Loop, Purging, Entering
  <2>3. Keys(r, "reconcile") /\ "reconcile" \in PC
    BY <2>1, Here DEF Keys, PC
  <2> QED
    BY <2>1, <2>2, <2>3, Here, Move
<1>2. CASE run[r].id # ledger[r].id
  BY <1>2, Here, Return DEF Start, At
<1> QED
  BY <1>1, <1>2

----------------------------------------------------------------------------
(* The forward loop. *)

(* What an observation leads to: on to the checkpoint, to the effect or to *)
(* the rollback.                                                           *)
LEMMA ObservedMove ==
  ASSUME IInv, NEW r \in Request, pc[r] \in {"inspect", "verify"},
         NEW p \in {"checkpoint", "apply", "rollback"}, Go(r, p),
         p = "checkpoint" => Observe(r, Target(r)) = "matching",
         UNCHANGED <<run, ledger, world, faults>>
  PROVE  IInv'
PROOF
<1>1. run[r].stage \in Before
  BY Here DEF Place, Loop
<1>2. Place(r, p)
  BY <1>1 DEF Place, Loop, Purging
<1>3. Stands(r, p)
  BY Matching DEF Stands
<1>4. p \in PC \ (Entering \cup Purging \cup {"save_key"})
  BY DEF PC, Entering, Purging
<1>5. pc[r] \notin Entering \cup Purging \cup {"save_key"}
  BY DEF Entering, Purging
<1> QED
  BY <1>2, <1>3, <1>4, <1>5, Here, MoveOn

(* A new stage, with the stage to resume, in a run's record.               *)
Staged(x, s, t) == [x EXCEPT !.stage = s, !.resume = t]

LEMMA RunStage ==
  ASSUME NEW x \in RunRecord, NEW s \in Stage, NEW t \in ForwardStage \cup {"requested"}
  PROVE  /\ Staged(x, s, t) \in RunRecord /\ Staged(x, s, t) # NoRun
         /\ Staged(x, s, t).stage = s /\ Staged(x, s, t).resume = t
         /\ Staged(x, s, t).id = x.id
         /\ Staged(x, s, t).created = x.created
         /\ Staged(x, s, t).compensated = x.compensated
PROOF
<1>1. Staged(x, s, t) \in RunRecord
  BY DEF RunRecord, Staged
<1>2. Staged(x, s, t) # NoRun
  BY <1>1, Missing
<1> QED
  BY <1>1, <1>2 DEF RunRecord, Staged

(* A step that fails to be observed is remembered as the one to resume.    *)
LEMMA FailKeeps ==
  ASSUME IInv, NEW r \in Request, pc[r] \in {"inspect", "verify"},
         FailRecoverable(r, Target(r)), UNCHANGED <<ledger, world>>,
         faults' \in 0 .. MaxFaults
  PROVE  IInv'
PROOF
<1> DEFINE x == Staged(run[r], "failed_recoverable", Target(r))
<1>1. HasRun(r) /\ HasLedger(r) /\ run[r].stage \in Before /\ run[r] \in RunRecord
  BY Here DEF Place, Loop, Entering, Purging
<1>2. Target(r) \in ForwardStage /\ Rank(Target(r)) - 1 = Rank(run[r].stage)
  BY <1>1, NextFacts DEF Target
<1>0. Go(r, "idle") /\ SaveRun(r, x)
  BY DEF FailRecoverable, Staged
<1>s. "failed_recoverable" \in Stage /\ Target(r) \in ForwardStage \cup {"requested"}
  BY <1>2, StageKinds
<1>3. x \in RunRecord /\ x # NoRun
  BY <1>1, <1>s, RunStage
<1>4. /\ x.stage = "failed_recoverable" /\ x.resume = Target(r) /\ x.id = run[r].id
      /\ x.created = run[r].created /\ x.compensated = run[r].compensated
  BY <1>1, <1>s, RunStage
<1> HIDE DEF x
<1>5. pc'[r] = "idle" /\ run'[r] = x /\ ledger'[r] = ledger[r]
  BY <1>0 DEF IInv, Shapes, Go, SaveRun
<1>6. HasRun(r)' /\ HasLedger(r)' /\ \A s : Completed(r, s)' = Completed(r, s)
  BY <1>1, <1>3, <1>5 DEF HasRun, HasLedger, Completed
<1>7. Position(r)' = Position(r)
  BY <1>1, <1>2, <1>4, <1>5, StageKinds DEF Position
<1>8. Ids(r)' /\ Rests(r)' /\ Holds(r)'
  BY <1>1, <1>2, <1>4, <1>5, <1>6, <1>7, Here DEF Durable, Ids, Rests, Holds, world
<1>9. run[r].compensated = {} /\ ~(ledger[r].success # "none")
  BY <1>1, Here, StageKinds DEF Durable, Rolls, Results
<1>10. Rolls(r)'
  BY <1>1, <1>4, <1>5, <1>6, <1>9, Here, StageKinds DEF Durable, Rolls, Ended
<1>11. Results(r)'
  BY <1>1, <1>5, <1>6, <1>9, Here DEF Durable, Results, world
<1>12. Works(r, "idle")' /\ Place(r, "idle")' /\ Stands(r, "idle")'
  BY DEF Works, Place, Stands, Loop, Purging, Entering
<1>13. Keys(r, "idle")'
  BY <1>5, <1>1, <1>6, Here DEF Keys, Unmade, world
<1>14. Local(r)'
  BY <1>5, <1>8, <1>10, <1>11, <1>12, <1>13 DEF Local, Durable
<1>15. SaveLedger(r, ledger[r]) /\ "idle" \in PC /\ ledger[r] \in LedgerRecord
  BY <1>1, Here DEF IInv, Shapes, SaveLedger, PC
<1> QED
  BY <1>0, <1>3, <1>14, <1>15, QuietStep

LEMMA InspectKeeps == ASSUME IInv, NEW r \in Request, Inspect(r) PROVE IInv'
PROOF
<1>1. pc[r] = "inspect" /\ UNCHANGED <<ledger, world, faults>>
  BY DEF Inspect, At
<1>2. CASE FailRecoverable(r, Target(r))
  BY <1>1, <1>2, FailKeeps, Here
<1>3. CASE UNCHANGED run /\ \E p \in {"checkpoint", "apply", "rollback"} :
        Go(r, p) /\ (p = "checkpoint" => Observe(r, Target(r)) = "matching")
  BY <1>1, <1>3, ObservedMove
<1> QED
  BY <1>2, <1>3 DEF Inspect

LEMMA VerifyKeeps == ASSUME IInv, NEW r \in Request, Verify(r) PROVE IInv'
PROOF
<1>1. pc[r] = "verify" /\ UNCHANGED <<ledger, world, faults>>
  BY DEF Verify, At
<1>2. CASE FailRecoverable(r, Target(r))
  BY <1>1, <1>2, FailKeeps, Here
<1>3. CASE UNCHANGED run /\ \E p \in {"checkpoint", "apply", "rollback"} :
        Go(r, p) /\ (p = "checkpoint" => Observe(r, Target(r)) = "matching")
  BY <1>1, <1>3, ObservedMove
<1> QED
  BY <1>2, <1>3 DEF Verify

LEMMA InspectFailsKeeps == ASSUME IInv, NEW r \in Request, InspectFails(r) PROVE IInv'
PROOF
<1>1. faults' \in 0 .. MaxFaults
  BY Here, ProvisioningAssumption DEF InspectFails, Fault
<1> QED
  BY <1>1, FailKeeps DEF InspectFails

(* The lineage of a verified step is saved: the reservation is never among *)
(* what the run has created.                                               *)
LEMMA CheckpointKeeps == ASSUME IInv, NEW r \in Request, Checkpoint(r) PROVE IInv'
PROOF
<1> DEFINE x == [run[r] EXCEPT !.created = run[r].created \cup ({Target(r)} \cap Owned(r))]
<1>1. /\ pc[r] = "checkpoint" /\ HasRun(r) /\ HasLedger(r) /\ run[r] \in RunRecord
      /\ run[r].stage \in Before /\ ledger[r] \in LedgerRecord
      /\ pc[r] \notin Entering \cup Purging \cup {"save_key"}
  BY Here DEF Checkpoint, At, Place, Loop, Entering, Purging
<1>2. Target(r) \in ForwardStage
  BY <1>1, NextFacts DEF Target
<1>3. x \in RunRecord
  BY <1>1, <1>2 DEF RunRecord
<1>4. /\ x.stage = run[r].stage /\ x.resume = run[r].resume /\ x.id = run[r].id
      /\ x.created = run[r].created \cup ({Target(r)} \cap Owned(r))
      /\ x.compensated = run[r].compensated
  BY <1>1 DEF RunRecord
<1>5. Go(r, "advance") /\ SaveRun(r, x) /\ UNCHANGED <<ledger, world>> /\ faults' = faults
  BY DEF Checkpoint
<1> HIDE DEF x
<1>6. Position(r)' = Position(r) /\ Target(r)' = Target(r)
  BY <1>3, <1>4, <1>5, SavedRun DEF Position, Target
<1>7. Rests(r)'
  BY <1>1, <1>3, <1>4, <1>5, <1>6, Here, SavedRun DEF Durable, Rests
<1>8. "identity_reserved" \notin Owned(r) /\ "identity_reserved" \notin x.created
  BY <1>1, <1>4, Here DEF Durable, Rolls, Owned
<1>s. run[r].stage \notin Ended /\ run[r].stage # "rolled_back"
  BY <1>1, StageKinds DEF Ended
<1>t. "running" \in x.created => ledger[r].soul
  <2>1. CASE "running" \in run[r].created
    BY <1>1, <1>s, <2>1, Here DEF Durable, Rolls
  <2>2. CASE Target(r) = "running"
    BY <1>1, <2>2, Here DEF Stands
  <2> QED
    BY <1>4, <2>1, <2>2
<1>9. Rolls(r)'
  BY <1>1, <1>3, <1>4, <1>5, <1>8, <1>s, <1>t, Here, SavedRun DEF Durable, Rolls
<1>10. Results(r)'
  BY <1>1, <1>3, <1>4, <1>5, Here, SavedRun DEF Durable, Results
<1>11. Place(r, "advance")'
  BY <1>1, <1>3, <1>4, <1>5, SavedRun DEF Place, Purging
<1>12. Stands(r, "advance")'
  BY <1>1, <1>3, <1>5, <1>6, Here, SavedRun DEF Stands
<1>13. "advance" \in PC \ ({"prepare", "start", "save_key"} \cup Purging)
  BY DEF PC, Purging
<1> QED
  BY <1>1, <1>3, <1>4, <1>5, <1>7, <1>9, <1>10, <1>11, <1>12, <1>13, Here, RunStep

(* The stage moves on to the step that was checkpointed, so that it rests  *)
(* on one record more.                                                     *)
LEMMA AdvanceKeeps == ASSUME IInv, NEW r \in Request, Advance(r) PROVE IInv'
PROOF
<1> DEFINE x == Staged(run[r], Target(r), "requested")
<1>1. /\ pc[r] = "advance" /\ HasRun(r) /\ HasLedger(r) /\ run[r] \in RunRecord
      /\ run[r].stage \in Before
      /\ pc[r] \notin Entering \cup Purging \cup {"save_key"}
  BY Here DEF Advance, At, Place, Loop, Entering, Purging
<1>2. /\ Target(r) \in ForwardStage /\ Rank(Target(r)) = Rank(run[r].stage) + 1
      /\ Target(r) = Forward[Rank(run[r].stage) + 1] /\ Rank(run[r].stage) \in 0 .. 8
      /\ Target(r) = "running" <=> Rank(run[r].stage) = 8
  BY <1>1, NextFacts DEF Target
<1>3. Target(r) \in Stage /\ "requested" \in ForwardStage \cup {"requested"}
  BY <1>2, StageKinds
<1>4. x \in RunRecord /\ x.id = run[r].id
  BY <1>1, <1>3, RunStage
<1>5. x.stage = Target(r) /\ x.created = run[r].created /\ x.compensated = run[r].compensated
  BY <1>1, <1>3, RunStage
<1>0. PICK p \in {"deliver", "inspect"} : Go(r, p) /\ (p = "deliver" <=> Target(r) = "running")
  BY DEF Advance
<1>6. Go(r, p) /\ SaveRun(r, x) /\ UNCHANGED <<ledger, world>> /\ faults' = faults
  BY <1>0 DEF Advance, Transition, Staged
<1> HIDE DEF x
<1>7. Position(r) = Rank(run[r].stage) /\ Position(r)' = Rank(run[r].stage) + 1
  BY <1>1, <1>2, <1>4, <1>5, <1>6, SavedRun, StageKinds DEF Position
<1>8. \A i \in 1 .. Rank(run[r].stage) : i # 9 => Completed(r, Forward[i])
  BY <1>1, <1>7, Here DEF Durable, Rests
<1>9. Target(r) # "running" => Completed(r, Target(r))
  BY <1>1, Here DEF Stands
<1>10. \A i \in 1 .. (Rank(run[r].stage) + 1) : i # 9 => Completed(r, Forward[i])
  BY <1>2, <1>8, <1>9
<1>11. Rests(r)'
  BY <1>2, <1>4, <1>5, <1>6, <1>7, <1>10, SavedRun, StageKinds DEF Rests
<1>12. run[r].compensated = {} /\ ledger[r].success = "none"
  BY <1>1, Here, StageKinds DEF Durable, Rolls, Results
<1>13. Rolls(r)'
  BY <1>1, <1>2, <1>4, <1>5, <1>6, <1>12, Here, SavedRun, StageKinds DEF Durable, Rolls, Ended
<1>14. Results(r)'
  BY <1>1, <1>4, <1>6, <1>12, Here, SavedRun DEF Durable, Results
<1>15. Place(r, p)' /\ Stands(r, p)'
  BY <1>0, <1>2, <1>4, <1>5, <1>6, SavedRun DEF Place, Stands, Loop, Purging, Before
<1>16. p \in PC \ ({"prepare", "start", "save_key"} \cup Purging)
  BY DEF PC, Purging
<1> QED
  BY <1>1, <1>4, <1>6, <1>11, <1>13, <1>14, <1>15, <1>16, Here, RunStep

(* A run that failed resumes from the stage before, on the same records.   *)
LEMMA ReconcileResumes ==
  ASSUME IInv, NEW r \in Request, Reconcile(r), run[r].stage = "failed_recoverable"
  PROVE  IInv'
PROOF
<1> DEFINE x == Staged(run[r], PreviousStage(run[r].resume), "requested")
<1>1. /\ pc[r] = "reconcile" /\ HasRun(r) /\ HasLedger(r) /\ run[r] \in RunRecord
      /\ pc[r] \notin Entering \cup Purging \cup {"save_key"}
  BY Here DEF Reconcile, At, Entering, Purging
<1>2. run[r].resume \in ForwardStage
  BY <1>1, Here DEF Durable, Rests
<1>3. PreviousStage(run[r].resume) \in Before
      /\ Rank(PreviousStage(run[r].resume)) = Rank(run[r].resume) - 1
  BY <1>2, PreviousFacts
<1>4. PreviousStage(run[r].resume) \in Stage /\ "requested" \in ForwardStage \cup {"requested"}
  BY <1>3, StageKinds
<1>5. x \in RunRecord /\ x.id = run[r].id
  BY <1>1, <1>4, RunStage
<1>6. x.stage \in Before /\ x.stage = PreviousStage(run[r].resume)
      /\ x.created = run[r].created /\ x.compensated = run[r].compensated
  BY <1>1, <1>3, <1>4, RunStage
<1>7. Go(r, "inspect") /\ SaveRun(r, x) /\ UNCHANGED <<ledger, world>> /\ faults' = faults
  BY StageKinds DEF Reconcile, Transition, Staged
<1> HIDE DEF x
<1>8. Position(r)' = Position(r)
  BY <1>1, <1>3, <1>5, <1>6, <1>7, SavedRun, StageKinds DEF Position
<1>9. Rests(r)'
  BY <1>1, <1>5, <1>6, <1>7, <1>8, Here, SavedRun, StageKinds DEF Durable, Rests
<1>10. run[r].compensated = {} /\ ledger[r].success = "none"
  BY <1>1, Here, StageKinds DEF Durable, Rolls, Results
<1>11. Rolls(r)'
  BY <1>1, <1>5, <1>6, <1>7, <1>10, Here, SavedRun, StageKinds DEF Durable, Rolls, Ended
<1>12. Results(r)'
  BY <1>1, <1>5, <1>7, <1>10, Here, SavedRun DEF Durable, Results
<1>13. Place(r, "inspect")' /\ Stands(r, "inspect")'
  BY <1>5, <1>6, <1>7, SavedRun DEF Place, Stands, Loop, Purging
<1>14. "inspect" \in PC \ ({"prepare", "start", "save_key"} \cup Purging)
  BY DEF PC, Purging
<1> QED
  BY <1>1, <1>5, <1>7, <1>9, <1>11, <1>12, <1>13, <1>14, Here, RunStep

(* Engine.Reconcile.                                                       *)
LEMMA ReconcileKeeps == ASSUME IInv, NEW r \in Request, Reconcile(r) PROVE IInv'
PROOF
<1>1. pc[r] = "reconcile" /\ pc[r] \notin Entering \cup Purging \cup {"save_key"}
  BY DEF Reconcile, At, Entering, Purging
<1>2. CASE run[r].stage = "failed_recoverable"
  BY <1>2, ReconcileResumes
<1>3. CASE run[r].stage # "failed_recoverable"
  <2>1. UNCHANGED <<run, ledger, world, faults>>
    BY <1>3 DEF Reconcile
  <2>2. CASE run[r].stage = "rollback_pending" /\ Go(r, "abort")
    <3>1. Place(r, "abort") /\ Stands(r, "abort")
      BY DEF Place, Stands, Loop, Purging
    <3>2. "abort" \in PC \ (Entering \cup Purging \cup {"save_key"})
      BY DEF PC, Entering, Purging
    <3> QED
      BY <1>1, <2>1, <2>2, <3>1, <3>2, Here, MoveOn
  <2>3. CASE run[r].stage \in Ended \cup {"running"} /\ Go(r, "terminal")
    <3>1. Place(r, "terminal") /\ Stands(r, "terminal")
      BY <2>3 DEF Place, Stands, Loop, Purging
    <3>2. "terminal" \in PC \ (Entering \cup Purging \cup {"save_key"})
      BY DEF PC, Entering, Purging
    <3> QED
      BY <1>1, <2>1, <2>3, <3>1, <3>2, Here, MoveOn
  <2>4. CASE run[r].stage \in Before /\ Go(r, "inspect")
    <3>1. Place(r, "inspect") /\ Stands(r, "inspect")
      BY <2>4 DEF Place, Stands, Loop, Purging
    <3>2. "inspect" \in PC \ (Entering \cup Purging \cup {"save_key"})
      BY DEF PC, Entering, Purging
    <3> QED
      BY <1>1, <2>1, <2>4, <3>1, <3>2, Here, MoveOn
  <2> QED
    BY <1>3, <2>2, <2>3, <2>4 DEF Reconcile, Before
<1> QED
  BY <1>2, <1>3

----------------------------------------------------------------------------
(* Rollback. *)

(* A save of a rollback: the run is no longer in the forward order, and    *)
(* what it has compensated it does not own.                                *)
LEMMA RollingStep ==
  ASSUME IInv, NEW r \in Request, NEW p \in {"abort", "mark", "terminal"}, NEW x \in RunRecord,
         pc[r] \notin Entering \cup Purging \cup {"save_key"}, run[r].stage # "running",
         Go(r, p), SaveRun(r, x), UNCHANGED <<ledger, world>>, faults' \in 0 .. MaxFaults,
         x.id = run[r].id, x.created = run[r].created,
         x.stage \in Ended \cup {"rollback_pending"},
         p = "mark" => x.stage = "rolled_back",
         p = "terminal" => x.stage \in Ended,
         x.compensated \cap ledger[r].owned = {},
         x.stage \notin Ended => run[r].stage \notin Ended,
         "running" \in x.compensated => soul # SoulOf(r),
         x.stage = "rolled_back" => x.created \ Ended \subseteq x.compensated
  PROVE  IInv'
PROOF
<1>1. HasRun(r) /\ HasLedger(r) /\ ledger[r] \in LedgerRecord
  BY Here
<1>2. Position(r)' = 0
  BY SavedRun, StageKinds DEF Position
<1>3. Rests(r)'
  BY <1>2, SavedRun, StageKinds DEF Rests
<1>4. Rolls(r)'
  <2>1. /\ "identity_reserved" \notin x.created
        /\ ledger[r].owned \subseteq ledger[r].complete \ {"identity_reserved", "running"}
        /\ run[r].stage \notin Ended /\ "running" \in x.created => ledger[r].soul
    BY <1>1, Here DEF Durable, Rolls
  <2> QED
    BY <1>1, <2>1, SavedRun DEF Rolls, SoulOf
<1>5. ledger[r].success = "none" /\ "success" \notin result[r]
  BY <1>1, Here DEF Durable, Results
<1>6. Results(r)'
  BY <1>5, SavedRun DEF Results
<1>7. Place(r, p)' /\ Stands(r, p)'
  BY SavedRun DEF Place, Stands, Loop, Purging
<1>8. p \in PC \ ({"prepare", "start", "save_key"} \cup Purging)
  BY DEF PC, Purging
<1> QED
  BY <1>3, <1>4, <1>6, <1>7, <1>8, RunStep

(* The run is marked for rollback before anything is compensated.          *)
LEMMA RollbackKeeps == ASSUME IInv, NEW r \in Request, Rollback(r) PROVE IInv'
PROOF
<1> DEFINE x == [run[r] EXCEPT !.stage = "rollback_pending"]
<1>1. /\ pc[r] \notin Entering \cup Purging \cup {"save_key"} /\ HasRun(r) /\ HasLedger(r)
      /\ run[r].stage \in Before /\ run[r] \in RunRecord
  BY Here DEF Rollback, At, Place, Loop, Entering, Purging
<1>2. /\ "rollback_pending" \in Stage /\ run[r].stage # "running" /\ "rollback_pending" # "rolled_back"
      /\ run[r].stage \notin Ended
  BY <1>1, StageKinds
<1>3. x \in RunRecord /\ x.stage = "rollback_pending" /\ x.id = run[r].id
      /\ x.created = run[r].created /\ x.compensated = run[r].compensated
  BY <1>1, <1>2 DEF RunRecord
<1>4. Go(r, "abort") /\ SaveRun(r, x) /\ UNCHANGED <<ledger, world>> /\ faults' = faults
  BY DEF Rollback
<1>5. /\ run[r].compensated \cap ledger[r].owned = {}
      /\ "running" \in run[r].compensated => soul # SoulOf(r)
  BY <1>1, Here DEF Durable, Rolls
<1> HIDE DEF x
<1> QED
  BY <1>1, <1>2, <1>3, <1>4, <1>5, Here, RollingStep

(* A command's abort is marked likewise; a run that has ended is left.     *)
LEMMA BeginAbortKeeps == ASSUME IInv, NEW r \in Request, BeginAbort(r) PROVE IInv'
PROOF
<1>1. /\ pc[r] = "abort" /\ pc[r] \notin Entering \cup Purging \cup {"save_key"}
      /\ HasRun(r) /\ HasLedger(r) /\ run[r] \in RunRecord
  BY Here DEF BeginAbort, At, Entering, Purging
<1>2. CASE UNCHANGED run /\ Go(r, "idle")
  BY <1>1, <1>2, Here, Return DEF BeginAbort
<1>3. CASE /\ Transition(r, "rollback_pending") /\ UNCHANGED pc
           /\ run[r].stage \notin Ended \cup {"running"}
  <2> DEFINE x == Staged(run[r], "rollback_pending", "requested")
  <2>1. "rollback_pending" \in Stage /\ "requested" \in ForwardStage \cup {"requested"}
        /\ "rollback_pending" # "rolled_back"
    BY StageKinds
  <2>2. x \in RunRecord /\ x.stage = "rollback_pending" /\ x.id = run[r].id
        /\ x.created = run[r].created /\ x.compensated = run[r].compensated
    BY <1>1, <2>1, RunStage
  <2>3. Go(r, "abort") /\ SaveRun(r, x) /\ UNCHANGED <<ledger, world>> /\ faults' = faults
    BY <1>1, <1>3 DEF BeginAbort, Transition, Staged, Go, IInv, Shapes
  <2>4. /\ run[r].compensated \cap ledger[r].owned = {}
        /\ "running" \in run[r].compensated => soul # SoulOf(r)
    BY <1>1, Here DEF Durable, Rolls
  <2> HIDE DEF x
  <2> QED
    BY <1>1, <1>3, <2>1, <2>2, <2>3, <2>4, Here, RollingStep
<1> QED
  BY <1>2, <1>3 DEF BeginAbort

(* A rollback that fails for good keeps what it has done.                  *)
LEMMA FailTerminalKeeps ==
  ASSUME IInv, NEW r \in Request, pc[r] = "abort", run[r].stage = "rollback_pending",
         FailTerminal(r), UNCHANGED <<ledger, world>>, faults' \in 0 .. MaxFaults
  PROVE  IInv'
PROOF
<1> DEFINE x == [run[r] EXCEPT !.stage = "failed_terminal", !.retain = TRUE]
<1>1. /\ pc[r] \notin Entering \cup Purging \cup {"save_key"}
      /\ HasRun(r) /\ HasLedger(r) /\ run[r] \in RunRecord
  BY Here DEF Entering, Purging
<1>2. "failed_terminal" \in Stage /\ "failed_terminal" \in Ended /\ "failed_terminal" # "rolled_back"
  BY StageKinds DEF Ended
<1>3. x \in RunRecord /\ x.stage = "failed_terminal" /\ x.id = run[r].id
      /\ x.created = run[r].created /\ x.compensated = run[r].compensated
  BY <1>1, <1>2 DEF RunRecord
<1>4. Go(r, "terminal") /\ SaveRun(r, x)
  BY DEF FailTerminal
<1>5. /\ run[r].compensated \cap ledger[r].owned = {}
      /\ "running" \in run[r].compensated => soul # SoulOf(r)
  BY <1>1, Here DEF Durable, Rolls
<1> HIDE DEF x
<1> QED
  BY <1>1, <1>2, <1>3, <1>4, <1>5, Here, RollingStep

LEMMA CompensateFailsKeeps == ASSUME IInv, NEW r \in Request, CompensateFails(r) PROVE IInv'
PROOF
<1>1. faults' \in 0 .. MaxFaults
  BY Here, ProvisioningAssumption DEF CompensateFails, Fault
<1> QED
  BY <1>1, FailTerminalKeeps DEF CompensateFails, At

(* A resource the run does not own any more is recorded compensated.       *)
LEMMA CompensatedKeeps ==
  ASSUME IInv, NEW r \in Request, pc[r] \in {"abort", "compensated"},
         run[r].stage = "rollback_pending", NEW s \in ForwardStage, s \notin ledger[r].owned,
         s = "running" => soul # SoulOf(r),
         SaveRun(r, [run[r] EXCEPT !.compensated = @ \cup {s}]),
         Go(r, "abort"), UNCHANGED <<ledger, world, faults>>
  PROVE  IInv'
PROOF
<1> DEFINE x == [run[r] EXCEPT !.compensated = run[r].compensated \cup {s}]
<1>1. /\ pc[r] \notin Entering \cup Purging \cup {"save_key"}
      /\ HasRun(r) /\ HasLedger(r) /\ run[r] \in RunRecord
  BY Here DEF Entering, Purging
<1>2. x \in RunRecord /\ x.stage = "rollback_pending" /\ x.id = run[r].id
      /\ x.created = run[r].created /\ x.compensated = run[r].compensated \cup {s}
  BY <1>1 DEF RunRecord
<1>3. SaveRun(r, x)
  OBVIOUS
<1>4. /\ run[r].compensated \cap ledger[r].owned = {}
      /\ "running" \in run[r].compensated => soul # SoulOf(r)
  BY <1>1, Here DEF Durable, Rolls
<1> HIDE DEF x
<1>5. /\ x.compensated \cap ledger[r].owned = {}
      /\ "running" \in x.compensated => soul # SoulOf(r)
  BY <1>2, <1>4
<1>6. /\ "rollback_pending" # "rolled_back" /\ "rollback_pending" # "running"
      /\ "rollback_pending" \notin Ended
  BY StageKinds
<1> QED
  BY <1>1, <1>2, <1>3, <1>5, <1>6, Here, RollingStep

(* A Soul the rollback finds absent is not the run's live Soul: it was     *)
(* recorded in the ledger before the run counted it as created.            *)
LEMMA AbsentSoul ==
  ASSUME IInv, NEW r \in Request, HasRun(r), run[r].stage = "rollback_pending",
         Compensable(r) # {}, Observe(r, NextCompensation(r)) = "absent",
         NextCompensation(r) = "running"
  PROVE  soul # SoulOf(r)
PROOF
<1>1. "running" \in run[r].created /\ "rollback_pending" \notin Ended
  BY NextCompensationFacts, StageKinds
<1>2. ledger[r].soul
  BY <1>1, Here DEF Durable, Rolls
<1> QED
  BY <1>2 DEF Observe

LEMMA RecordCompensationKeeps ==
  ASSUME IInv, NEW r \in Request, RecordCompensation(r) PROVE IInv'
PROOF
<1> DEFINE s == NextCompensation(r)
<1>1. pc[r] = "compensated" /\ HasRun(r) /\ UNCHANGED <<ledger, world, faults>>
  BY Here DEF RecordCompensation, At, Entering, Purging
<1>2. /\ run[r].stage = "rollback_pending" /\ Compensable(r) # {}
      /\ s \notin ledger[r].owned
  BY <1>1, Here DEF Place, Stands
<1>3. s \in ForwardStage
  BY <1>2, NextCompensationFacts
<1>4. CASE /\ Observe(r, s) = "absent" \/ (Observe(r, s) = "matching" /\ s \notin Owned(r))
           /\ SaveRun(r, [run[r] EXCEPT !.compensated = @ \cup {s}]) /\ Go(r, "abort")
  <2>1. s = "running" => soul # SoulOf(r)
    BY <1>1, <1>2, <1>4, AbsentSoul DEF Owned
  <2> QED
    BY <1>1, <1>2, <1>3, <1>4, <2>1, CompensatedKeeps
<1>5. CASE Go(r, "idle") /\ UNCHANGED run
  BY <1>1, <1>5, Here, Return
<1> QED
  BY <1>4, <1>5 DEF RecordCompensation

(* A resource observed absent is not owned: the ledger owns only completed *)
(* steps.                                                                  *)
LEMMA AbsentNotOwned ==
  ASSUME IInv, NEW r \in Request, HasLedger(r), NEW s \in ForwardStage \ {"identity_reserved"},
         Observe(r, s) = "absent"
  PROVE  s \notin ledger[r].owned
PROOF
<1>1. CASE s = "running"
  BY <1>1, Here DEF Durable, Rolls
<1>2. CASE s # "running"
  <2>1. ~Completed(r, s)
    BY <1>2 DEF Observe
  <2> QED
    BY <2>1, Here DEF Durable, Rolls, Completed
<1> QED
  BY <1>1, <1>2

(* Relinquishing a resource: it leaves what the ledger owns.               *)
LEMMA Relinquished ==
  ASSUME IInv, NEW r \in Request, pc[r] = "abort", run[r].stage = "rollback_pending",
         Compensable(r) # {}, Go(r, "compensated"), UNCHANGED <<run, world, faults>>,
         SaveLedger(r, [ledger[r] EXCEPT !.owned = @ \ {NextCompensation(r)}])
  PROVE  IInv'
PROOF
<1> DEFINE y == [ledger[r] EXCEPT !.owned = ledger[r].owned \ {NextCompensation(r)}]
<1>1. /\ pc[r] \notin Entering \cup Purging \cup {"save_key"}
      /\ HasRun(r) /\ HasLedger(r) /\ run[r] \in RunRecord /\ ledger[r] \in LedgerRecord
  BY Here DEF Entering, Purging
<1>2. y \in LedgerRecord /\ y.id = ledger[r].id /\ y.complete = ledger[r].complete
      /\ y.owned = ledger[r].owned \ {NextCompensation(r)} /\ y.soul = ledger[r].soul
      /\ y.success = ledger[r].success /\ y.key = ledger[r].key
  BY <1>1 DEF LedgerRecord
<1>3. SaveLedger(r, y)
  OBVIOUS
<1> HIDE DEF y
<1>4. Holds(r)'
  BY <1>1, <1>2, <1>3, Here, SavedLedger DEF Durable, Holds, Completed
<1>5. Rolls(r)'
  BY <1>1, <1>2, <1>3, Here, SavedLedger DEF Durable, Rolls
<1>6. Results(r)'
  BY <1>1, <1>2, <1>3, Here, SavedLedger DEF Durable, Results
<1>7. Place(r, "compensated")'
  BY <1>2, <1>3, SavedLedger DEF Place, Loop, Purging
<1>8. Stands(r, "compensated")'
  BY <1>2, <1>3, SavedLedger DEF Stands
<1>9. Keys(r, "compensated")'
  BY <1>1, <1>2, <1>3, Here, SavedLedger DEF Keys, Unmade
<1>10. "compensated" \in PC \ ({"prepare", "start", "save_key"} \cup Purging)
  BY DEF PC, Purging
<1> QED
  BY <1>1, <1>2, <1>3, <1>4, <1>5, <1>6, <1>7, <1>8, <1>9, <1>10, Here, LedgerStep

LEMMA CompensateKeeps == ASSUME IInv, NEW r \in Request, Compensate(r) PROVE IInv'
PROOF
<1> DEFINE s == NextCompensation(r)
<1>1. /\ pc[r] = "abort" /\ run[r].stage = "rollback_pending" /\ Compensable(r) # {}
      /\ UNCHANGED <<world, faults>>
  BY DEF Compensate, At
<1>2. s \in ForwardStage \ {"identity_reserved"} /\ HasLedger(r) /\ HasRun(r)
  BY <1>1, NextCompensationFacts, Here DEF Entering, Purging
<1>3. CASE Go(r, "idle") /\ UNCHANGED <<run, ledger>>
  BY <1>1, <1>3, Here, Return
<1>4. CASE Observe(r, s) = "absent" /\ SaveRun(r, [run[r] EXCEPT !.compensated = @ \cup {s}])
           /\ UNCHANGED <<pc, ledger>>
  <2>1. Go(r, "abort")
    BY <1>1, <1>4 DEF Go, IInv, Shapes
  <2>2. s \notin ledger[r].owned
    BY <1>2, <1>4, AbsentNotOwned
  <2>3. s = "running" => soul # SoulOf(r)
    BY <1>1, <1>2, <1>4, AbsentSoul
  <2> QED
    BY <1>1, <1>2, <1>4, <2>1, <2>2, <2>3, CompensatedKeeps
<1>5. CASE SaveLedger(r, [ledger[r] EXCEPT !.owned = @ \ {s}]) /\ Go(r, "compensated") /\ UNCHANGED run
  BY <1>1, <1>5, Relinquished
<1>6. CASE FailTerminal(r) /\ UNCHANGED ledger
  BY <1>1, <1>6, Here, FailTerminalKeeps
<1> QED
  BY <1>3, <1>4, <1>5, <1>6 DEF Compensate

(* The rollback is over when nothing is left to compensate.                *)
LEMMA FinishAbortKeeps == ASSUME IInv, NEW r \in Request, FinishAbort(r) PROVE IInv'
PROOF
<1> DEFINE x == Staged(run[r], "rolled_back", "requested")
<1>1. /\ pc[r] = "abort" /\ run[r].stage = "rollback_pending"
      /\ pc[r] \notin Entering \cup Purging \cup {"save_key"}
      /\ HasRun(r) /\ HasLedger(r) /\ run[r] \in RunRecord
  BY Here DEF FinishAbort, At, Entering, Purging
<1>2. "rolled_back" \in Stage /\ "requested" \in ForwardStage \cup {"requested"} /\ "rolled_back" \in Ended
  BY StageKinds DEF Ended
<1>3. x \in RunRecord /\ x.stage = "rolled_back" /\ x.id = run[r].id
      /\ x.created = run[r].created /\ x.compensated = run[r].compensated
  BY <1>1, <1>2, RunStage
<1>4. Go(r, "mark") /\ SaveRun(r, x) /\ UNCHANGED <<ledger, world, faults>>
  BY DEF FinishAbort, Transition, Staged
<1>5. /\ run[r].compensated \cap ledger[r].owned = {} /\ "identity_reserved" \notin run[r].created
      /\ "running" \in run[r].compensated => soul # SoulOf(r)
  BY <1>1, Here DEF Durable, Rolls
<1>6. run[r].created \subseteq ForwardStage \cup Ended
  BY <1>1 DEF RunRecord
<1>7. run[r].created \ Ended \subseteq run[r].compensated
  BY <1>5, <1>6, NothingLeft DEF FinishAbort
<1> HIDE DEF x
<1> QED
  BY <1>1, <1>2, <1>3, <1>4, <1>5, <1>7, Here, RollingStep

(* RetentionPolicy.Mark changes the retention alone.                       *)
LEMMA MarkKeeps == ASSUME IInv, NEW r \in Request, Mark(r) PROVE IInv'
PROOF
<1> DEFINE x == [run[r] EXCEPT !.retain = TRUE]
<1>1. /\ pc[r] = "mark" /\ run[r].stage = "rolled_back"
      /\ pc[r] \notin Entering \cup Purging \cup {"save_key"}
      /\ HasRun(r) /\ HasLedger(r) /\ run[r] \in RunRecord
  BY Here DEF Mark, At, Place, Entering, Purging
<1>2. x \in RunRecord /\ x.stage = "rolled_back" /\ x.id = run[r].id
      /\ x.created = run[r].created /\ x.compensated = run[r].compensated
  BY <1>1 DEF RunRecord
<1>3. Go(r, "terminal") /\ SaveRun(r, x) /\ UNCHANGED <<ledger, world, faults>>
  BY DEF Mark
<1>4. /\ run[r].compensated \cap ledger[r].owned = {}
      /\ run[r].created \ Ended \subseteq run[r].compensated
      /\ "running" \in run[r].compensated => soul # SoulOf(r)
  BY <1>1, Here DEF Durable, Rolls
<1>5. "rolled_back" \in Ended
  BY DEF Ended
<1> HIDE DEF x
<1> QED
  BY <1>1, <1>2, <1>3, <1>4, <1>5, Here, RollingStep

----------------------------------------------------------------------------
(* Effects outside the run and the ledger. *)

(* A step that leaves the records of the run alone, whatever it does to    *)
(* the unit and the deployment intent.                                     *)
LEMMA EffectStep ==
  ASSUME IInv, NEW r \in Request, NEW p \in PC, Go(r, p),
         UNCHANGED <<run, ledger, reservation, minted, unsaved, soul, result, issued>>,
         Agent', Works(r, p), Place(r, p), Stands(r, p), Keys(r, p)
  PROVE  IInv'
PROOF
<1>1. pc'[r] = p
  BY DEF IInv, Shapes, Go
<1>2. Own(r)
  BY DEF IInv, Shapes, Own, Go
<1>3. Elsewhere(r)
  BY DEF Elsewhere
<1>4. Typed(r)'
  BY <1>1, Here DEF Typed
<1>5. Durable(r)'
  BY Here DEF Durable, Ids, Rests, Holds, Rolls, Results, HasRun, HasLedger, Completed, Position
<1>6. Works(r, pc[r])' /\ Place(r, pc[r])'
  BY <1>1 DEF Works, Place, HasRun, HasLedger, Target
<1>7. Compensable(r)' = Compensable(r)
  BY DEF Compensable
<1>8. Stands(r, pc[r])' /\ Keys(r, pc[r])'
  BY <1>1, <1>7 DEF Stands, Keys, Unmade, HasLedger, Completed, Target, NextCompensation
<1>9. Local(r)'
  BY <1>5, <1>6, <1>8 DEF Local
<1> QED
  BY <1>2, <1>3, <1>4, <1>9, StepOf

(* The workflow at an effect, and what it needs to go on to the record.    *)
LEMMA AtApply ==
  ASSUME IInv, NEW r \in Request, pc[r] = "apply"
  PROVE  /\ HasRun(r) /\ HasLedger(r) /\ run[r] \in RunRecord /\ ledger[r] \in LedgerRecord
         /\ run[r].stage \in Before /\ run[r].id = ledger[r].id
         /\ Works(r, "record") /\ Works(r, "record_owned") /\ Works(r, "verify")
         /\ Place(r, "record") /\ Place(r, "verify")
         /\ Target(r) \notin {"identity_reserved", "running"} => Place(r, "record_owned")
         /\ Target(r) # "identity_reserved" => Stands(r, "record")
         /\ Stands(r, "record_owned") /\ Stands(r, "verify")
         /\ Keys(r, "record") /\ Keys(r, "record_owned") /\ Keys(r, "verify")
         /\ {"record", "record_owned", "verify"} \subseteq PC
PROOF
<1>1. /\ HasRun(r) /\ HasLedger(r) /\ run[r] \in RunRecord /\ ledger[r] \in LedgerRecord
      /\ run[r].stage \in Before /\ run[r].id = ledger[r].id
  BY Here DEF Place, Loop, Entering, Purging
<1>2. Works(r, "record") /\ Works(r, "record_owned") /\ Works(r, "verify")
  BY <1>1 DEF Works, Entering, Purging
<1>3. /\ Place(r, "record") /\ Place(r, "verify")
      /\ Target(r) \notin {"identity_reserved", "running"} => Place(r, "record_owned")
  BY <1>1 DEF Place, Loop, Purging
<1>4. /\ Target(r) # "identity_reserved" => Stands(r, "record")
      /\ Stands(r, "record_owned") /\ Stands(r, "verify")
  BY DEF Stands
<1>5. Keys(r, "record") /\ Keys(r, "record_owned") /\ Keys(r, "verify")
  BY Here DEF Keys
<1> QED
  BY <1>1, <1>2, <1>3, <1>4, <1>5 DEF PC

(* The reservation is taken only when it is free, so that no Soul is live. *)
LEMMA ReserveKeeps == ASSUME IInv, NEW r \in Request, Reserve(r) PROVE IInv'
PROOF
<1>1. pc[r] = "apply" /\ Target(r) = "identity_reserved"
  BY DEF Reserve, At
<1>2. /\ HasRun(r) /\ HasLedger(r) /\ run[r].stage \in Before
      /\ Works(r, "record") /\ Place(r, "record") /\ Keys(r, "record")
      /\ Works(r, "verify") /\ Place(r, "verify") /\ Keys(r, "verify") /\ Stands(r, "verify")
      /\ "record" \in PC /\ "verify" \in PC
  BY <1>1, AtApply
<1>3. CASE reservation = None /\ reservation' = r /\ Go(r, "record")
  <2>1. /\ pc'[r] = "record" /\ run' = run /\ ledger' = ledger /\ soul' = soul
        /\ minted' = minted /\ unsaved' = unsaved /\ result' = result /\ issued' = issued
    BY <1>3 DEF Reserve, IInv, Shapes, Go
  <2>2. soul.status # "active"
    BY <1>3, Here, ProvisioningAssumption DEF Agent, LiveSoulReserved
  <2>3. Own(r)
    BY <1>3, <2>1 DEF Reserve, IInv, Shapes, Own, Go
  <2>4. Elsewhere(r)
    BY <1>3, <2>1, ProvisioningAssumption DEF Elsewhere
  <2>5. Agent'
    BY <1>3, <2>1, <2>2, Here DEF Reserve, Agent, LiveSoulReserved
  <2>6. Typed(r)'
    BY <1>2, <2>1, Here DEF Typed
  <2>7. Holds(r)'
    BY <1>2, <1>3, <2>1 DEF Holds, HasRun
  <2>8. Ids(r)' /\ Rests(r)' /\ Rolls(r)' /\ Results(r)'
    BY <2>1, Here DEF Durable, Ids, Rests, Rolls, Results, HasRun, HasLedger, Completed, Position
  <2>9. Works(r, "record")' /\ Place(r, "record")'
    BY <1>2, <2>1 DEF Works, Place, HasRun, HasLedger, Target
  <2>10. Stands(r, "record")'
    BY <1>3 DEF Stands
  <2>11. Keys(r, "record")'
    BY <1>2, <2>1 DEF Keys, Unmade, HasLedger
  <2>12. Local(r)'
    BY <2>1, <2>7, <2>8, <2>9, <2>10, <2>11 DEF Local, Durable
  <2> QED
    BY <2>3, <2>4, <2>5, <2>6, <2>12, StepOf
<1>4. CASE reservation = r /\ Go(r, "record") /\ UNCHANGED reservation
  <2>1. Stands(r, "record")
    BY <1>4 DEF Stands
  <2>2. UNCHANGED <<run, ledger, world, faults>>
    BY <1>4 DEF Reserve, world
  <2> QED
    BY <1>2, <1>4, <2>1, <2>2, Here, Move
<1>5. CASE Go(r, "verify") /\ UNCHANGED reservation
  <2>1. UNCHANGED <<run, ledger, world, faults>>
    BY <1>5 DEF Reserve, world
  <2> QED
    BY <1>2, <1>5, <2>1, Here, Move
<1> QED
  BY <1>3, <1>4, <1>5 DEF Reserve

LEMMA RegisterUnitKeeps == ASSUME IInv, NEW r \in Request, RegisterUnit(r) PROVE IInv'
PROOF
<1>1. pc[r] = "apply" /\ Target(r) = "service_registered"
  BY DEF RegisterUnit, At
<1>2. Agent'
  BY Here DEF RegisterUnit, Agent, LiveSoulReserved
<1>3. PICK p \in {"record", "record_owned"} : Go(r, p)
  BY DEF RegisterUnit
<1>4. Works(r, p) /\ Place(r, p) /\ Stands(r, p) /\ Keys(r, p) /\ p \in PC
  BY <1>1, AtApply
<1> QED
  BY <1>2, <1>3, <1>4, EffectStep DEF RegisterUnit

LEMMA SelectReleaseKeeps == ASSUME IInv, NEW r \in Request, SelectRelease(r) PROVE IInv'
PROOF
<1>1. pc[r] = "apply" /\ Target(r) = "release_selected"
  BY DEF SelectRelease, At
<1>2. Agent'
  BY Here DEF SelectRelease, Agent, LiveSoulReserved
<1>3. PICK p \in {"record", "record_owned"} : Go(r, p)
  BY DEF SelectRelease
<1>4. Works(r, p) /\ Place(r, p) /\ Stands(r, p) /\ Keys(r, p) /\ p \in PC
  BY <1>1, AtApply
<1> QED
  BY <1>2, <1>3, <1>4, EffectStep DEF SelectRelease

LEMMA DeployKeeps == ASSUME IInv, NEW r \in Request, Deploy(r) PROVE IInv'
PROOF
<1>1. pc[r] = "apply" /\ Target(r) = "runtime_allocated"
  BY DEF Deploy, At
<1>2. ledger[r].id \in RunId
  BY <1>1, AtApply DEF LedgerRecord
<1>3. Agent'
  BY <1>2, Here DEF Deploy, Agent, LiveSoulReserved
<1>4. PICK p \in {"record", "record_owned"} : Go(r, p)
  BY DEF Deploy
<1>5. Works(r, p) /\ Place(r, p) /\ Stands(r, p) /\ Keys(r, p) /\ p \in PC
  BY <1>1, AtApply
<1> QED
  BY <1>3, <1>4, <1>5, EffectStep DEF Deploy

LEMMA EnsureKeeps == ASSUME IInv, NEW r \in Request, Ensure(r) PROVE IInv'
PROOF
<1>1. pc[r] = "apply" /\ Target(r) \notin {"identity_reserved", "running"}
  BY DEF Ensure, At
<1>2. /\ Works(r, "record_owned") /\ Place(r, "record_owned") /\ Stands(r, "record_owned")
      /\ Keys(r, "record_owned") /\ "record_owned" \in PC
  BY <1>1, AtApply
<1> QED
  BY <1>2, Here, Move DEF Ensure

(* A key is made only while the ledger of the run id names none.           *)
LEMMA EnrollKeeps == ASSUME IInv, NEW r \in Request, Enroll(r) PROVE IInv'
PROOF
<1>1. pc[r] = "apply" /\ Target(r) = "signer_enrolled"
  BY DEF Enroll, At
<1>2. /\ HasRun(r) /\ HasLedger(r) /\ run[r].stage \in Before /\ run[r].id = ledger[r].id
      /\ Works(r, "record_owned") /\ Place(r, "record_owned") /\ Stands(r, "record_owned")
      /\ Keys(r, "record_owned") /\ "record_owned" \in PC
  BY <1>1, AtApply
<1>3. CASE ~MintsKey(r)
  <2>1. UNCHANGED <<run, ledger, world, faults>> /\ Go(r, "record_owned")
    BY <1>3 DEF Enroll, world
  <2> QED
    BY <1>2, <2>1, Here, Move
<1>4. CASE MintsKey(r)
  <2>1. /\ pc'[r] = "save_key" /\ minted'[r] = minted[r] + 1
        /\ run' = run /\ ledger' = ledger /\ soul' = soul /\ reservation' = reservation
        /\ unsaved' = unsaved /\ result' = result /\ issued' = issued
    BY <1>4 DEF Enroll, IInv, Shapes, Go
  <2>2. Own(r)
    BY <1>4 DEF Enroll, IInv, Shapes, Own, Go
  <2>3. Elsewhere(r)
    BY <2>1 DEF Elsewhere
  <2>4. Agent'
    BY <2>1, Here DEF Enroll, Agent, LiveSoulReserved
  <2>5. Typed(r)'
    BY <2>1, Here DEF Typed, PC
  <2>6. Durable(r)'
    BY <2>1, Here DEF Durable, Ids, Rests, Holds, Rolls, Results, HasRun, HasLedger, Completed, Position
  <2>7. Works(r, "save_key")'
    BY <1>2, <2>1 DEF Works, HasRun, HasLedger, Purging, Entering
  <2>8. Place(r, "save_key")' /\ Stands(r, "save_key")'
    BY <1>1, <1>2, <2>1 DEF Place, Stands, Target, Loop, Purging
  <2>9. ~ledger[r].key /\ Unmade(r) = 1
    BY <1>2, <1>4 DEF MintsKey, Unmade
  <2>10. minted[r] + 1 <= issued[r] + unsaved[r]
    BY <1>1, <2>9, Here
  <2>11. Keys(r, "save_key")'
    BY <2>1, <2>9, <2>10 DEF Keys
  <2>12. Local(r)'
    BY <2>1, <2>6, <2>7, <2>8, <2>11 DEF Local
  <2> QED
    BY <2>2, <2>3, <2>4, <2>5, <2>12, StepOf
<1> QED
  BY <1>3, <1>4

(* The saved key is the one the run id had to make.                        *)
LEMMA SaveKeyKeeps == ASSUME IInv, NEW r \in Request, SaveKey(r) PROVE IInv'
PROOF
<1> DEFINE y == [ledger[r] EXCEPT !.key = TRUE]
<1>1. /\ pc[r] = "save_key" /\ pc[r] \notin Entering \cup Purging
      /\ HasRun(r) /\ HasLedger(r) /\ ledger[r] \in LedgerRecord
      /\ run[r].stage \in Before /\ Target(r) = "signer_enrolled"
      /\ minted[r] <= issued[r] + unsaved[r]
  BY Here DEF SaveKey, At, Place, Keys, Loop, Entering, Purging
<1>2. /\ y \in LedgerRecord /\ y.id = ledger[r].id /\ y.complete = ledger[r].complete
      /\ y.owned = ledger[r].owned /\ y.success = ledger[r].success /\ y.key
      /\ y.soul = ledger[r].soul
  BY <1>1 DEF LedgerRecord
<1>3. Go(r, "record_owned") /\ SaveLedger(r, y) /\ UNCHANGED <<run, world, faults>>
  BY DEF SaveKey
<1> HIDE DEF y
<1>4. Holds(r)' /\ Rolls(r)' /\ Results(r)'
  BY <1>1, <1>2, <1>3, Here, SavedLedger DEF Durable, Holds, Rolls, Results, Completed
<1>5. Place(r, "record_owned")' /\ Stands(r, "record_owned")'
  BY <1>1, <1>2, <1>3, SavedLedger DEF Place, Stands, Loop, Purging
<1>6. Keys(r, "record_owned")'
  BY <1>1, <1>2, <1>3, Here, SavedLedger DEF Keys, Unmade, Typed
<1>7. "record_owned" \in PC \ ({"prepare", "start", "save_key"} \cup Purging)
  BY DEF PC, Purging
<1> QED
  BY <1>1, <1>2, <1>3, <1>4, <1>5, <1>6, <1>7, Here, LedgerStep

(* A completed step, and an owned one, in the ledger's record.             *)
Recorded(y, s, own) == [y EXCEPT !.complete = @ \cup {s}, !.owned = @ \cup own]

LEMMA RecordedFacts ==
  ASSUME NEW y \in LedgerRecord, NEW s \in ForwardStage, NEW own \in SUBSET ForwardStage
  PROVE  /\ Recorded(y, s, own) \in LedgerRecord
         /\ Recorded(y, s, own).id = y.id
         /\ Recorded(y, s, own).complete = y.complete \cup {s}
         /\ Recorded(y, s, own).owned = y.owned \cup own
         /\ Recorded(y, s, own).success = y.success
         /\ Recorded(y, s, own).key = y.key /\ Recorded(y, s, own).soul = y.soul
BY DEF LedgerRecord, Recorded

(* The record that ends a step: the reservation is recorded only by its    *)
(* holder, and is never owned.                                             *)
LEMMA RecordKeeps == ASSUME IInv, NEW r \in Request, Record(r) PROVE IInv'
PROOF
<1> DEFINE own == IF pc[r] = "record_owned" THEN {Target(r)} ELSE {}
           y == Recorded(ledger[r], Target(r), own)
<1>1. /\ pc[r] \in {"record", "record_owned"}
      /\ pc[r] \notin Entering \cup Purging \cup {"save_key"}
      /\ HasRun(r) /\ HasLedger(r) /\ ledger[r] \in LedgerRecord /\ run[r].stage \in Before
  BY Here DEF Record, Place, Loop, Entering, Purging
<1>2. Target(r) \in ForwardStage /\ own \in SUBSET ForwardStage
  BY <1>1, NextFacts DEF Target
<1>3. /\ y \in LedgerRecord /\ y.id = ledger[r].id
      /\ y.complete = ledger[r].complete \cup {Target(r)}
      /\ y.owned = ledger[r].owned \cup own /\ y.soul = ledger[r].soul
      /\ y.success = ledger[r].success /\ y.key = ledger[r].key
  BY <1>1, <1>2, RecordedFacts
<1>4. SaveLedger(r, y)
  <2>1. CASE pc[r] = "record_owned"
    BY <2>1 DEF Record, SaveLedger, Recorded, At
  <2>2. CASE pc[r] = "record"
    <3>1. SaveLedger(r, [ledger[r] EXCEPT !.complete = @ \cup {Target(r)}, !.owned = @])
      BY <2>2 DEF Record, SaveLedger, At
    <3>2. ledger[r].owned \cup own = ledger[r].owned
      BY <2>2
    <3> QED
      BY <3>1, <3>2 DEF Recorded, SaveLedger
  <2> QED
    BY <1>1, <2>1, <2>2
<1>5. Go(r, "verify") /\ UNCHANGED <<run, world, faults>>
  BY DEF Record
<1>6. own \subseteq {Target(r)} \ {"identity_reserved", "running"}
  BY <1>1, Here DEF Place
<1>7. Target(r) = "identity_reserved" => reservation = r
  BY <1>1, Here DEF Place, Stands
<1> HIDE DEF y, own
<1>8. Holds(r)'
  BY <1>1, <1>3, <1>4, <1>5, <1>7, Here, SavedLedger DEF Durable, Holds, Completed
<1>9. run[r].compensated = {} /\ run[r].stage # "rolled_back"
  BY <1>1, Here, StageKinds DEF Durable, Rolls, Ended
<1>10. Rolls(r)'
  BY <1>1, <1>3, <1>4, <1>5, <1>6, <1>9, Here, SavedLedger DEF Durable, Rolls
<1>11. Results(r)'
  BY <1>1, <1>3, <1>4, <1>5, Here, SavedLedger DEF Durable, Results
<1>12. Place(r, "verify")' /\ Stands(r, "verify")'
  BY <1>1, <1>3, <1>4, <1>5, SavedLedger DEF Place, Stands, Loop, Purging
<1>13. Keys(r, "verify")'
  BY <1>1, <1>3, <1>4, <1>5, Here, SavedLedger DEF Keys, Unmade
<1>14. "verify" \in PC \ ({"prepare", "start", "save_key"} \cup Purging)
  BY DEF PC, Purging
<1> QED
  BY <1>1, <1>3, <1>4, <1>5, <1>8, <1>10, <1>11, <1>12, <1>13, <1>14, Here, LedgerStep

(* A step given up: a key whose save is lost is counted with the unsaved.  *)
LEMMA GiveUp ==
  ASSUME IInv, NEW r \in Request, NEW p \in {"idle", "rollback"}, Go(r, p),
         p = "rollback" => pc[r] \notin Entering \cup Purging /\ run[r].stage \in Before,
         unsaved' = [unsaved EXCEPT ![r] = @ + (IF At(r, "save_key") THEN 1 ELSE 0)],
         UNCHANGED <<run, ledger, reservation, unit, binding, intent, minted, soul, result, issued>>,
         faults' \in 0 .. MaxFaults
  PROVE  IInv'
PROOF
<1> DEFINE n == IF pc[r] = "save_key" THEN 1 ELSE 0
<1>0. n \in Nat
  OBVIOUS
<1>1. /\ pc'[r] = p /\ unsaved'[r] = unsaved[r] + n
  BY DEF IInv, Shapes, Go, At
<1>2. Own(r)
  BY DEF IInv, Shapes, Own, Go
<1>3. Elsewhere(r)
  BY DEF Elsewhere
<1>4. Agent'
  BY Here DEF Agent, LiveSoulReserved
<1>5. Typed(r)'
  BY <1>0, <1>1, Here DEF Typed, PC
<1>6. Durable(r)'
  BY Here DEF Durable, Ids, Rests, Holds, Rolls, Results, HasRun, HasLedger, Completed, Position
<1>7. Works(r, p)'
  BY Here DEF Works, HasRun, HasLedger, Purging, Entering
<1>8. Place(r, p)' /\ Stands(r, p)'
  BY DEF Place, Stands, Loop, Purging
<1>9. Unmade(r)' = Unmade(r) /\ Unmade(r) \in {0, 1}
  BY DEF Unmade, HasLedger
<1>10. minted[r] + Unmade(r) <= issued[r] + unsaved[r] + n
  BY <1>9, Here DEF Keys, Typed
<1>11. Keys(r, p)'
  BY <1>1, <1>9, <1>10, <1>0, Here DEF Keys, Typed
<1>12. Local(r)'
  BY <1>1, <1>6, <1>7, <1>8, <1>11 DEF Local
<1> QED
  BY <1>2, <1>3, <1>4, <1>5, <1>12, StepOf

LEMMA ApplyFailsKeeps == ASSUME IInv, NEW r \in Request, ApplyFails(r) PROVE IInv'
PROOF
<1>1. faults' \in 0 .. MaxFaults
  BY Here, ProvisioningAssumption DEF ApplyFails, Fault
<1>2. pc[r] \in {"apply", "record", "record_owned", "save_key"}
  BY DEF ApplyFails, At
<1>3. pc[r] \notin Entering \cup Purging /\ run[r].stage \in Before
  BY <1>2, Here DEF Place, Loop, Entering, Purging
<1> QED
  BY <1>1, <1>3, GiveUp DEF ApplyFails

LEMMA AbandonKeeps == ASSUME IInv, NEW r \in Request, Abandon(r) PROVE IInv'
PROOF
<1>1. faults' \in 0 .. MaxFaults
  BY Here, ProvisioningAssumption DEF Abandon, Fault
<1> QED
  BY <1>1, GiveUp DEF Abandon

(* A Soul is published by the holder of the agent id.                      *)
LEMMA SoulKeeps ==
  ASSUME IInv, NEW r \in Request, NEW p \in {"save_soul", "verify", "recheck"}, Go(r, p),
         pc[r] \notin Entering \cup Purging \cup {"save_key"},
         run[r].stage \in {"dm_verified", "running"},
         p = "verify" => run[r].stage = "dm_verified",
         p = "recheck" => run[r].stage = "running",
         soul' = SoulOf(r), faults' \in 0 .. MaxFaults,
         UNCHANGED <<run, ledger, reservation, unit, binding, intent, minted, unsaved, result, issued>>
  PROVE  IInv'
PROOF
<1>1. HasRun(r) /\ HasLedger(r) /\ run[r].id = ledger[r].id
  BY Here
<1>2. run[r].stage \in ForwardStage /\ "dm_verified" \in Before
  BY ForwardStages DEF Before
<1>3. reservation = r
  BY <1>1, <1>2, Reserved
<1>4. pc'[r] = p /\ soul'.by = r /\ soul'.status = "active"
  BY DEF IInv, Shapes, Go, SoulOf
<1>5. Own(r)
  BY DEF IInv, Shapes, Own, Go
<1>6. Elsewhere(r)
  BY <1>3 DEF Elsewhere, SoulOf
<1>7. Agent'
  BY <1>3, <1>4, Here DEF Agent, LiveSoulReserved, SoulOf
<1>8. Typed(r)'
  BY <1>4, Here DEF Typed, PC
<1>9. Holds(r)'
  BY <1>3, <1>4 DEF Holds
<1>c. run[r].compensated = {}
  BY <1>1, Here, StageKinds DEF Durable, Rolls, Ended
<1>10. Ids(r)' /\ Rests(r)' /\ Rolls(r)' /\ Results(r)'
  BY <1>c, Here DEF Durable, Ids, Rests, Rolls, Results, HasRun, HasLedger, Completed, Position
<1>11. Works(r, p)'
  BY <1>1 DEF Works, HasRun, HasLedger, Purging, Entering
<1>12. Place(r, p)' /\ Stands(r, p)'
  BY <1>2 DEF Place, Stands, Loop, Purging
<1>13. Keys(r, p)'
  BY Here DEF Keys, Unmade, HasLedger
<1>14. Local(r)'
  BY <1>4, <1>9, <1>10, <1>11, <1>12, <1>13 DEF Local, Durable
<1> QED
  BY <1>5, <1>6, <1>7, <1>8, <1>14, StepOf

(* The two places a Soul is published from.                                *)
LEMMA AtPublish ==
  ASSUME IInv, NEW r \in Request,
         \/ At(r, "apply") /\ Target(r) = "running"
         \/ At(r, "terminal") /\ run[r].stage = "running"
  PROVE  /\ pc[r] \notin Entering \cup Purging \cup {"save_key"}
         /\ pc[r] = "apply" => run[r].stage = "dm_verified"
         /\ pc[r] = "terminal" => run[r].stage = "running"
         /\ pc[r] \in {"apply", "terminal"}
         /\ run[r].stage \in {"dm_verified", "running"}
PROOF
<1>1. CASE pc[r] = "apply" /\ Target(r) = "running"
  <2>1. run[r].stage = "dm_verified"
    BY <1>1, AtApply, NextFacts DEF Target
  <2> QED
    BY <1>1, <2>1 DEF Entering, Purging
<1>2. CASE pc[r] = "terminal" /\ run[r].stage = "running"
  BY <1>2 DEF Entering, Purging
<1> QED
  BY <1>1, <1>2 DEF At

LEMMA PublishSoulKeeps == ASSUME IInv, NEW r \in Request, PublishSoul(r) PROVE IInv'
PROOF
<1>1. \/ At(r, "apply") /\ Target(r) = "running"
      \/ At(r, "terminal") /\ run[r].stage = "running"
  BY DEF PublishSoul
<1> QED
  BY <1>1, AtPublish, SoulKeeps, Here DEF PublishSoul

LEMMA PublishSoulFailsKeeps == ASSUME IInv, NEW r \in Request, PublishSoulFails(r) PROVE IInv'
PROOF
<1>1. \/ At(r, "apply") /\ Target(r) = "running"
      \/ At(r, "terminal") /\ run[r].stage = "running"
  BY DEF PublishSoulFails
<1>2. faults' \in 0 .. MaxFaults
  BY Here, ProvisioningAssumption DEF PublishSoulFails, Fault
<1>3. CASE soul' = SoulOf(r) /\ Go(r, IF pc[r] = "apply" THEN "verify" ELSE "recheck")
  <2>1. CASE pc[r] = "apply"
    BY <1>1, <1>2, <1>3, <2>1, AtPublish, SoulKeeps DEF PublishSoulFails
  <2>2. CASE pc[r] = "terminal"
    BY <1>1, <1>2, <1>3, <2>2, AtPublish, SoulKeeps DEF PublishSoulFails
  <2> QED
    BY <1>1, <2>1, <2>2, AtPublish
<1>4. CASE soul' = soul /\ Go(r, IF pc[r] = "apply" THEN "verify" ELSE "idle")
  <2>1. UNCHANGED <<run, ledger, world>>
    BY <1>4 DEF PublishSoulFails, world
  <2>2. CASE pc[r] = "apply"
    <3>1. /\ Works(r, "verify") /\ Place(r, "verify") /\ Stands(r, "verify")
          /\ Keys(r, "verify") /\ "verify" \in PC
      BY <2>2, AtApply
    <3> QED
      BY <1>2, <1>4, <2>1, <2>2, <3>1, Move
  <2>3. CASE pc[r] = "terminal"
    BY <1>2, <1>4, <2>1, <2>3, Return
  <2> QED
    BY <1>1, <2>2, <2>3, AtPublish
<1> QED
  BY <1>3, <1>4 DEF PublishSoulFails, At

LEMMA SaveSoulKeeps == ASSUME IInv, NEW r \in Request, SaveSoul(r) PROVE IInv'
PROOF
<1> DEFINE y == [ledger[r] EXCEPT !.soul = TRUE]
<1>1. /\ pc[r] = "save_soul" /\ pc[r] \notin Entering \cup Purging \cup {"save_key"}
      /\ HasRun(r) /\ HasLedger(r) /\ ledger[r] \in LedgerRecord
      /\ run[r].stage \in {"dm_verified", "running"}
  BY Here DEF SaveSoul, At, Place, Entering, Purging
<1>2. /\ y \in LedgerRecord /\ y.id = ledger[r].id /\ y.complete = ledger[r].complete
      /\ y.owned = ledger[r].owned /\ y.success = ledger[r].success /\ y.key = ledger[r].key
      /\ y.soul
  BY <1>1 DEF LedgerRecord
<1>3. PICK p \in {"recheck", "verify"} : Go(r, p) /\ (p = "recheck" <=> run[r].stage = "running")
  BY DEF SaveSoul
<1>4. SaveLedger(r, y) /\ UNCHANGED <<run, world, faults>>
  BY DEF SaveSoul
<1> HIDE DEF y
<1>5. Holds(r)' /\ Rolls(r)' /\ Results(r)'
  BY <1>1, <1>2, <1>3, <1>4, Here, SavedLedger DEF Durable, Holds, Rolls, Results, Completed
<1>6. "dm_verified" \in Before
  BY ForwardStages DEF Before
<1>7. Place(r, p)' /\ Stands(r, p)'
  BY <1>1, <1>2, <1>3, <1>4, <1>6, SavedLedger DEF Place, Stands, Loop, Purging
<1>8. Keys(r, p)'
  BY <1>1, <1>2, <1>3, <1>4, Here, SavedLedger DEF Keys, Unmade
<1>9. p \in PC \ ({"prepare", "start", "save_key"} \cup Purging)
  BY DEF PC, Purging
<1> QED
  BY <1>1, <1>2, <1>3, <1>4, <1>5, <1>7, <1>8, <1>9, Here, LedgerStep

LEMMA SaveSoulFailsKeeps == ASSUME IInv, NEW r \in Request, SaveSoulFails(r) PROVE IInv'
PROOF
<1>1. faults' \in 0 .. MaxFaults
  BY Here, ProvisioningAssumption DEF SaveSoulFails, Fault
<1>2. /\ pc[r] \notin Entering \cup Purging \cup {"save_key"}
      /\ run[r].stage \in {"dm_verified", "running"} /\ HasRun(r)
  BY Here DEF SaveSoulFails, At, Place, Entering, Purging
<1>3. PICK p \in {"recheck", "checkpoint", "rollback"} :
        /\ Go(r, p) /\ (p = "recheck" <=> run[r].stage = "running")
        /\ p = "checkpoint" => Observe(r, "running") = "matching"
  BY DEF SaveSoulFails
<1>4. "dm_verified" \in Before
  BY ForwardStages DEF Before
<1>5. p # "recheck" => Target(r) = "running"
  BY <1>2, <1>3, <1>4, NextFacts DEF Target
<1>6. Place(r, p)
  BY <1>2, <1>3, <1>4 DEF Place, Loop, Purging
<1>7. Stands(r, p)
  BY <1>3, <1>5, Matching DEF Stands
<1>8. p \in PC \ (Entering \cup Purging \cup {"save_key"})
  BY DEF PC, Entering, Purging
<1> QED
  BY <1>1, <1>2, <1>3, <1>6, <1>7, <1>8, MoveOn DEF SaveSoulFails

----------------------------------------------------------------------------
(* Terminal results. *)

(* The projection of a terminal stage in the run's lineage: a running one  *)
(* shows the Soul the ledger records.                                      *)
LEMMA ProjectedKeeps ==
  ASSUME IInv, NEW r \in Request, pc[r] \in {"terminal", "recheck"},
         NEW p \in {"deliver", "idle"}, Go(r, p),
         run[r].stage = "running" => ledger[r].soul,
         p = "deliver" => run[r].stage = "running",
         SaveRun(r, [run[r] EXCEPT !.created = @ \cup {run[r].stage}]),
         UNCHANGED <<ledger, world, faults>>
  PROVE  IInv'
PROOF
<1> DEFINE x == [run[r] EXCEPT !.created = run[r].created \cup {run[r].stage}]
<1>1. /\ pc[r] \notin Entering \cup Purging \cup {"save_key"}
      /\ HasRun(r) /\ HasLedger(r) /\ run[r] \in RunRecord
      /\ run[r].stage \in Ended \cup {"running"}
  BY Here DEF Place, Entering, Purging
<1>2. run[r].stage \in ForwardStage \cup Ended /\ run[r].stage # "identity_reserved"
  BY <1>1, ForwardStages DEF Ended
<1>3. x \in RunRecord
  BY <1>1, <1>2 DEF RunRecord
<1>4. /\ x.stage = run[r].stage /\ x.resume = run[r].resume /\ x.id = run[r].id
      /\ x.created = run[r].created \cup {run[r].stage} /\ x.compensated = run[r].compensated
  BY <1>1 DEF RunRecord
<1>5. SaveRun(r, x)
  OBVIOUS
<1> HIDE DEF x
<1>6. Position(r)' = Position(r)
  BY <1>3, <1>4, <1>5, SavedRun DEF Position
<1>7. Rests(r)'
  BY <1>1, <1>3, <1>4, <1>5, <1>6, Here, SavedRun DEF Durable, Rests
<1>8. Rolls(r)'
  <2>1. "identity_reserved" \notin x.created
    BY <1>1, <1>2, <1>4, Here DEF Durable, Rolls
  <2>2. x.stage = "rolled_back" => x.created \ Ended \subseteq x.compensated
    BY <1>1, <1>4, Here DEF Durable, Rolls, Ended
  <2>3. x.stage \notin Ended => ledger[r].soul
    BY <1>1, <1>4
  <2>4. /\ x.compensated # {} => x.stage \in Ended \cup {"rollback_pending"}
        /\ ledger[r].owned \subseteq ledger[r].complete \ {"identity_reserved", "running"}
        /\ x.compensated \cap ledger[r].owned = {}
        /\ "running" \in x.compensated => soul # SoulOf(r)
    BY <1>1, <1>4, Here DEF Durable, Rolls
  <2> QED
    BY <1>1, <1>3, <1>5, <2>1, <2>2, <2>3, <2>4, SavedRun DEF Rolls, SoulOf
<1>9. Results(r)'
  BY <1>1, <1>3, <1>4, <1>5, Here, SavedRun DEF Durable, Results
<1>10. Place(r, p)' /\ Stands(r, p)'
  BY <1>3, <1>4, <1>5, SavedRun DEF Place, Stands, Loop, Purging
<1>11. p \in PC \ ({"prepare", "start", "save_key"} \cup Purging)
  BY DEF PC, Purging
<1> QED
  BY <1>1, <1>3, <1>4, <1>5, <1>7, <1>8, <1>9, <1>10, <1>11, Here, RunStep

LEMMA EnsureTerminalKeeps == ASSUME IInv, NEW r \in Request, EnsureTerminal(r) PROVE IInv'
PROOF
<1>1. pc[r] \in {"terminal", "recheck"} /\ UNCHANGED <<ledger, world, faults>>
  BY DEF EnsureTerminal
<1>2. CASE Go(r, "idle") /\ UNCHANGED run
  BY <1>1, <1>2, Here, Return
<1>3. CASE /\ SaveRun(r, [run[r] EXCEPT !.created = @ \cup {run[r].stage}])
           /\ run[r].stage = "running" => Observe(r, "running") = "matching"
           /\ Go(r, IF run[r].stage = "running" THEN "deliver" ELSE "idle")
  <2>1. run[r].stage = "running" => ledger[r].soul
    BY <1>3, Matching
  <2>2. PICK p \in {"deliver", "idle"} : Go(r, p) /\ (p = "deliver" => run[r].stage = "running")
    BY <1>3
  <2> QED
    BY <1>1, <1>3, <2>1, <2>2, ProjectedKeeps
<1> QED
  BY <1>2, <1>3 DEF EnsureTerminal

(* A result published with the records as they are.                        *)
LEMMA ResultKeeps ==
  ASSUME IInv, NEW r \in Request, NEW p \in {"save_terminal", "settle"}, NEW k \in {"success", "error"},
         pc[r] \notin Entering \cup Purging \cup {"save_key"}, Go(r, p),
         result' = [result EXCEPT ![r] = @ \cup {k}],
         UNCHANGED <<run, ledger, reservation, unit, binding, intent, minted, unsaved, soul,
                     issued, faults>>,
         k = "error" => run[r].stage \in Ended,
         k = "success" => ledger[r].success # "none",
         Place(r, p), Stands(r, p)
  PROVE  IInv'
PROOF
<1>1. HasRun(r) /\ HasLedger(r) /\ run[r].id = ledger[r].id
  BY Here
<1>2. pc'[r] = p /\ result'[r] = result[r] \cup {k}
  BY DEF IInv, Shapes, Go
<1>3. Own(r)
  BY DEF IInv, Shapes, Own, Go
<1>4. Elsewhere(r) /\ Agent'
  BY Here DEF Elsewhere, Agent, LiveSoulReserved
<1>5. Typed(r)'
  BY <1>2, Here DEF Typed, PC
<1>6. Ids(r)' /\ Rests(r)' /\ Holds(r)' /\ Rolls(r)'
  BY Here DEF Durable, Ids, Rests, Holds, Rolls, HasRun, HasLedger, Completed, Position
<1>7. run[r].stage \in Ended => ledger[r].success = "none"
  BY <1>1, Here, StageKinds DEF Durable, Results
<1>8. Results(r)'
  BY <1>1, <1>2, <1>7, Here DEF Durable, Results, HasRun, HasLedger
<1>9. Works(r, p)'
  BY <1>1 DEF Works, HasRun, HasLedger, Purging, Entering
<1>10. Place(r, p)' /\ Stands(r, p)'
  BY DEF Place, Stands, Loop, Purging, Target
<1>11. Keys(r, p)'
  BY Here DEF Keys, Unmade, HasLedger
<1>12. Local(r)'
  BY <1>2, <1>6, <1>8, <1>9, <1>10, <1>11 DEF Local, Durable
<1> QED
  BY <1>3, <1>4, <1>5, <1>12, StepOf

LEMMA PublishErrorKeeps == ASSUME IInv, NEW r \in Request, PublishError(r) PROVE IInv'
PROOF
<1>1. pc[r] \notin Entering \cup Purging \cup {"save_key"}
  BY DEF PublishError, At, Entering, Purging
<1>2. Place(r, "save_terminal") /\ Stands(r, "save_terminal")
  BY DEF PublishError, Place, Stands, Loop, Purging
<1> QED
  BY <1>1, <1>2, ResultKeeps DEF PublishError

(* The success that is published was signed before.                        *)
LEMMA AnnounceKeeps == ASSUME IInv, NEW r \in Request, Announce(r) PROVE IInv'
PROOF
<1>1. pc[r] = "announce" /\ pc[r] \notin Entering \cup Purging \cup {"save_key"}
  BY DEF Announce, At, Entering, Purging
<1>2. ledger[r].success # "none" /\ run[r].stage = "running"
  BY <1>1, Here DEF Place, Stands
<1>3. Place(r, "settle") /\ Stands(r, "settle")
  BY <1>2 DEF Place, Stands, Loop, Purging
<1> QED
  BY <1>1, <1>2, <1>3, ResultKeeps DEF Announce

(* A save of the ledger that leaves steps, resources and key as they were. *)
LEMMA OutcomeKeeps ==
  ASSUME IInv, NEW r \in Request, NEW p \in {"recheck", "announce", "idle"}, NEW y \in LedgerRecord,
         pc[r] \notin Entering \cup Purging \cup {"save_key"},
         Go(r, p), SaveLedger(r, y), UNCHANGED <<run, world, faults>>,
         y.id = ledger[r].id, y.complete = ledger[r].complete, y.owned = ledger[r].owned,
         y.key = ledger[r].key, y.soul = ledger[r].soul,
         \/ y.success = ledger[r].success
         \/ run[r].stage = "running" /\ "error" \notin result[r] /\ y.success # "none",
         p = "recheck" => run[r].stage \in Ended,
         p = "announce" => run[r].stage = "running" /\ y.success # "none"
  PROVE  IInv'
PROOF
<1>1. HasRun(r) /\ HasLedger(r) /\ ledger[r] \in LedgerRecord
  BY Here
<1>2. Holds(r)' /\ Rolls(r)'
  BY <1>1, Here, SavedLedger DEF Durable, Holds, Rolls, Completed
<1>3. Results(r)'
  BY <1>1, Here, SavedLedger DEF Durable, Results
<1>4. Place(r, p)' /\ Stands(r, p)'
  BY SavedLedger DEF Place, Stands, Loop, Purging
<1>5. Keys(r, p)'
  BY <1>1, Here, SavedLedger DEF Keys, Unmade
<1>6. p \in PC \ ({"prepare", "start", "save_key"} \cup Purging)
  BY DEF PC, Purging
<1> QED
  BY <1>1, <1>2, <1>3, <1>4, <1>5, <1>6, Here, LedgerStep

LEMMA SaveTerminalKeeps == ASSUME IInv, NEW r \in Request, SaveTerminal(r) PROVE IInv'
PROOF
<1> DEFINE y == [ledger[r] EXCEPT !.terminal = run[r].stage]
<1>1. /\ pc[r] \notin Entering \cup Purging \cup {"save_key"}
      /\ HasLedger(r) /\ ledger[r] \in LedgerRecord /\ run[r].stage \in Ended
  BY Here DEF SaveTerminal, At, Place, Entering, Purging
<1>2. /\ y \in LedgerRecord /\ y.id = ledger[r].id /\ y.complete = ledger[r].complete
      /\ y.owned = ledger[r].owned /\ y.success = ledger[r].success /\ y.key = ledger[r].key
      /\ y.soul = ledger[r].soul
  BY <1>1 DEF LedgerRecord
<1>3. Go(r, "recheck") /\ SaveLedger(r, y) /\ UNCHANGED <<run, world, faults>>
  BY DEF SaveTerminal
<1> HIDE DEF y
<1> QED
  BY <1>1, <1>2, <1>3, OutcomeKeeps

(* A success in the ledger's record.                                       *)
LEMMA SuccessFacts ==
  ASSUME NEW y \in LedgerRecord, NEW v \in {"signed", "delivered"}, NEW z,
         z = [y EXCEPT !.success = v]
  PROVE  /\ z \in LedgerRecord /\ z.id = y.id /\ z.complete = y.complete
         /\ z.owned = y.owned /\ z.key = y.key /\ z.success = v /\ v # "none"
         /\ z.soul = y.soul
BY DEF LedgerRecord

(* deliverSuccess signs for a running saga without an error result.        *)
LEMMA SignKeeps == ASSUME IInv, NEW r \in Request, Sign(r) PROVE IInv'
PROOF
<1>1. /\ pc[r] = "deliver" /\ pc[r] \notin Entering \cup Purging \cup {"save_key"}
      /\ HasLedger(r) /\ ledger[r] \in LedgerRecord /\ run[r].stage = "running"
      /\ UNCHANGED <<run, world, faults>>
  BY Here DEF Sign, At, Place, Entering, Purging
<1>2. CASE Go(r, "idle") /\ UNCHANGED ledger
  BY <1>1, <1>2, Here, Return
<1>3. CASE ledger[r].success = "signed" /\ Go(r, "announce") /\ UNCHANGED ledger
  <2>1. Place(r, "announce") /\ Stands(r, "announce")
    BY <1>1, <1>3 DEF Place, Stands, Loop, Purging
  <2>2. "announce" \in PC \ (Entering \cup Purging \cup {"save_key"})
    BY DEF PC, Entering, Purging
  <2> QED
    BY <1>1, <1>3, <2>1, <2>2, Here, MoveOn
<1>e. ledger[r].success = "none" => "success" \notin result[r]
  BY Here DEF Durable, Results
<1>4. CASE /\ ledger[r].success = "none" /\ (result[r] = {} \/ "success" \in result[r])
           /\ Go(r, "announce")
           /\ SaveLedger(r, [ledger[r] EXCEPT !.success = "signed"])
  <2> DEFINE y == [ledger[r] EXCEPT !.success = "signed"]
  <2>1. /\ y \in LedgerRecord /\ y.id = ledger[r].id /\ y.complete = ledger[r].complete
        /\ y.owned = ledger[r].owned /\ y.key = ledger[r].key /\ y.success # "none"
        /\ y.soul = ledger[r].soul
    BY <1>1, SuccessFacts
  <2>2. SaveLedger(r, y)
    BY <1>4
  <2>3. "error" \notin result[r]
    BY <1>4, <1>e
  <2> HIDE DEF y
  <2> QED
    BY <1>1, <1>4, <2>1, <2>2, <2>3, StageKinds, OutcomeKeeps
<1> QED
  BY <1>2, <1>3, <1>4 DEF Sign

LEMMA SettleKeeps == ASSUME IInv, NEW r \in Request, Settle(r) PROVE IInv'
PROOF
<1> DEFINE y == [ledger[r] EXCEPT !.success = "delivered"]
<1>1. /\ pc[r] = "settle" /\ pc[r] \notin Entering \cup Purging \cup {"save_key"}
      /\ HasLedger(r) /\ ledger[r] \in LedgerRecord
  BY Here DEF Settle, At, Entering, Purging
<1>2. run[r].stage = "running" /\ "error" \notin result[r]
  BY <1>1, Here DEF Place, Stands, Durable, Results
<1>3. /\ y \in LedgerRecord /\ y.id = ledger[r].id /\ y.complete = ledger[r].complete
      /\ y.owned = ledger[r].owned /\ y.key = ledger[r].key /\ y.success # "none"
      /\ y.soul = ledger[r].soul
  BY <1>1, SuccessFacts
<1>4. Go(r, "idle") /\ SaveLedger(r, y) /\ UNCHANGED <<run, world, faults>>
  BY DEF Settle
<1> HIDE DEF y
<1> QED
  BY <1>1, <1>2, <1>3, <1>4, OutcomeKeeps

----------------------------------------------------------------------------
(* New records, and the retention pass. *)

(* prepareRequest: a new run id has one key to make and no step complete.  *)
LEMMA PrepareKeeps == ASSUME IInv, NEW r \in Request, Prepare(r) PROVE IInv'
PROOF
<1>1. pc[r] = "prepare" /\ Go(r, "start") /\ "start" \in PC
  BY DEF Prepare, At, PC
<1>2. CASE HasLedger(r) /\ UNCHANGED <<ledger, issued>>
  <2>1. UNCHANGED <<run, ledger, world, faults>>
    BY <1>2 DEF Prepare, world
  <2>2. Works(r, "start") /\ Place(r, "start") /\ Stands(r, "start")
    BY <1>2 DEF Works, Place, Stands, Loop, Purging, Entering
  <2>3. Keys(r, "start")
    BY <1>1, Here DEF Keys
  <2> QED
    BY <1>1, <2>1, <2>2, <2>3, Here, Move
<1>3. CASE /\ ~HasLedger(r) /\ issued' = [issued EXCEPT ![r] = @ + 1]
           /\ SaveLedger(r, NewLedger(<<r, issued'[r]>>))
  <2> DEFINE y == NewLedger(<<r, issued[r] + 1>>)
  <2>1. /\ pc'[r] = "start" /\ issued'[r] = issued[r] + 1 /\ ledger'[r] = y
        /\ run' = run /\ reservation' = reservation /\ soul' = soul /\ minted' = minted
        /\ unsaved' = unsaved /\ result' = result /\ binding' = binding
    BY <1>1, <1>3 DEF Prepare, IInv, Shapes, Go, SaveLedger
  <2>2. issued[r] < MaxRuns /\ issued[r] \in 0 .. MaxRuns
    BY <1>1, <1>3, Here DEF Works, Typed
  <2>3. <<r, issued[r] + 1>> \in RunId
    BY <2>2, ProvisioningAssumption DEF RunId
  <2>4. y \in LedgerRecord
    BY <2>3 DEF NewLedger, LedgerRecord
  <2>5. /\ y.id[1] = r /\ y.complete = {} /\ y.owned = {} /\ ~y.key /\ y.success = "none"
    BY DEF NewLedger
  <2> HIDE DEF y
  <2>6. HasLedger(r)' /\ HasRun(r)' = HasRun(r) /\ Position(r)' = Position(r)
    BY <2>1, <2>4, Missing DEF HasLedger, HasRun, Position
  <2>7. Own(r)
    BY <1>1, <1>3, <2>1 DEF Prepare, IInv, Shapes, Own, Go, SaveLedger
  <2>8. Elsewhere(r) /\ Agent'
    BY <2>1, Here DEF Prepare, Elsewhere, Agent, LiveSoulReserved
  <2>9. Typed(r)'
    BY <1>1, <2>1, <2>2, <2>4, Here, ProvisioningAssumption DEF Typed
  <2>10. Ids(r)'
    BY <2>1, <2>5, <2>6, Here DEF Durable, Ids
  <2>11. \A s : ~Completed(r, s) /\ ~Completed(r, s)'
    BY <1>3, <2>1, <2>5 DEF Completed
  <2>12. Rests(r)'
    BY <2>1, <2>6, <2>11, Here DEF Durable, Rests
  <2>13. Holds(r)'
    BY <2>1, <2>6, <2>11, Here DEF Durable, Holds
  <2>14. Rolls(r)' /\ Results(r)'
    BY <1>3, <2>1, <2>5, <2>6, Here DEF Durable, Rolls, Results, SoulOf
  <2>15. Works(r, "start")' /\ Place(r, "start")' /\ Stands(r, "start")'
    BY <2>6 DEF Works, Place, Stands, Loop, Purging, Entering
  <2>16. minted[r] + 0 <= issued[r] + unsaved[r]
    BY <1>1, <1>3, Here DEF Unmade
  <2>17. Unmade(r)' = 1
    BY <2>1, <2>5, <2>6 DEF Unmade
  <2>18. Keys(r, "start")'
    BY <2>1, <2>2, <2>16, <2>17, Here DEF Keys, Typed
  <2>19. Local(r)'
    BY <2>1, <2>10, <2>12, <2>13, <2>14, <2>15, <2>18 DEF Local, Durable
  <2> QED
    BY <2>7, <2>8, <2>9, <2>19, StepOf
<1> QED
  BY <1>2, <1>3 DEF Prepare

(* Engine.Start without a run.                                             *)
LEMMA StartKeeps == ASSUME IInv, NEW r \in Request, Start(r) PROVE IInv'
PROOF
<1>1. CASE HasRun(r)
  BY <1>1, StartFound
<1>2. CASE ~HasRun(r)
  <2> DEFINE x == NewRun(ledger[r].id)
  <2>1. pc[r] = "start" /\ Go(r, "reconcile") /\ SaveRun(r, x) /\ UNCHANGED <<ledger, world, faults>>
    BY <1>2 DEF Start, At
  <2>2. HasLedger(r) /\ ledger[r] \in LedgerRecord /\ ledger[r].id[1] = r
    BY <2>1, Here DEF Works, Purging, Durable, Ids
  <2>3. ledger[r].id \in RunId /\ "requested" \in Stage
    BY <2>2, StageKinds DEF LedgerRecord
  <2>4. x \in RunRecord
    BY <2>3 DEF NewRun, RunRecord
  <2>5. /\ x.stage = "requested" /\ x.id = ledger[r].id /\ x.created = {} /\ x.compensated = {}
    BY DEF NewRun
  <2> HIDE DEF x
  <2>6. Ids(r)'
    BY <2>1, <2>2, <2>4, <2>5, SavedRun DEF Ids
  <2>7. Position(r)' = 0
    BY <2>1, <2>4, <2>5, SavedRun, StageKinds DEF Position
  <2>8. Rests(r)'
    BY <2>1, <2>4, <2>5, <2>7, SavedRun DEF Rests
  <2>9. Holds(r)'
    BY <1>2, <2>1, <2>4, Here, SavedRun DEF Durable, Holds
  <2>10. Rolls(r)'
    BY <2>1, <2>2, <2>4, <2>5, Here, SavedRun DEF Durable, Rolls
  <2>11. ledger[r].success = "none" /\ "success" \notin result[r]
    BY <1>2, <2>2, Here DEF Durable, Results
  <2>12. Results(r)'
    BY <2>1, <2>4, <2>11, SavedRun DEF Results
  <2>13. Works(r, "reconcile")' /\ Place(r, "reconcile")' /\ Stands(r, "reconcile")'
    BY <2>1, <2>2, <2>4, <2>5, SavedRun DEF Works, Place, Stands, Loop, Purging, Entering
  <2>14. Keys(r, "reconcile")'
    BY <2>1, <2>4, Here, SavedRun DEF Keys, Unmade
  <2>15. Local(r)'
    BY <2>1, <2>4, <2>6, <2>8, <2>9, <2>10, <2>12, <2>13, <2>14, SavedRun DEF Local, Durable
  <2>16. SaveLedger(r, ledger[r]) /\ "reconcile" \in PC
    BY <2>1 DEF IInv, Shapes, SaveLedger, PC
  <2> QED
    BY <2>1, <2>2, <2>4, <2>15, <2>16, Here, QuietStep
<1> QED
  BY <1>1, <1>2

(* The ledger of a run that ended goes first: nothing of its success was   *)
(* signed, and a reservation that stays is that of a live Soul.            *)
LEMMA PurgeKeeps == ASSUME IInv, NEW r \in Request, Purge(r) PROVE IInv'
PROOF
<1>1. pc[r] = "idle" /\ HasRun(r) /\ run[r] \in RunRecord /\ run[r].stage \in Ended
      /\ SaveLedger(r, NoLedger) /\ UNCHANGED <<run, world, faults>>
  BY Here DEF Purge, At
<1>2. PICK p \in Purging : Go(r, p) /\ (p = "purge_release" <=> ReleasesIdentity(r))
  BY DEF Purge, Purging
<1>3. /\ pc'[r] = p /\ run'[r] = run[r] /\ ledger'[r] = NoLedger
      /\ reservation' = reservation /\ soul' = soul /\ minted' = minted
      /\ unsaved' = unsaved /\ result' = result /\ issued' = issued
  BY <1>1, <1>2 DEF IInv, Shapes, Go, SaveLedger, world
<1>4. ~HasLedger(r)' /\ HasRun(r)' /\ \A s : ~Completed(r, s)'
  BY <1>1, <1>3 DEF HasLedger, HasRun, Completed
<1>5. Ids(r)'
  BY <1>1, <1>3, <1>4, Here DEF Durable, Ids
<1>6. Position(r)' = 0
  BY <1>1, <1>3, StageKinds DEF Position
<1>7. Rests(r)'
  BY <1>1, <1>3, <1>6, StageKinds DEF Rests
<1>8. Holds(r)'
  BY <1>4 DEF Holds
<1>9. Rolls(r)'
  BY <1>1, <1>3, <1>4, Here DEF Durable, Rolls
<1>10. "success" \notin result[r]
  BY <1>1, Here, StageKinds DEF Durable, Results
<1>11. Results(r)'
  BY <1>3, <1>4, <1>10 DEF Results
<1>12. Works(r, p)'
  BY <1>4 DEF Works, Purging, Entering
<1>13. Place(r, p)'
  BY <1>1, <1>3 DEF Place, Loop, Purging
<1>14. p = "purge_delete" /\ reservation = r => soul.by = r
  BY <1>2, Here DEF ReleasesIdentity, Agent, LiveSoulReserved
<1>15. Stands(r, p)'
  BY <1>2, <1>3, <1>14 DEF Stands, ReleasesIdentity, Purging
<1>16. minted[r] <= issued[r] + unsaved[r]
  BY <1>1, Here DEF Unmade, Typed
<1>17. Keys(r, p)'
  BY <1>3, <1>4, <1>16, Here DEF Keys, Unmade, Purging, Typed
<1>18. Local(r)'
  BY <1>3, <1>5, <1>7, <1>8, <1>9, <1>11, <1>12, <1>13, <1>15, <1>17 DEF Local, Durable
<1>19. SaveRun(r, run[r]) /\ p \in PC
  BY <1>1 DEF IInv, Shapes, SaveRun, PC, Purging
<1> QED
  BY <1>1, <1>2, <1>18, <1>19, Here, QuietStep

(* The agent id is freed without a live Soul.                              *)
LEMMA PurgeReleaseKeeps == ASSUME IInv, NEW r \in Request, PurgeRelease(r) PROVE IInv'
PROOF
<1>1. /\ pc[r] = "purge_release" /\ reservation = r /\ soul.status # "active"
      /\ HasRun(r) /\ ~HasLedger(r) /\ run[r].stage \in Ended
  BY Here DEF PurgeRelease, At, Works, Place, Stands, Purging, Entering
<1>2. /\ pc'[r] = "purge_delete" /\ reservation' = None /\ run' = run /\ ledger' = ledger
      /\ soul' = soul /\ minted' = minted /\ unsaved' = unsaved /\ result' = result
      /\ issued' = issued /\ reservation' # r
  BY ProvisioningAssumption DEF PurgeRelease, IInv, Shapes, Go
<1>3. Own(r)
  BY DEF PurgeRelease, IInv, Shapes, Own, Go
<1>4. Elsewhere(r)
  BY <1>1, <1>2, ProvisioningAssumption DEF Elsewhere
<1>5. Agent'
  BY <1>1, <1>2, Here DEF PurgeRelease, Agent, LiveSoulReserved
<1>6. Typed(r)'
  BY <1>2, Here DEF Typed, PC
<1>7. Holds(r)'
  BY <1>1, <1>2 DEF Holds, Completed, HasLedger
<1>8. Ids(r)' /\ Rests(r)' /\ Rolls(r)' /\ Results(r)'
  BY <1>2, Here DEF Durable, Ids, Rests, Rolls, Results, HasRun, HasLedger, Completed, Position
<1>9. Works(r, "purge_delete")'
  BY <1>1, <1>2 DEF Works, HasRun, HasLedger, Purging, Entering
<1>10. Place(r, "purge_delete")' /\ Stands(r, "purge_delete")'
  BY <1>1, <1>2 DEF Place, Stands, Loop, Purging
<1>11. Keys(r, "purge_delete")'
  BY <1>1, <1>2, Here DEF Keys, Unmade, HasLedger
<1>12. Local(r)'
  BY <1>2, <1>7, <1>8, <1>9, <1>10, <1>11 DEF Local, Durable
<1> QED
  BY <1>3, <1>4, <1>5, <1>6, <1>12, StepOf

(* The run goes last: what reservation is left has had its Soul.           *)
LEMMA PurgeDeleteKeeps == ASSUME IInv, NEW r \in Request, PurgeDelete(r) PROVE IInv'
PROOF
<1>1. /\ pc[r] = "purge_delete" /\ ~HasLedger(r) /\ (reservation = r => soul.by = r)
      /\ Go(r, "idle") /\ SaveRun(r, NoRun) /\ UNCHANGED <<ledger, world, faults>>
  BY Here DEF PurgeDelete, At, Works, Stands, Purging
<1>2. /\ pc'[r] = "idle" /\ run'[r] = NoRun /\ ledger'[r] = ledger[r]
      /\ reservation' = reservation /\ soul' = soul /\ minted' = minted
      /\ unsaved' = unsaved /\ result' = result /\ issued' = issued
  BY <1>1 DEF IInv, Shapes, Go, SaveRun, world
<1>3. ~HasRun(r)' /\ ~HasLedger(r)' /\ \A s : ~Completed(r, s)'
  BY <1>1, <1>2 DEF HasLedger, HasRun, Completed
<1>4. Ids(r)' /\ Rests(r)' /\ Rolls(r)'
  BY <1>3 DEF Ids, Rests, Rolls
<1>5. Holds(r)'
  BY <1>1, <1>2, <1>3 DEF Holds
<1>6. Results(r)'
  BY <1>1, <1>2, <1>3, Here DEF Durable, Results
<1>7. Works(r, "idle")' /\ Place(r, "idle")' /\ Stands(r, "idle")'
  BY DEF Works, Place, Stands, Loop, Purging, Entering
<1>8. Keys(r, "idle")'
  BY <1>1, <1>2, Here DEF Keys, Unmade, HasLedger
<1>9. Local(r)'
  BY <1>2, <1>4, <1>5, <1>6, <1>7, <1>8 DEF Local, Durable
<1>10. SaveLedger(r, ledger[r]) /\ ledger[r] \in LedgerRecord \cup {NoLedger} /\ "idle" \in PC
  BY <1>1, Here DEF IInv, Shapes, SaveLedger, Typed, PC
<1> QED
  BY <1>1, <1>9, <1>10, Here, QuietStep

(* A revocation leaves the Soul to whoever published it.                   *)
LEMMA RevokeKeeps == ASSUME IInv, Revoke PROVE IInv'
PROOF
<1>1. soul'.by = soul.by /\ soul'.status = "revoked" /\ soul.status = "active"
  BY DEF Revoke, IInv, Agent
<1>2. Shapes'
  BY DEF Revoke, IInv, Shapes
<1>3. Agent'
  BY <1>1 DEF Revoke, IInv, Agent, LiveSoulReserved
<1>4. ASSUME NEW q \in Request PROVE Typed(q)' /\ Local(q)'
  <2>1. Typed(q) /\ Local(q)
    BY DEF IInv
  <2>2. soul' # SoulOf(q)
    BY <1>1 DEF SoulOf
  <2> QED
    BY <1>1, <2>1, <2>2, Untouched DEF Revoke
<1> QED
  BY <1>2, <1>3, <1>4 DEF IInv

(* A step in which nothing happens.                                        *)
LEMMA StutterKeeps == ASSUME IInv, UNCHANGED vars PROVE IInv'
PROOF
<1>1. Shapes' /\ Agent'
  BY DEF vars, world, IInv, Shapes, Agent, LiveSoulReserved
<1>2. ASSUME NEW q \in Request PROVE Typed(q)' /\ Local(q)'
  <2>1. Typed(q) /\ Local(q)
    BY DEF IInv
  <2> QED
    BY <2>1, Untouched DEF vars, world
<1> QED
  BY <1>1, <1>2 DEF IInv

----------------------------------------------------------------------------
(* The invariant is inductive. *)

(* Before the first request nothing is reserved, recorded or published.    *)
LEMMA InitIInv == ASSUME Init PROVE IInv
PROOF
<1>1. Shapes
  BY DEF Init, Shapes
<1>2. Agent
  BY ProvisioningAssumption DEF Init, Agent, LiveSoulReserved
<1>3. ASSUME NEW r \in Request PROVE Typed(r) /\ Local(r)
  <2>1. /\ pc[r] = "idle" /\ run[r] = NoRun /\ ledger[r] = NoLedger /\ reservation # r
        /\ minted[r] = 0 /\ unsaved[r] = 0 /\ result[r] = {} /\ issued[r] = 0
    BY ProvisioningAssumption DEF Init
  <2>2. ~HasRun(r) /\ ~HasLedger(r) /\ \A s : ~Completed(r, s)
    BY <2>1 DEF HasRun, HasLedger, Completed
  <2>3. Typed(r)
    BY <2>1, ProvisioningAssumption DEF Typed, PC
  <2>4. Durable(r)
    BY <2>1, <2>2 DEF Durable, Ids, Rests, Holds, Rolls, Results
  <2>5. Works(r, "idle") /\ Place(r, "idle") /\ Stands(r, "idle")
    BY DEF Works, Place, Stands, Loop, Purging, Entering
  <2>6. Keys(r, "idle")
    BY <2>1, <2>2 DEF Keys, Unmade
  <2> QED
    BY <2>1, <2>3, <2>4, <2>5, <2>6 DEF Local
<1> QED
  BY <1>1, <1>2, <1>3 DEF IInv

(* Every step of the lock's holder keeps the invariant ...                 *)
LEMMA WorkKeeps == ASSUME IInv, NEW r \in Request, Work(r) PROVE IInv'
BY PrepareKeeps, StartKeeps, ReconcileKeeps, InspectKeeps, VerifyKeeps, ReserveKeeps,
   RegisterUnitKeeps, SelectReleaseKeeps, DeployKeeps, EnrollKeeps, SaveKeyKeeps, EnsureKeeps, RecordKeeps,
   PublishSoulKeeps, SaveSoulKeeps, CheckpointKeeps, AdvanceKeeps, RollbackKeeps,
   BeginAbortKeeps, CompensateKeeps, RecordCompensationKeeps, FinishAbortKeeps, MarkKeeps,
   EnsureTerminalKeeps, PublishErrorKeeps, SaveTerminalKeeps, SignKeeps, AnnounceKeeps,
   SettleKeeps, PurgeReleaseKeeps, PurgeDeleteKeeps
DEF Work

(* ... and so does every failure of one.                                   *)
LEMMA FailsKeeps == ASSUME IInv, NEW r \in Request, Fails(r) PROVE IInv'
BY InspectFailsKeeps, ApplyFailsKeeps, PublishSoulFailsKeeps, SaveSoulFailsKeeps,
   CompensateFailsKeeps, AbandonKeeps
DEF Fails

LEMMA NextKeeps == ASSUME IInv, [Next]_vars PROVE IInv'
PROOF
<1>1. ASSUME NEW r \in Request, Receive(r) \/ Refuse(r) \/ Operate(r) \/ Purge(r) PROVE IInv'
  BY <1>1, ReceiveKeeps, RefuseKeeps, OperateKeeps, PurgeKeeps
<1>2. ASSUME NEW r \in Request, Work(r) \/ Fails(r) PROVE IInv'
  BY <1>2, WorkKeeps, FailsKeeps
<1> QED
  BY <1>1, <1>2, RevokeKeeps, StutterKeeps DEF Next

(* The invariant, of every reachable state: what governed provisioning     *)
(* keeps of runs, ledgers, reservation, keys and results.                  *)
THEOREM ProvisioningInvariant == Spec => []IInv
BY InitIInv, NextKeeps, PTL DEF Spec

----------------------------------------------------------------------------
(* The properties. *)

(* Records, places and results have their types, and a workflow past its   *)
(* entry has the ledger of prepareRequest and the run of Engine.Start.     *)
THEOREM WellTyped == Spec => []TypeOK
BY ProvisioningInvariant, IInvTypeOK, PTL

(* The agent id of an active Soul stays reserved for the request that      *)
(* published it: no purge (releasesIdentity), retry or rollback of any     *)
(* request frees it.                                                       *)
THEOREM LiveIdentityIsReserved == Spec => []LiveSoulReserved
PROOF
<1>1. IInv => LiveSoulReserved
  BY DEF IInv, Agent
<1> QED
  BY <1>1, ProvisioningInvariant, PTL

(* deliverSuccess and the error projection exclude each other for good: a  *)
(* success on the relays is of a running saga, and never beside a terminal *)
(* error of the saga, whatever the handler has refused.                    *)
THEOREM OneKindOfResult == Spec => []ResultExclusive
PROOF
<1>1. ASSUME IInv PROVE ResultExclusive
  <2>1. ASSUME NEW r \in Request, "success" \in result[r]
        PROVE  "error" \notin result[r] /\ HasRun(r) /\ run[r].stage = "running"
    BY <1>1, <2>1, Here DEF Durable, Results
  <2> QED
    BY <2>1 DEF ResultExclusive
<1> QED
  BY <1>1, ProvisioningInvariant, PTL

(* A checkpointed stage rests on ledger records of every step before it,   *)
(* completed steps belong to a run of the same run id, and a reservation   *)
(* outlives its run only for an agent that has had a Soul.                 *)
THEOREM LineageIsKept == Spec => []LineageKept
PROOF
<1>1. ASSUME IInv PROVE LineageKept
  <2>1. ASSUME NEW r \in Request, HasRun(r),
               NEW i \in 1 .. Rank(run[r].stage) \ {Len(Forward)}
        PROVE  Completed(r, Forward[i])
    <3>1. i \in 1 .. Rank(run[r].stage) /\ i # 9
      BY <2>1, ForwardStages
    <3>2. run[r].stage # "failed_recoverable"
      BY <3>1, StageKinds
    <3>3. i \in 1 .. Position(r)
      BY <3>1, <3>2 DEF Position
    <3> QED
      BY <1>1, <2>1, <3>1, <3>3, Here DEF Durable, Rests
  <2>2. ASSUME NEW r \in Request
        PROVE  /\ HasLedger(r) /\ ledger[r].complete # {} => HasRun(r) /\ run[r].id = ledger[r].id
               /\ reservation = r => HasRun(r) \/ soul.by = r
    BY <1>1, Here DEF Durable, Ids, Holds
  <2> QED
    BY <2>1, <2>2 DEF LineageKept
<1> QED
  BY <1>1, ProvisioningInvariant, PTL

(* A run that SafeAbort reports rolled back has compensated every resource *)
(* of its steps, owns none of them and has left no Soul of its own active, *)
(* across interrupted and resumed rollbacks; the projection of the end     *)
(* that ensureTerminal adds to its lineage stays.                          *)
THEOREM RollbackIsComplete == Spec => []RolledBackComplete
PROOF
<1>1. ASSUME IInv PROVE RolledBackComplete
  <2>1. ASSUME NEW r \in Request, HasRun(r), run[r].stage = "rolled_back"
        PROVE  /\ run[r].created \ Ended \subseteq run[r].compensated
               /\ HasLedger(r) => run[r].created \cap ledger[r].owned = {}
               /\ "running" \in run[r].created => soul # SoulOf(r)
    <3>1. run[r].created \ Ended \subseteq run[r].compensated
      BY <1>1, <2>1, Here DEF Durable, Rolls
    <3>2. HasLedger(r) => ledger[r].owned \cap Ended = {} /\ run[r].compensated \cap ledger[r].owned = {}
      BY <1>1, <2>1, Here, StageKinds DEF Durable, Rolls, LedgerRecord
    <3>3. "running" \notin Ended
      BY StageKinds
    <3>4. "running" \in run[r].created => soul # SoulOf(r)
      BY <1>1, <2>1, <3>1, <3>3, Here DEF Durable, Rolls
    <3> QED
      BY <3>1, <3>2, <3>4
  <2> QED
    BY <2>1 DEF RolledBackComplete
<1> QED
  BY <1>1, ProvisioningInvariant, PTL

(* ensureIdentity never makes a second key for a run id unless the save of *)
(* the first was lost.                                                     *)
THEOREM OneKeyPerRun == Spec => []KeyMintedOnce
PROOF
<1>1. ASSUME IInv PROVE KeyMintedOnce
  <2>1. ASSUME NEW r \in Request PROVE minted[r] <= issued[r] + unsaved[r]
    <3>1. Unmade(r) \in {0, 1}
      BY DEF Unmade
    <3> QED
      BY <1>1, <3>1, Here DEF Keys, Typed
  <2> QED
    BY <2>1 DEF KeyMintedOnce
<1> QED
  BY <1>1, ProvisioningInvariant, PTL

----------------------------------------------------------------------------
(* Effects belong to the holder of the reservation. *)

(* A step past the reservation is worked on by its holder.                 *)
LEMMA EffectReserved ==
  ASSUME IInv, NEW r \in Request, pc[r] = "apply", Target(r) # "identity_reserved"
  PROVE  reservation = r
PROOF
<1>1. HasRun(r) /\ run[r].stage \in Before
  BY AtApply
<1>2. Rank(run[r].stage) # 0
  BY <1>1, NextFacts DEF Target
<1>3. run[r].stage \in ForwardStage
  BY <1>2, RankFacts
<1> QED
  BY <1>1, <1>3, Reserved

(* What a step may do to the unit, the binding, the intent, the keys and   *)
(* the Soul.                                                               *)
Effects ==
  /\ unit' # unit => unit' = reservation
  /\ binding' # binding => binding' = reservation
  /\ intent' # intent => intent'[1] = reservation
  /\ \A r \in Request : minted'[r] # minted[r] => r = reservation
  /\ (soul' # soul /\ soul'.status = "active") => soul'.by = reservation

LEMMA RegisterUnitEffects == ASSUME IInv, NEW r \in Request, RegisterUnit(r) PROVE Effects
PROOF
<1>1. pc[r] = "apply" /\ Target(r) = "service_registered"
  BY DEF RegisterUnit, At
<1>2. reservation = r
  BY <1>1, EffectReserved
<1> QED
  BY <1>2 DEF RegisterUnit, Effects

LEMMA SelectReleaseEffects == ASSUME IInv, NEW r \in Request, SelectRelease(r) PROVE Effects
PROOF
<1>1. pc[r] = "apply" /\ Target(r) = "release_selected"
  BY DEF SelectRelease, At
<1>2. reservation = r
  BY <1>1, EffectReserved
<1> QED
  BY <1>2 DEF SelectRelease, Effects

LEMMA DeployEffects == ASSUME IInv, NEW r \in Request, Deploy(r) PROVE Effects
PROOF
<1>1. pc[r] = "apply" /\ Target(r) = "runtime_allocated"
  BY DEF Deploy, At
<1>2. reservation = r
  BY <1>1, EffectReserved
<1>3. ledger[r].id[1] = r
  BY <1>1, AtApply, Here DEF Durable, Ids
<1> QED
  BY <1>2, <1>3 DEF Deploy, Effects

LEMMA EnrollEffects == ASSUME IInv, NEW r \in Request, Enroll(r) PROVE Effects
PROOF
<1>1. pc[r] = "apply" /\ Target(r) = "signer_enrolled"
  BY DEF Enroll, At
<1>2. reservation = r
  BY <1>1, EffectReserved
<1>3. \A q \in Request \ {r} : minted'[q] = minted[q]
  BY DEF Enroll, IInv, Shapes
<1> QED
  BY <1>2, <1>3 DEF Enroll, Effects

LEMMA PublishEffects ==
  ASSUME IInv, NEW r \in Request, PublishSoul(r) \/ PublishSoulFails(r) PROVE Effects
PROOF
<1>1. run[r].stage \in {"dm_verified", "running"} /\ HasRun(r)
  BY AtPublish, Here DEF PublishSoul, PublishSoulFails
<1>2. reservation = r
  BY <1>1, ForwardStages, Reserved
<1>3. soul' = soul \/ soul'.by = r
  BY DEF PublishSoul, PublishSoulFails, SoulOf
<1> QED
  BY <1>2, <1>3 DEF PublishSoul, PublishSoulFails, Effects

LEMMA NoEffects == ASSUME UNCHANGED <<unit, binding, intent, minted, soul>> PROVE Effects
BY DEF Effects

LEMMA WorkEffects == ASSUME IInv, NEW r \in Request, Work(r) PROVE Effects
PROOF
<1>1. CASE Prepare(r) \/ Start(r) \/ Reconcile(r) \/ Inspect(r) \/ Verify(r) \/ Reserve(r)
  BY <1>1, NoEffects DEF Prepare, Start, Reconcile, Inspect, Verify, Reserve, world
<1>2. CASE SaveKey(r) \/ Ensure(r) \/ Record(r) \/ SaveSoul(r) \/ Checkpoint(r) \/ Advance(r)
  BY <1>2, NoEffects DEF SaveKey, Ensure, Record, SaveSoul, Checkpoint, Advance, world
<1>3. CASE Rollback(r) \/ BeginAbort(r) \/ Compensate(r) \/ RecordCompensation(r)
           \/ FinishAbort(r) \/ Mark(r)
  BY <1>3, NoEffects DEF Rollback, BeginAbort, Compensate, RecordCompensation, FinishAbort, Mark, world
<1>4. CASE EnsureTerminal(r) \/ PublishError(r) \/ SaveTerminal(r) \/ Sign(r) \/ Announce(r)
           \/ Settle(r) \/ PurgeRelease(r) \/ PurgeDelete(r)
  BY <1>4, NoEffects DEF EnsureTerminal, PublishError, SaveTerminal, Sign, Announce, Settle,
     PurgeRelease, PurgeDelete, world
<1> QED
  BY <1>1, <1>2, <1>3, <1>4, RegisterUnitEffects, SelectReleaseEffects, DeployEffects,
     EnrollEffects, PublishEffects DEF Work

LEMMA NextEffects == ASSUME IInv, [Next]_vars PROVE Effects
PROOF
<1>1. ASSUME NEW r \in Request, Receive(r) \/ Refuse(r) \/ Operate(r) \/ Purge(r) PROVE Effects
  BY <1>1, NoEffects DEF Receive, Refuse, Operate, Purge, world
<1>2. ASSUME NEW r \in Request, Fails(r) PROVE Effects
  <2>1. CASE PublishSoulFails(r)
    BY <2>1, PublishEffects
  <2>2. CASE InspectFails(r) \/ ApplyFails(r) \/ SaveSoulFails(r) \/ CompensateFails(r) \/ Abandon(r)
    BY <2>2, NoEffects DEF InspectFails, ApplyFails, SaveSoulFails, CompensateFails, Abandon, world
  <2> QED
    BY <1>2, <2>1, <2>2 DEF Fails
<1>3. ASSUME Revoke PROVE Effects
  BY <1>3 DEF Revoke, Effects, IInv, Agent
<1>4. ASSUME UNCHANGED vars PROVE Effects
  BY <1>4, NoEffects DEF vars, world
<1> QED
  BY <1>1, <1>2, <1>3, <1>4, WorkEffects DEF Next

(* Registering the unit, binding a release, deploying it, making a key and *)
(* publishing an active Soul are steps of the request the agent id is reserved for:      *)
(* ensureReservation, replays, rollbacks and the retention pass never let  *)
(* two requests act for one agent.                                         *)
THEOREM EffectsAreReserved == Spec => EffectsHoldReservation
PROOF
<1>1. ASSUME IInv, [Next]_vars
      PROVE  [/\ unit' # unit => unit' = reservation
              /\ binding' # binding => binding' = reservation
              /\ intent' # intent => intent'[1] = reservation
              /\ \A r \in Request : minted'[r] # minted[r] => r = reservation
              /\ (soul' # soul /\ soul'.status = "active") => soul'.by = reservation
             ]_<<unit, binding, intent, minted, soul>>
  BY <1>1, NextEffects DEF Effects
<1> QED
  BY <1>1, ProvisioningInvariant, PTL DEF Spec, EffectsHoldReservation
=============================================================================
