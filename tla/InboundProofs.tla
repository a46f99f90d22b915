--------------------------- MODULE InboundProofs ---------------------------
(***************************************************************************)
(* Proofs about inbound synchronisation, for any relays, events, windows   *)
(* and bounds.                                                             *)
(***************************************************************************)
EXTENDS Inbound, FiniteSetTheorems, SequenceTheorems, TLAPS

----------------------------------------------------------------------------
(* Handlers run once. *)

(* The store gate: what was handled is in the store until retention takes  *)
(* it, so that only retention can open the gate again.  A crash between    *)
(* the store of an event and its handlers leaves it held and not handled.  *)
Gate ==
  /\ handled \subseteq held \cup pruned
  /\ rerun \subseteq pruned

(* Retention takes nothing from the two together.                          *)
LEMMA PruneGate ==
  ASSUME NEW kept, held \subseteq kept, Prune(kept)
  PROVE  held \cup pruned \subseteq held' \cup pruned' /\ pruned \subseteq pruned'
BY DEF Prune

LEMMA KeepsGate ==
  ASSUME Gate, UNCHANGED <<held, handled, rerun, pruned>>
  PROVE  Gate'
BY DEF Gate

LEMMA ConsumeNewGate == ASSUME Gate, ConsumeNew PROVE Gate'
PROOF
<1>1. CASE Item.ev \in Own
  BY <1>1 DEF ConsumeNew, Gate
<1>2. CASE Item.ev \notin Own
  <2>1. Item.ev \in handled => Item.ev \in pruned
    BY DEF ConsumeNew, Gate
  <2> QED
    BY <1>2, <2>1 DEF ConsumeNew, Gate
<1> QED
  BY <1>1, <1>2

LEMMA ConsumeCaughtUpGate == ASSUME Gate, ConsumeCaughtUp PROVE Gate'
PROOF
<1>1. CASE Prune(held)
  BY <1>1, PruneGate DEF ConsumeCaughtUp, Gate
<1>2. CASE UNCHANGED <<held, pruned>>
  BY <1>2, KeepsGate DEF ConsumeCaughtUp
<1> QED
  BY <1>1, <1>2 DEF ConsumeCaughtUp

LEMMA CrashGate == ASSUME Gate, Crash PROVE Gate'
PROOF
<1>1. PICK stored \in SUBSET Storing : Prune(held \cup stored)
  BY DEF Crash
<1>2. held \cup pruned \subseteq held' \cup pruned' /\ pruned \subseteq pruned'
  BY <1>1, PruneGate
<1> QED
  BY <1>2 DEF Crash, Gate

LEMMA RestartGate == ASSUME Gate, Restart PROVE Gate'
PROOF
<1>1. held \cup pruned \subseteq held' \cup pruned' /\ pruned \subseteq pruned'
  BY PruneGate DEF Restart
<1> QED
  BY <1>1 DEF Restart, Gate

LEMMA ConsumeGate == ASSUME Gate, Consume PROVE Gate'
PROOF
<1>1. CASE ConsumeRejected \/ ConsumeFailed \/ ConsumeDuplicate \/ ConsumeBegin
           \/ ConsumeCommitRegular \/ ConsumeCommitStatus \/ ConsumeRelayFailed \/ ConsumeGaveUp
  BY <1>1, KeepsGate DEF ConsumeRejected, ConsumeFailed, ConsumeDuplicate, ConsumeBegin,
     ConsumeCommitRegular, ConsumeCommitStatus, ConsumeRelayFailed, ConsumeGaveUp, history
<1> QED
  BY <1>1, ConsumeNewGate, ConsumeCaughtUpGate DEF Consume

(* The workers and the relays do not touch the store.                      *)
LEMMA WorkersGate ==
  ASSUME Gate, NEW k \in Relay, Work(k) \/ Drop(k) \/ Closed(k)
  PROVE  Gate'
PROOF
<1>1. UNCHANGED <<held, history>>
  BY DEF Work, Connect, Negentropy, NegentropyUnavailable, Page, Widen, Open, Drop, Closed,
     Caught, OnlyWorker
<1> QED
  BY <1>1, KeepsGate DEF history

LEMMA NextGate == ASSUME Gate, [Next]_vars PROVE Gate'
PROOF
<1>1. CASE Tick \/ \E k \in Relay, e \in Event : Arrive(k, e)
  BY <1>1, KeepsGate DEF Tick, Arrive, history
<1>2. CASE UNCHANGED vars
  BY <1>2, KeepsGate DEF vars, history
<1> QED
  BY <1>1, <1>2, WorkersGate, ConsumeGate, CrashGate, RestartGate DEF Next

(* handleEvent's store gate: across overlap replay, copies from several    *)
(* relays, failed stores and restarts, the handlers run a second time only *)
(* for an event that retention had removed.                                *)
THEOREM HandlersGated == Spec => []HandledOnce
PROOF
<1>1. Init => Gate
  BY DEF Init, Gate
<1>2. Gate => HandledOnce
  BY DEF Gate, HandledOnce
<1> QED
  BY <1>1, <1>2, NextGate, PTL DEF Spec

----------------------------------------------------------------------------
(* Minima, maxima and the two filters. *)

LEMMA FilterIs == Filter = {"status", "regular"}
<1>1. Filters = <<"status", "regular">> /\ DOMAIN Filters = {1, 2}
  BY DEF Filters
<1> QED
  BY <1>1 DEF Filter, ToSet

LEMMA MaxOfTwo ==
  ASSUME NEW a \in Int, NEW b \in Int
  PROVE  Max({a, b}) = IF a >= b THEN a ELSE b
<1> DEFINE m == IF a >= b THEN a ELSE b
<1>1. m \in {a, b} /\ \A y \in {a, b} : m >= y
  OBVIOUS
<1>2. \A x \in {a, b} : (\A y \in {a, b} : x >= y) => x = m
  OBVIOUS
<1> HIDE DEF m
<1>3. Max({a, b}) = m
  BY <1>1, <1>2 DEF Max
<1> QED BY <1>3 DEF m

LEMMA MinOfTwo ==
  ASSUME NEW a \in Int, NEW b \in Int
  PROVE  Min({a, b}) = IF a <= b THEN a ELSE b
<1> DEFINE m == IF a <= b THEN a ELSE b
<1>1. m \in {a, b} /\ \A y \in {a, b} : m =< y
  OBVIOUS
<1>2. \A x \in {a, b} : (\A y \in {a, b} : x =< y) => x = m
  OBVIOUS
<1> HIDE DEF m
<1>3. Min({a, b}) = m
  BY <1>1, <1>2 DEF Min
<1> QED BY <1>3 DEF m

LEMMA MinOfMany ==
  ASSUME NEW S \in SUBSET Nat, S # {}
  PROVE  Min(S) \in S /\ \A x \in S : Min(S) <= x
<1>1. PICK m \in S : \A y \in S : ~(<<y, m>> \in OpToRel(<, Nat))
  BY NatLessThanWellFounded, WFMin
<1>2. ASSUME NEW y \in S PROVE m =< y
  <2>1. <<y, m>> \in Nat \X Nat /\ <<y, m>>[1] = y /\ <<y, m>>[2] = m
    OBVIOUS
  <2>2. ~(y < m)
    BY <1>1, <2>1 DEF OpToRel
  <2> QED BY <2>2
<1> QED
  BY <1>2 DEF Min

LEMMA ResumeType ==
  ASSUME NEW c \in Nat, NEW now \in Nat
  PROVE  /\ ResumeSince(c, now) \in Nat
         /\ c > 0 => ResumeSince(c, now) = IF c > Overlap THEN c - Overlap ELSE 0
<1>1. Overlap \in Nat /\ Lookback \in Nat
  BY InboundAssumption
<1>2. Max({0, c - Overlap}) = IF 0 >= c - Overlap THEN 0 ELSE c - Overlap
  BY <1>1, MaxOfTwo
<1>3. Max({0, now - Lookback}) = IF 0 >= now - Lookback THEN 0 ELSE now - Lookback
  BY <1>1, MaxOfTwo
<1> QED
  BY <1>1, <1>2, <1>3 DEF ResumeSince

----------------------------------------------------------------------------
(* Types. *)

Items ==
  [op : {"begin"}, relay : Relay, filter : Filter]
    \cup [op : {"event"}, relay : Relay, ev : Event]
    \cup [op : {"commit"}, relay : Relay, filter : Filter, floor : Nat]
    \cup [op : {"caughtUp", "failed", "gaveUp"}, relay : Relay]

Idle    == [pc : {"down", "live", "stopped"}]
Asking  == [pc : {"negentropy"}, filter : {"status"}, start : Nat]
Paging  == [pc : {"page", "widen"}, filter : Filter, start : Nat, since : Nat,
            until : Nat, paged : BOOLEAN, first : Nat]
Opening == [pc : {"open"}, filter : Filter, start : Nat]

(* A session begins at an instant that has passed; a status filter is read *)
(* from the beginning.                                                     *)
WorkerOK(w, now) ==
  /\ w \in Idle \cup Asking \cup Paging \cup Opening
  /\ w \notin Idle => w.start >= Start /\ w.start <= now
  /\ w \in Paging /\ w.filter = "status" => w.since = 0

ProgressRecord ==
  [caughtUp : BOOLEAN, failed : BOOLEAN, live : {"none", "begun", "answered"},
   ready : BOOLEAN, dirty : BOOLEAN, gaveUp : BOOLEAN]

GenRecord == [newest : Nat, live : BOOLEAN, dirty : BOOLEAN]

Typed ==
  /\ clock \in Nat /\ clock >= Start
  /\ created \in [Event -> Nat]
  /\ at \in [Relay -> SUBSET Event]
  /\ \A k \in Relay : \A e \in at[k] : created[e] > 0
  /\ held \in SUBSET Event
  /\ cursor \in [Relay -> Nat]
  /\ DOMAIN worker = Relay /\ worker = [k \in Relay |-> worker[k]]
  /\ \A k \in Relay : WorkerOK(worker[k], clock)
  /\ active \in [Relay -> SUBSET Filter]
  /\ chan \in Seq(Items)
  /\ gen \in [Relay -> GenRecord]
  /\ progress \in [Relay -> ProgressRecord]

LEMMA Constants ==
  /\ IsFiniteSet(Event) /\ Regular \subseteq Event
  /\ Overlap \in Nat /\ Lookback \in Nat /\ Lag \in Nat /\ Lag <= Overlap
  /\ Start \in Nat /\ Start > Overlap
  /\ PageLimit \in Nat /\ PageLimit > 0
BY InboundAssumption DEF Start

LEMMA ItemTypes ==
  ASSUME NEW k \in Relay
  PROVE  /\ \A f \in Filter : Begin(k, f) \in Items
         /\ \A f \in Filter, t \in Nat : Commit(k, f, t) \in Items
         /\ \A e \in Event : Deliver(k, e) \in Items
         /\ \A op \in {"caughtUp", "failed", "gaveUp"} : Note(op, k) \in Items
BY DEF Begin, Commit, Deliver, Note, Items

LEMMA ItemForms ==
  ASSUME NEW it \in Items
  PROVE  /\ it.relay \in Relay
         /\ it.op = "begin" => it = Begin(it.relay, it.filter) /\ it.filter \in Filter
         /\ it.op = "event" => it = Deliver(it.relay, it.ev) /\ it.ev \in Event
         /\ it.op = "commit" => /\ it = Commit(it.relay, it.filter, it.floor)
                                /\ it.filter \in Filter /\ it.floor \in Nat
         /\ it.op \in {"caughtUp", "failed", "gaveUp"} => it = Note(it.op, it.relay)
BY DEF Begin, Commit, Deliver, Note, Items

(* What an answer holds: the events of S, each once for the relay.         *)
LEMMA DeliveriesAre ==
  ASSUME NEW k \in Relay, NEW S \in SUBSET Event, NEW items \in Deliveries(k, S)
  PROVE  /\ items \in Seq(Items)
         /\ \A i \in 1 .. Len(items) : \E e \in S : items[i] = Deliver(k, e)
         /\ \A e \in S : \E i \in 1 .. Len(items) : items[i] = Deliver(k, e)
<1>1. PICK s \in Newest(S) : items = [i \in DOMAIN s |-> Deliver(k, s[i])]
  BY DEF Deliveries
<1>2. IsFiniteSet(S) /\ Cardinality(S) \in Nat
  BY Constants, FS_Subset, FS_CardinalityType
<1>3. /\ s \in [1 .. Cardinality(S) -> S] /\ DOMAIN s = 1 .. Cardinality(S)
      /\ \A e \in S : \E i \in DOMAIN s : s[i] = e
  BY DEF Newest
<1>4. \A i \in 1 .. Cardinality(S) : s[i] \in S /\ items[i] = Deliver(k, s[i])
  BY <1>1, <1>3
<1>5. items \in [1 .. Cardinality(S) -> Items]
  BY <1>1, <1>3, <1>4, ItemTypes
<1>6. items \in Seq(Items) /\ Len(items) = Cardinality(S)
  BY <1>2, <1>5
<1> QED
  BY <1>3, <1>4, <1>6

(* Where a session's requests begin.                                       *)
LEMMA CatchUpType ==
  ASSUME Typed, NEW k \in Relay, NEW f \in Filter, NEW start \in Nat,
         start >= Start, start <= clock
  PROVE  /\ WorkerOK(CatchUp(k, f, start), clock)
         /\ CatchUp(k, f, start).start = start /\ CatchUp(k, f, start).filter = f
         /\ CatchUp(k, f, start).pc = IF f = "status" THEN "negentropy" ELSE "page"
<1>1. ResumeSince(cursor[k], start) \in Nat /\ clock \in Nat
  BY ResumeType DEF Typed
<1>2. CASE f = "status"
  BY <1>2 DEF CatchUp, WorkerOK, Idle, Asking, Paging, Opening
<1>3. CASE f # "status"
  <2> DEFINE since == ResumeSince(cursor[k], start)
             w == [pc |-> "page", filter |-> f, start |-> start, since |-> since,
                   until |-> 0, paged |-> FALSE, first |-> clock]
  <2>1. CatchUp(k, f, start) = w
    BY <1>3 DEF CatchUp
  <2>2. w \in Paging
    <3> HIDE DEF since
    <3> QED BY <1>1 DEF Paging, since
  <2> QED BY <1>3, <2>1, <2>2 DEF WorkerOK, Idle
<1> QED
  BY <1>2, <1>3

LEMMA PageFacts ==
  ASSUME Typed, NEW k \in Relay, worker[k].pc = "page",
         NEW P \in Pages(Matching(k, worker[k].filter, worker[k].since, worker[k].until))
  PROVE  LET w == worker[k]
             M == Matching(k, w.filter, w.since, w.until)
         IN  /\ P \in SUBSET Event /\ P \subseteq M
             /\ Cardinality(P) \in Nat /\ Cardinality(P) <= PageLimit
             /\ Cardinality(P) < PageLimit => P = M
             /\ Cardinality(P) = PageLimit =>
                  LET oldest == Min({created[e] : e \in P})
                  IN  /\ oldest \in Nat /\ oldest > 0
                      /\ \A e \in P : oldest <= created[e]
                      /\ \A e \in M \ P : created[e] <= oldest
                      /\ NextUntil(w, P) \in Nat
<1> DEFINE w == worker[k]
           M == Matching(k, w.filter, w.since, w.until)
           C == {created[e] : e \in P}
<1>0. w \in Paging /\ w.until \in Nat /\ w.since \in Nat
  BY DEF Typed, WorkerOK, Idle, Asking, Paging, Opening
<1>1. M \in SUBSET at[k] /\ at[k] \in SUBSET Event /\ M \in SUBSET Event
  BY DEF Matching, Typed
<1>2. /\ P \in SUBSET M /\ Cardinality(P) = Min({PageLimit, Cardinality(M)})
      /\ \A e \in P, d \in M \ P : created[e] >= created[d]
  BY DEF Pages
<1>3. P \in SUBSET Event
  BY <1>1, <1>2
<1>4. /\ IsFiniteSet(M) /\ Cardinality(M) \in Nat /\ IsFiniteSet(P) /\ Cardinality(P) \in Nat
      /\ Cardinality(P) <= Cardinality(M) /\ (Cardinality(P) = Cardinality(M) => P = M)
  <2>1. IsFiniteSet(M) /\ Cardinality(M) \in Nat
    BY <1>1, Constants, FS_Subset, FS_CardinalityType
  <2>2. /\ IsFiniteSet(P) /\ Cardinality(P) <= Cardinality(M)
        /\ Cardinality(P) = Cardinality(M) => P = M
    BY <1>2, <2>1, FS_Subset
  <2> QED BY <2>1, <2>2, FS_CardinalityType
<1>5. Cardinality(P) = IF PageLimit <= Cardinality(M) THEN PageLimit ELSE Cardinality(M)
  BY <1>2, <1>4, Constants, MinOfTwo
<1>6. Cardinality(P) <= PageLimit /\ (Cardinality(P) < PageLimit => P = M)
  BY <1>4, <1>5, Constants
<1>7. ASSUME Cardinality(P) = PageLimit
      PROVE  /\ Min(C) \in Nat /\ Min(C) > 0
             /\ \A e \in P : Min(C) <= created[e]
             /\ \A e \in M \ P : created[e] <= Min(C)
             /\ NextUntil(w, P) \in Nat
  <2>1. P # {}
    BY <1>7, Constants, FS_EmptySet
  <2>2. \A e \in P : created[e] \in Nat /\ created[e] > 0
    BY <1>1, <1>2 DEF Typed
  <2>3. C \in SUBSET Nat /\ C # {}
    BY <2>1, <2>2
  <2>4. PICK m \in P : Min(C) = created[m]
    BY <2>3, MinOfMany
  <2>5. \A e \in P : Min(C) <= created[e]
    BY <2>3, MinOfMany
  <2>6. \A e \in M \ P : created[e] <= Min(C)
    <3> SUFFICES ASSUME NEW e \in M \ P PROVE created[e] <= Min(C)
      OBVIOUS
    <3>1. created[m] >= created[e] /\ created[m] \in Nat /\ created[e] \in Nat
      BY <1>1, <1>2, <2>2 DEF Typed
    <3> QED BY <2>4, <3>1
  <2>7. Min(C) \in Nat /\ Min(C) > 0
    BY <2>2, <2>4
  <2>8. NextUntil(w, P) \in Nat
    <3> DEFINE oldest == Min(C)
    <3>1. NextUntil(w, P) =
            LET next == IF w.until # 0 /\ oldest >= w.until THEN w.until - 1 ELSE oldest
            IN  IF next <= 0 \/ next < w.since THEN 0 ELSE next
      BY DEF NextUntil
    <3>2. oldest \in Nat
      BY <2>7
    <3> HIDE DEF oldest, w
    <3> QED BY <1>0, <3>1, <3>2
  <2> QED BY <2>5, <2>6, <2>7, <2>8
<1> QED
  BY <1>2, <1>3, <1>4, <1>6, <1>7

----------------------------------------------------------------------------
(* A relay's current session in the channel: what follows the last note    *)
(* that a session of the relay failed. *)

Cut(k) == \E j \in 1 .. Len(chan) : chan[j] = Note("failed", k)

Whole(k, i) == \A j \in i .. Len(chan) : chan[j] # Note("failed", k)

Pending(k, it) == \E i \in 1 .. Len(chan) : chan[i] = it /\ Whole(k, i)

(* No status REQ begins behind the note that the catch-up is complete.     *)
Ordered(k) ==
  \A i \in 1 .. Len(chan) : \A j \in 1 .. Len(chan) :
    i < j /\ chan[i] = Note("caughtUp", k) /\ Whole(k, i) => chan[j] # Begin(k, "status")

LEMMA Appended ==
  ASSUME chan \in Seq(Items), NEW items \in Seq(Items), Send(items)
  PROVE  /\ chan' \in Seq(Items) /\ Len(chan') = Len(chan) + Len(items)
         /\ Len(chan) \in Nat /\ Len(items) \in Nat
         /\ \A i \in 1 .. Len(chan) : chan'[i] = chan[i]
         /\ \A i \in 1 .. Len(items) : chan'[Len(chan) + i] = items[i]
         /\ \A i \in 1 .. Len(chan') : i \notin 1 .. Len(chan)
              => i - Len(chan) \in 1 .. Len(items) /\ chan'[i] = items[i - Len(chan)]
<1>1. chan' = chan \o items
  BY DEF Send
<1>2. Len(chan) \in Nat /\ Len(items) \in Nat /\ chan' \in Seq(Items)
      /\ Len(chan') = Len(chan) + Len(items)
  BY <1>1
<1>3. \A i \in 1 .. Len(chan) : chan'[i] = chan[i]
  BY <1>1, <1>2
<1>4. ASSUME NEW i \in 1 .. Len(items) PROVE chan'[Len(chan) + i] = items[i]
  BY <1>1, <1>2
<1>5. ASSUME NEW i \in 1 .. Len(chan'), i \notin 1 .. Len(chan)
      PROVE  i - Len(chan) \in 1 .. Len(items) /\ chan'[i] = items[i - Len(chan)]
  BY <1>1, <1>2, <1>5
<1> QED
  BY <1>2, <1>3, <1>4, <1>5

LEMMA AppendKeeps ==
  ASSUME chan \in Seq(Items), NEW items \in Seq(Items), Send(items), NEW k,
         \A i \in 1 .. Len(items) : items[i] # Note("failed", k)
  PROVE  /\ Cut(k)' <=> Cut(k)
         /\ \A it : Pending(k, it) => Pending(k, it)'
         /\ \A it : Pending(k, it)' => Pending(k, it) \/ \E i \in 1 .. Len(items) : items[i] = it
         /\ \A i \in 1 .. Len(items) : Pending(k, items[i])'
         /\ Ordered(k) /\ \/ \A i \in 1 .. Len(items) : items[i] # Begin(k, "status")
                          \/ ~Pending(k, Note("caughtUp", k))'
              => Ordered(k)'
<1> DEFINE n == Len(chan)
           m == Len(items)
           bad == Note("failed", k)
<1>1. /\ n \in Nat /\ m \in Nat /\ Len(chan') = n + m
      /\ \A i \in 1 .. n : chan'[i] = chan[i]
      /\ \A i \in 1 .. m : chan'[n + i] = items[i]
      /\ \A i \in 1 .. n + m : i \notin 1 .. n => i - n \in 1 .. m /\ chan'[i] = items[i - n]
  BY Appended
<1>2. \A i \in 1 .. n + m : i \notin 1 .. n => chan'[i] # bad
  BY <1>1
<1>3. ASSUME NEW i \in 1 .. n PROVE Whole(k, i)' <=> Whole(k, i)
  <2>1. ASSUME Whole(k, i), NEW j \in i .. n + m PROVE chan'[j] # bad
    BY <1>1, <1>2, <2>1 DEF Whole
  <2>2. ASSUME Whole(k, i)', NEW j \in i .. n PROVE chan[j] # bad
    <3>1. j \in i .. Len(chan') /\ j \in 1 .. n
      BY <1>1
    <3>2. chan'[j] # bad
      BY <2>2, <3>1 DEF Whole
    <3> QED BY <1>1, <3>1, <3>2
  <2> QED BY <1>1, <2>1, <2>2 DEF Whole
<1>4. ASSUME NEW i \in 1 .. n + m, i \notin 1 .. n PROVE Whole(k, i)'
  BY <1>1, <1>2, <1>4 DEF Whole
<1>5. Cut(k)' <=> Cut(k)
  BY <1>1, <1>2 DEF Cut
<1>6. ASSUME NEW it, Pending(k, it) PROVE Pending(k, it)'
  BY <1>1, <1>3, <1>6 DEF Pending
<1>7. ASSUME NEW it, Pending(k, it)'
      PROVE  Pending(k, it) \/ \E i \in 1 .. m : items[i] = it
  <2>1. PICK i \in 1 .. n + m : chan'[i] = it /\ Whole(k, i)'
    BY <1>1, <1>7 DEF Pending
  <2> QED BY <1>1, <1>3, <2>1 DEF Pending
<1>8. ASSUME NEW i \in 1 .. m PROVE Pending(k, items[i])'
  <2>1. n + i \in 1 .. n + m /\ n + i \notin 1 .. n
    BY <1>1
  <2> QED BY <1>1, <1>4, <2>1 DEF Pending
<1>9. ASSUME Ordered(k),
             \/ \A i \in 1 .. m : items[i] # Begin(k, "status")
             \/ ~Pending(k, Note("caughtUp", k))'
      PROVE  Ordered(k)'
  <2> SUFFICES ASSUME NEW i \in 1 .. n + m, NEW j \in 1 .. n + m, i < j,
                      chan'[i] = Note("caughtUp", k), Whole(k, i)'
               PROVE  chan'[j] # Begin(k, "status")
    BY <1>1 DEF Ordered
  <2>1. Pending(k, Note("caughtUp", k))'
    BY <1>1 DEF Pending
  <2>2. CASE j \in 1 .. n
    <3>1. i \in 1 .. n
      BY <1>1, <2>2
    <3> QED BY <1>1, <1>3, <1>9, <2>2, <3>1 DEF Ordered
  <2>3. CASE j \notin 1 .. n
    BY <1>1, <1>9, <2>1, <2>3
  <2> QED BY <2>2, <2>3
<1> QED
  BY <1>5, <1>6, <1>7, <1>8, <1>9

(* The end of a session cuts everything before it off.                     *)
LEMMA AppendCuts ==
  ASSUME chan \in Seq(Items), NEW items \in Seq(Items), Send(items), NEW k,
         NEW c \in 1 .. Len(items), items[c] = Note("failed", k),
         \A i \in c + 1 .. Len(items) : items[i] = Note("gaveUp", k)
  PROVE  /\ Cut(k)'
         /\ \A it : Pending(k, it)' => it = Note("gaveUp", k)
         /\ Ordered(k)'
<1> DEFINE n == Len(chan)
           m == Len(items)
<1>1. /\ n \in Nat /\ m \in Nat /\ Len(chan') = n + m
      /\ \A i \in 1 .. m : chan'[n + i] = items[i]
      /\ \A i \in 1 .. n + m : i \notin 1 .. n => i - n \in 1 .. m /\ chan'[i] = items[i - n]
  BY Appended
<1>2. n + c \in 1 .. n + m /\ chan'[n + c] = Note("failed", k)
  BY <1>1
<1>3. Cut(k)'
  BY <1>1, <1>2 DEF Cut
<1>4. ASSUME NEW i \in 1 .. n + m, Whole(k, i)' PROVE i > n + c
  BY <1>1, <1>2, <1>4 DEF Whole
<1>5. ASSUME NEW i \in 1 .. n + m, Whole(k, i)' PROVE chan'[i] = Note("gaveUp", k)
  <2>1. i > n + c /\ i \notin 1 .. n /\ i - n \in c + 1 .. m
    BY <1>1, <1>4, <1>5
  <2> QED BY <1>1, <2>1
<1>6. ASSUME NEW it, Pending(k, it)' PROVE it = Note("gaveUp", k)
  BY <1>1, <1>5, <1>6 DEF Pending
<1>7. Note("gaveUp", k) # Note("caughtUp", k)
  BY DEF Note
<1>8. Ordered(k)'
  BY <1>1, <1>5, <1>7 DEF Ordered
<1> QED
  BY <1>3, <1>6, <1>8

(* Receiving the first item.                                               *)
LEMMA Received ==
  ASSUME chan \in Seq(Items), chan # << >>, chan' = Tail(chan), NEW k
  PROVE  /\ chan' \in Seq(Items) /\ chan[1] \in Items
         /\ Cut(k)' => Cut(k)
         /\ Cut(k) => Cut(k)' \/ chan[1] = Note("failed", k)
         /\ chan[1] = Note("failed", k) => Cut(k)
         /\ \A it : Pending(k, it)' => Pending(k, it)
         /\ \A it : Pending(k, it) => Pending(k, it)' \/ (chan[1] = it /\ ~Cut(k))
         /\ ~Cut(k) => Pending(k, chan[1])
         /\ Ordered(k) => Ordered(k)'
         /\ Ordered(k) /\ ~Cut(k) /\ chan[1] = Note("caughtUp", k)
              => ~Pending(k, Begin(k, "status"))'
<1> DEFINE n == Len(chan)
<1>1. /\ n \in Nat /\ n >= 1 /\ Len(chan') = n - 1 /\ chan' \in Seq(Items)
      /\ \A i \in 1 .. n - 1 : chan'[i] = chan[i + 1]
      /\ chan[1] \in Items
  <2>1. n \in Nat /\ n >= 1 /\ n # 0
    BY EmptySeq
  <2>2. Len(Tail(chan)) = n - 1 /\ Tail(chan) \in Seq(Items)
    BY <2>1
  <2>3. \A i \in 1 .. n - 1 : Tail(chan)[i] = chan[i + 1]
    BY <2>1
  <2>4. chan[1] \in Items
    BY <2>1
  <2> QED BY <2>1, <2>2, <2>3, <2>4
<1>2. ASSUME NEW i \in 1 .. n - 1 PROVE Whole(k, i)' <=> Whole(k, i + 1)
  <2>1. ASSUME Whole(k, i)', NEW j \in i + 1 .. n PROVE chan[j] # Note("failed", k)
    <3>1. j - 1 \in i .. n - 1 /\ j - 1 \in 1 .. n - 1 /\ (j - 1) + 1 = j
      BY <1>1
    <3>2. chan'[j - 1] # Note("failed", k)
      BY <1>1, <2>1, <3>1 DEF Whole
    <3> QED BY <1>1, <3>1, <3>2
  <2>2. ASSUME Whole(k, i + 1), NEW j \in i .. n - 1 PROVE chan'[j] # Note("failed", k)
    <3>1. j + 1 \in i + 1 .. n /\ j \in 1 .. n - 1
      BY <1>1
    <3> QED BY <1>1, <2>2, <3>1 DEF Whole
  <2> QED BY <1>1, <2>1, <2>2 DEF Whole
<1>3. Cut(k)' => Cut(k)
  <2> SUFFICES ASSUME NEW j \in 1 .. n - 1, chan'[j] = Note("failed", k) PROVE Cut(k)
    BY <1>1 DEF Cut
  <2>1. j + 1 \in 1 .. n
    BY <1>1
  <2> QED BY <1>1, <2>1 DEF Cut
<1>4. Cut(k) => Cut(k)' \/ chan[1] = Note("failed", k)
  <2> SUFFICES ASSUME NEW j \in 1 .. n, chan[j] = Note("failed", k), j # 1 PROVE Cut(k)'
    BY DEF Cut
  <2>1. j - 1 \in 1 .. n - 1 /\ (j - 1) + 1 = j
    BY <1>1
  <2> QED BY <1>1, <2>1 DEF Cut
<1>5. chan[1] = Note("failed", k) => Cut(k)
  BY <1>1 DEF Cut
<1>6. ASSUME NEW it, Pending(k, it)' PROVE Pending(k, it)
  <2>1. PICK i \in 1 .. n - 1 : chan'[i] = it /\ Whole(k, i)'
    BY <1>1, <1>6 DEF Pending
  <2>2. i + 1 \in 1 .. n
    BY <1>1
  <2> QED BY <1>1, <1>2, <2>1, <2>2 DEF Pending
<1>7. Whole(k, 1) <=> ~Cut(k)
  BY DEF Whole, Cut
<1>8. ASSUME NEW it, Pending(k, it) PROVE Pending(k, it)' \/ (chan[1] = it /\ ~Cut(k))
  <2>1. PICK i \in 1 .. n : chan[i] = it /\ Whole(k, i)
    BY <1>8 DEF Pending
  <2>2. CASE i = 1
    BY <1>7, <2>1, <2>2
  <2>3. CASE i # 1
    <3>1. i - 1 \in 1 .. n - 1 /\ (i - 1) + 1 = i
      BY <1>1, <2>3
    <3>2. chan'[i - 1] = it /\ Whole(k, i - 1)'
      BY <1>1, <1>2, <2>1, <3>1
    <3> QED BY <1>1, <3>1, <3>2 DEF Pending
  <2> QED BY <2>2, <2>3
<1>9. ~Cut(k) => Pending(k, chan[1])
  BY <1>1, <1>7 DEF Pending
<1>10. ASSUME Ordered(k) PROVE Ordered(k)'
  <2> SUFFICES ASSUME NEW i \in 1 .. n - 1, NEW j \in 1 .. n - 1, i < j,
                      chan'[i] = Note("caughtUp", k), Whole(k, i)'
               PROVE  chan'[j] # Begin(k, "status")
    BY <1>1 DEF Ordered
  <2>1. i + 1 \in 1 .. n /\ j + 1 \in 1 .. n /\ i + 1 < j + 1
    BY <1>1
  <2> QED BY <1>1, <1>2, <1>10, <2>1 DEF Ordered
<1>11. ASSUME Ordered(k), ~Cut(k), chan[1] = Note("caughtUp", k)
       PROVE  ~Pending(k, Begin(k, "status"))'
  <2> SUFFICES ASSUME NEW i \in 1 .. n - 1, chan'[i] = Begin(k, "status") PROVE FALSE
    BY <1>1 DEF Pending
  <2>1. 1 \in 1 .. n /\ i + 1 \in 1 .. n /\ 1 < i + 1
    BY <1>1
  <2> QED BY <1>1, <1>7, <1>11, <2>1 DEF Ordered
<1> QED
  BY <1>1, <1>3, <1>4, <1>5, <1>6, <1>8, <1>9, <1>10, <1>11

----------------------------------------------------------------------------
(* What a worker sends. *)

(* Items of one relay.                                                     *)
OfRelay(k, items) ==
  items \in Seq(Items) /\ \A i \in 1 .. Len(items) : items[i].relay = k

LEMMA OneItem ==
  ASSUME NEW k \in Relay, NEW a \in Items, a.relay = k
  PROVE  /\ OfRelay(k, <<a>>) /\ Len(<<a>>) = 1 /\ <<a>>[1] = a
         /\ OfRelay(k, << >>) /\ Len(<< >>) = 0
BY DEF OfRelay

(* u is s followed by t.                                                   *)
Joining(s, t, u) ==
  /\ Len(u) = Len(s) + Len(t) /\ Len(s) \in Nat /\ Len(t) \in Nat
  /\ \A i \in 1 .. Len(s) : u[i] = s[i]
  /\ \A i \in 1 .. Len(t) : u[Len(s) + i] = t[i]
  /\ \A i \in 1 .. Len(u) :
       \/ \E j \in 1 .. Len(s) : u[i] = s[j]
       \/ \E j \in 1 .. Len(t) : u[i] = t[j]
  /\ \A i \in 1 .. Len(s) : \E j \in 1 .. Len(u) : u[j] = s[i]
  /\ \A i \in 1 .. Len(t) : \E j \in 1 .. Len(u) : u[j] = t[i]

LEMMA Joins ==
  ASSUME NEW k \in Relay, NEW s, NEW t, OfRelay(k, s), OfRelay(k, t)
  PROVE  OfRelay(k, s \o t) /\ Joining(s, t, s \o t)
<1>1. /\ s \in Seq(Items) /\ t \in Seq(Items) /\ s \o t \in Seq(Items)
      /\ Len(s) \in Nat /\ Len(t) \in Nat /\ Len(s \o t) = Len(s) + Len(t)
  BY DEF OfRelay
<1>2. \A i \in 1 .. Len(s) : (s \o t)[i] = s[i]
  BY <1>1
<1>3. ASSUME NEW i \in 1 .. Len(t) PROVE (s \o t)[Len(s) + i] = t[i]
  BY <1>1
<1>4. ASSUME NEW i \in 1 .. Len(s \o t)
      PROVE  \/ \E j \in 1 .. Len(s) : (s \o t)[i] = s[j]
             \/ \E j \in 1 .. Len(t) : (s \o t)[i] = t[j]
  <2>1. CASE i \in 1 .. Len(s)
    BY <1>2, <2>1
  <2>2. CASE i \notin 1 .. Len(s)
    <3>1. i - Len(s) \in 1 .. Len(t) /\ Len(s) + (i - Len(s)) = i
      BY <1>1, <2>2
    <3> QED BY <1>3, <3>1
  <2> QED BY <2>1, <2>2
<1>5. \A i \in 1 .. Len(s) : i \in 1 .. Len(s \o t)
  BY <1>1
<1>6. \A i \in 1 .. Len(t) : Len(s) + i \in 1 .. Len(s \o t)
  BY <1>1
<1>7. OfRelay(k, s \o t)
  BY <1>1, <1>4 DEF OfRelay
<1> QED
  BY <1>1, <1>2, <1>3, <1>4, <1>5, <1>6, <1>7 DEF Joining

LEMMA Joined ==
  ASSUME NEW k \in Relay, NEW s, NEW t, OfRelay(k, s), OfRelay(k, t)
  PROVE  /\ OfRelay(k, s \o t)
         /\ Len(s \o t) = Len(s) + Len(t) /\ Len(s) \in Nat /\ Len(t) \in Nat
         /\ \A i \in 1 .. Len(s) : (s \o t)[i] = s[i]
         /\ \A i \in 1 .. Len(t) : (s \o t)[Len(s) + i] = t[i]
         /\ \A i \in 1 .. Len(s \o t) :
              \/ \E j \in 1 .. Len(s) : (s \o t)[i] = s[j]
              \/ \E j \in 1 .. Len(t) : (s \o t)[i] = t[j]
         /\ \A i \in 1 .. Len(s) : \E j \in 1 .. Len(s \o t) : (s \o t)[j] = s[i]
         /\ \A i \in 1 .. Len(t) : \E j \in 1 .. Len(s \o t) : (s \o t)[j] = t[i]
<1> DEFINE u == s \o t
<1>1. OfRelay(k, u) /\ Joining(s, t, u)
  BY Joins, Zenon
<1> HIDE DEF u
<1>2. /\ Len(u) = Len(s) + Len(t) /\ Len(s) \in Nat /\ Len(t) \in Nat
      /\ \A i \in 1 .. Len(s) : u[i] = s[i]
      /\ \A i \in 1 .. Len(t) : u[Len(s) + i] = t[i]
      /\ \A i \in 1 .. Len(u) :
           \/ \E j \in 1 .. Len(s) : u[i] = s[j]
           \/ \E j \in 1 .. Len(t) : u[i] = t[j]
      /\ \A i \in 1 .. Len(s) : \E j \in 1 .. Len(u) : u[j] = s[i]
      /\ \A i \in 1 .. Len(t) : \E j \in 1 .. Len(u) : u[j] = t[i]
  BY <1>1, Zenon DEF Joining
<1> QED BY <1>1, <1>2, Zenon DEF u

(* One item before, or behind, the items of its relay.                     *)
LEMMA Attached ==
  ASSUME NEW k \in Relay, NEW a \in Items, a.relay = k, NEW s, OfRelay(k, s),
         NEW one, one = <<a>>, NEW u, u = one \o s \/ u = s \o one
  PROVE  /\ OfRelay(k, u)
         /\ \A i \in 1 .. Len(u) : u[i] = a \/ \E j \in 1 .. Len(s) : u[i] = s[j]
         /\ \A i \in 1 .. Len(s) : \E j \in 1 .. Len(u) : u[j] = s[i]
<1>1. OfRelay(k, one) /\ Len(one) = 1 /\ one[1] = a
  BY OneItem
<1>2. \A j \in 1 .. Len(one) : one[j] = a
  BY <1>1
<1>3. OfRelay(k, u) /\ (Joining(one, s, u) \/ Joining(s, one, u))
  BY <1>1, Joins, Zenon
<1> QED BY <1>2, <1>3, Zenon DEF Joining

LEMMA ItemRelays ==
  ASSUME NEW k
  PROVE  /\ \A f : Begin(k, f).relay = k /\ Begin(k, f).op = "begin"
         /\ \A f, t : Commit(k, f, t).relay = k /\ Commit(k, f, t).op = "commit"
         /\ \A e : Deliver(k, e).relay = k /\ Deliver(k, e).op = "event" /\ Deliver(k, e).ev = e
         /\ \A op : Note(op, k).relay = k /\ Note(op, k).op = op
         /\ \A f, g : Begin(k, f) = Begin(k, g) => f = g
BY DEF Begin, Commit, Deliver, Note

(* Deliveries of relay k, and nothing else.                                *)
Events(k, items) ==
  OfRelay(k, items) /\ \A i \in 1 .. Len(items) : \E e \in Event : items[i] = Deliver(k, e)

LEMMA DeliveriesForm ==
  ASSUME NEW k \in Relay, NEW S \in SUBSET Event, NEW items \in Deliveries(k, S)
  PROVE  Events(k, items)
<1>1. /\ items \in Seq(Items)
      /\ \A i \in 1 .. Len(items) : \E e \in S : items[i] = Deliver(k, e)
  BY DeliveriesAre
<1>2. \A i \in 1 .. Len(items) : \E e \in Event : items[i] = Deliver(k, e)
  BY <1>1
<1>3. \A i \in 1 .. Len(items) : items[i].relay = k
  BY <1>2, ItemRelays
<1> QED
  BY <1>1, <1>2, <1>3 DEF Events, OfRelay

(* A worker's step: items of its relay, and a new state for itself.        *)
WorkerMoves(k, items, w, a) ==
  /\ OfRelay(k, items) /\ Send(items)
  /\ worker' = [worker EXCEPT ![k] = w] /\ WorkerOK(w, clock)
  /\ active' = [active EXCEPT ![k] = a] /\ a \in SUBSET Filter
  /\ OnlyWorker

LEMMA MovesTyped ==
  ASSUME Typed, NEW k \in Relay, NEW items, NEW w, NEW a, WorkerMoves(k, items, w, a)
  PROVE  Typed' /\ worker'[k] = w /\ active'[k] = a
<1>1. chan' \in Seq(Items)
  BY Appended DEF WorkerMoves, OfRelay, Typed
<1>2. /\ UNCHANGED <<clock, created, at, held, cursor, gen, progress>>
      /\ worker' = [worker EXCEPT ![k] = w] /\ WorkerOK(w, clock)
      /\ active' = [active EXCEPT ![k] = a] /\ a \in SUBSET Filter
  BY DEF WorkerMoves, OnlyWorker, relays
<1>4. DOMAIN worker' = Relay /\ worker' = [j \in Relay |-> worker'[j]] /\ worker'[k] = w
  BY <1>2 DEF Typed
<1>5. \A j \in Relay : WorkerOK(worker'[j], clock')
  BY <1>2 DEF Typed
<1>6. active' \in [Relay -> SUBSET Filter] /\ active'[k] = a
  BY <1>2 DEF Typed
<1> QED
  BY <1>1, <1>2, <1>4, <1>5, <1>6 DEF Typed

----------------------------------------------------------------------------
(* The proof of a relay's statuses. *)

(* The consumer has the status of relay k, will receive it in the current  *)
(* session, or knows that the current session lost it.                     *)
Got(k, e) ==
  \/ e \in held \cup rejected
  \/ Pending(k, Deliver(k, e))
  \/ ~Cut(k) /\ progress[k].dirty

AllGot(k) == \A e \in at[k] \cap Status : Got(k, e)

(* The part of the statuses that the live REQ of the session will not      *)
(* repeat.                                                                 *)
OldGot(k) ==
  \A e \in at[k] \cap Status : Got(k, e) \/ created[e] >= worker[k].start - Overlap

(* The consumer has not seen the current session begin its live status     *)
(* REQ, and will not see it before a note that the catch-up is complete.   *)
Before(k) ==
  /\ Ordered(k)
  /\ ~Cut(k) => /\ ~progress[k].ready /\ progress[k].live = "none"
                /\ progress[k].caughtUp => ~Pending(k, Begin(k, "status"))

(* Nothing of a catch-up that was completed is left.                       *)
Unbegun(k) ==
  ~Pending(k, Note("caughtUp", k)) /\ (~Cut(k) => ~progress[k].caughtUp)

(* What the worker has sent at its place: paging downwards, everything     *)
(* above the page; after the status catch-up, all that is old.             *)
PastStatus(k, w) ==
  \/ w.pc = "widen" /\ w.filter = "status"
  \/ w.pc \in {"page", "widen"} /\ w.filter = "regular" /\ "status" \in active[k]
  \/ w.pc = "open" /\ w.filter = "status"

Covers(k) ==
  LET w == worker[k] IN
  /\ w.pc = "down" => Unbegun(k)
  /\ w.pc = "page" /\ w.filter = "status" /\ w.until # 0 =>
       \A e \in at[k] \cap Status :
         created[e] > w.until => Got(k, e) \/ created[e] >= w.start - Overlap
  /\ PastStatus(k, w) => OldGot(k)
  /\ w.pc = "open" /\ w.filter = "status" => "status" \in active[k]

LoomOf(k) ==
  \/ Before(k) /\ Covers(k)
  \/ Following(k, "status") /\ AllGot(k)

LEMMA StatusAreEvents ==
  ASSUME Typed, NEW k \in Relay
  PROVE  /\ Status \subseteq Event /\ at[k] \subseteq Event
         /\ \A e \in Event : e \in Status <=> FilterOf(e) = "status"
BY Constants DEF Status, FilterOf, Typed

(* A worker that sends deliveries, commits and other starts of regular     *)
(* REQs keeps its relay before the live status REQ, and what it sent is    *)
(* got.                                                                    *)
LEMMA SendsKeep ==
  ASSUME Typed, NEW k \in Relay, NEW items, NEW w, NEW a, WorkerMoves(k, items, w, a),
         \A i \in 1 .. Len(items) : items[i].op \in {"event", "commit", "begin", "caughtUp"}
  PROVE  /\ \A e : Got(k, e) => Got(k, e)'
         /\ \A e : (\E i \in 1 .. Len(items) : items[i] = Deliver(k, e)) => Got(k, e)'
         /\ Before(k) /\ \/ \A i \in 1 .. Len(items) : items[i] # Begin(k, "status")
                         \/ /\ Unbegun(k)
                            /\ \A i \in 1 .. Len(items) : items[i].op # "caughtUp"
              => Before(k)'
<1>1. /\ chan \in Seq(Items) /\ items \in Seq(Items) /\ Send(items)
      /\ UNCHANGED <<held, rejected, progress>>
  BY DEF WorkerMoves, OfRelay, OnlyWorker, history, Typed
<1>2. \A i \in 1 .. Len(items) : items[i] # Note("failed", k)
  BY ItemRelays
<1>3. /\ Cut(k)' <=> Cut(k)
      /\ \A it : Pending(k, it) => Pending(k, it)'
      /\ \A it : Pending(k, it)' => Pending(k, it) \/ \E i \in 1 .. Len(items) : items[i] = it
      /\ \A i \in 1 .. Len(items) : Pending(k, items[i])'
      /\ Ordered(k) /\ \/ \A i \in 1 .. Len(items) : items[i] # Begin(k, "status")
                       \/ ~Pending(k, Note("caughtUp", k))'
           => Ordered(k)'
  BY <1>1, <1>2, AppendKeeps
<1>4. ASSUME NEW e, Got(k, e) PROVE Got(k, e)'
  BY <1>1, <1>3, <1>4 DEF Got
<1>5. ASSUME NEW e, NEW i \in 1 .. Len(items), items[i] = Deliver(k, e) PROVE Got(k, e)'
  BY <1>3, <1>5 DEF Got
<1>6. ASSUME Before(k), \A i \in 1 .. Len(items) : items[i] # Begin(k, "status")
      PROVE  Before(k)'
  BY <1>1, <1>3, <1>6 DEF Before
<1>7. ASSUME Before(k), Unbegun(k), \A i \in 1 .. Len(items) : items[i].op # "caughtUp"
      PROVE  Before(k)'
  <2>1. \A i \in 1 .. Len(items) : items[i] # Note("caughtUp", k)
    BY <1>7, ItemRelays
  <2>2. ~Pending(k, Note("caughtUp", k))'
    BY <1>3, <1>7, <2>1 DEF Unbegun
  <2> QED BY <1>1, <1>3, <1>7, <2>2 DEF Before, Unbegun
<1> QED
  BY <1>4, <1>5, <1>6, <1>7

(* A session that ends cuts itself off.                                    *)
LEMMA EndKeeps ==
  ASSUME Typed, NEW k \in Relay, NEW items, NEW w, NEW a, WorkerMoves(k, items, w, a),
         w.pc \in {"down", "stopped"},
         NEW c \in 1 .. Len(items), items[c] = Note("failed", k),
         \A i \in c + 1 .. Len(items) : items[i] = Note("gaveUp", k)
  PROVE  LoomOf(k)'
<1>1. chan \in Seq(Items) /\ items \in Seq(Items) /\ Send(items)
  BY DEF WorkerMoves, OfRelay, Typed
<1>2. Cut(k)' /\ Ordered(k)' /\ \A it : Pending(k, it)' => it = Note("gaveUp", k)
  BY <1>1, AppendCuts
<1>3. worker'[k] = w
  BY MovesTyped
<1>4. Before(k)'
  BY <1>2 DEF Before
<1>5. Unbegun(k)'
  BY <1>2 DEF Unbegun, Note
<1>6. Covers(k)'
  BY <1>3, <1>5 DEF Covers, PastStatus
<1> QED
  BY <1>4, <1>6 DEF LoomOf

(* The end of a filter's catch-up.  What it covered, with the items it     *)
(* sends, is all that is old.                                              *)
LEMMA CaughtKeeps ==
  ASSUME Typed, NEW k \in Relay, worker[k].pc \in {"negentropy", "page", "widen"},
         NEW items, Events(k, items), NEW floor \in Nat, Caught(k, items, floor)
  PROVE  \E sent, w, a :
           /\ WorkerMoves(k, sent, w, a)
           /\ LoomOf(k) /\ (worker[k].filter = "status" =>
                 \A e \in at[k] \cap Status :
                   \/ Got(k, e) \/ created[e] >= worker[k].start - Overlap
                   \/ \E i \in 1 .. Len(items) : items[i] = Deliver(k, e))
              => LoomOf(k)'
<1> DEFINE v == worker[k]
<1>1. /\ v \in Asking \cup Paging /\ v \notin Idle /\ v.filter \in Filter /\ v.start \in Nat
      /\ v.start >= Start /\ v.start <= clock
  <2>1. WorkerOK(v, clock)
    BY DEF Typed
  <2>2. v \notin Idle /\ v \notin Opening
    BY DEF Idle, Opening
  <2>3. v \in Asking \cup Paging
    BY <2>1, <2>2 DEF WorkerOK
  <2>4. v.filter \in Filter /\ v.start \in Nat
    BY <2>3, FilterIs DEF Asking, Paging
  <2> QED BY <2>1, <2>2, <2>3, <2>4 DEF WorkerOK
<1>2. Filter = {"status", "regular"}
  BY FilterIs
<1> DEFINE commit == Commit(k, v.filter, floor)
           done   == items \o <<commit>>
<1>3. commit \in Items /\ commit.relay = k /\ commit.op = "commit"
  BY <1>1, ItemTypes, ItemRelays
<1>4. /\ OfRelay(k, items) /\ OfRelay(k, done)
      /\ \A i \in 1 .. Len(done) : (\E j \in 1 .. Len(items) : done[i] = items[j]) \/ done[i] = commit
      /\ \A i \in 1 .. Len(items) : \E j \in 1 .. Len(done) : done[j] = items[i]
  <2>1. OfRelay(k, items) /\ OfRelay(k, <<commit>>) /\ Len(<<commit>>) = 1 /\ <<commit>>[1] = commit
    BY <1>3, OneItem DEF Events
  <2> HIDE DEF commit
  <2> QED BY <2>1, Joined
<1>5. UNCHANGED active /\ OnlyWorker
  BY DEF Caught
<1>6. active[k] \in SUBSET Filter /\ active' = [active EXCEPT ![k] = active[k]]
  BY <1>5 DEF Typed
<1>7. ASSUME NEW last \in Items, last.relay = k, last.op \in {"begin", "caughtUp"},
             last # Begin(k, "status"), NEW w, WorkerOK(w, clock),
             Send(done \o <<last>>), worker' = [worker EXCEPT ![k] = w],
             w.start = v.start, w.pc \in {"page", "open"},
             w.pc = "page" => w.filter = "regular",
             w.pc = "open" /\ w.filter = "status" => "status" \in active[k]
      PROVE  \E sent, x, a :
               /\ WorkerMoves(k, sent, x, a)
               /\ LoomOf(k) /\ (v.filter = "status" =>
                     \A e \in at[k] \cap Status :
                       \/ Got(k, e) \/ created[e] >= v.start - Overlap
                       \/ \E i \in 1 .. Len(items) : items[i] = Deliver(k, e))
                  => LoomOf(k)'
  <2> DEFINE sent == done \o <<last>>
  <2>1. /\ OfRelay(k, sent)
        /\ \A i \in 1 .. Len(sent) : (\E j \in 1 .. Len(done) : sent[i] = done[j]) \/ sent[i] = last
        /\ \A i \in 1 .. Len(done) : \E j \in 1 .. Len(sent) : sent[j] = done[i]
    <3>1. OfRelay(k, <<last>>) /\ Len(<<last>>) = 1 /\ <<last>>[1] = last
      BY <1>7, OneItem
    <3> HIDE DEF done
    <3> QED BY <1>4, <3>1, Joined
  <2>2. WorkerMoves(k, sent, w, active[k])
    <3> HIDE DEF sent
    <3> QED BY <1>5, <1>6, <1>7, <2>1 DEF WorkerMoves, sent
  <2>3. \A i \in 1 .. Len(sent) : /\ sent[i].op \in {"event", "commit", "begin", "caughtUp"}
                                  /\ sent[i] # Begin(k, "status")
    <3>1. \A j \in 1 .. Len(items) : items[j].op = "event" /\ items[j] # Begin(k, "status")
      BY ItemRelays DEF Events
    <3>2. commit # Begin(k, "status")
      BY <1>3, ItemRelays
    <3>3. \A j \in 1 .. Len(done) : /\ done[j].op \in {"event", "commit"}
                                    /\ done[j] # Begin(k, "status")
      <4> HIDE DEF done, commit
      <4> QED BY <1>3, <1>4, <3>1, <3>2
    <3> HIDE DEF done, sent
    <3> QED BY <1>7, <2>1, <3>3
  <2>4. /\ worker'[k] = w /\ active'[k] = active[k]
        /\ UNCHANGED <<at, created>>
    BY <2>2, MovesTyped DEF OnlyWorker, relays, WorkerMoves
  <2>5. ASSUME LoomOf(k),
               v.filter = "status" =>
                 \A e \in at[k] \cap Status :
                   \/ Got(k, e) \/ created[e] >= v.start - Overlap
                   \/ \E i \in 1 .. Len(items) : items[i] = Deliver(k, e)
        PROVE  LoomOf(k)'
    <3>1. Before(k) /\ Covers(k)
      BY <2>5 DEF LoomOf, Following
    <3> HIDE DEF sent, done, commit
    <3>2. /\ Before(k)' /\ \A e : Got(k, e) => Got(k, e)'
          /\ \A e : (\E i \in 1 .. Len(sent) : sent[i] = Deliver(k, e)) => Got(k, e)'
      BY <2>2, <2>3, <3>1, SendsKeep
    <3>3. ASSUME NEW e, NEW i \in 1 .. Len(items), items[i] = Deliver(k, e)
          PROVE  Got(k, e)'
      <4>1. PICK j \in 1 .. Len(done) : done[j] = items[i]
        BY <1>4
      <4>2. PICK l \in 1 .. Len(sent) : sent[l] = done[j]
        BY <2>1
      <4> QED BY <3>2, <3>3, <4>1, <4>2
    <3>4. "status" \in active[k] => OldGot(k)'
      <4> SUFFICES ASSUME "status" \in active[k], NEW e \in at[k] \cap Status
                   PROVE  Got(k, e)' \/ created[e] >= v.start - Overlap
        BY <1>7, <2>4 DEF OldGot
      <4>1. CASE v.filter = "status"
        BY <2>5, <3>2, <3>3, <4>1
      <4>2. CASE v.filter # "status"
        <5>1. v.pc \in {"page", "widen"} /\ v.filter = "regular"
          BY <1>1, <1>2, <4>2 DEF Asking, Paging
        <5> QED BY <3>1, <3>2, <5>1 DEF Covers, PastStatus, OldGot
      <4> QED BY <4>1, <4>2
    <3>5. Covers(k)'
      BY <1>7, <2>4, <3>4 DEF Covers, PastStatus
    <3> QED BY <3>2, <3>5 DEF LoomOf
  <2> QED BY <2>2, <2>5
<1>8. CASE HasNext(k, v.filter)
  <2> DEFINE last == Begin(k, "regular")
             w    == CatchUp(k, "regular", v.start)
  <2>1. last \in Items /\ last.relay = k /\ last.op = "begin" /\ last # Begin(k, "status")
    BY <1>2, ItemTypes, ItemRelays
  <2>2. /\ WorkerOK(w, clock) /\ w.start = v.start /\ w.pc = "page" /\ w.filter = "regular"
    BY <1>1, <1>2, CatchUpType
  <2>3. Send(done \o <<last>>) /\ worker' = [worker EXCEPT ![k] = w]
    BY <1>8 DEF Caught, SetWorker
  <2> HIDE DEF last, w, done
  <2> QED BY <1>7, <2>1, <2>2, <2>3
<1>9. CASE ~HasNext(k, v.filter)
  <2> DEFINE last == Note("caughtUp", k)
             w    == [pc |-> "open", filter |-> First(k), start |-> v.start]
  <2>1. last \in Items /\ last.relay = k /\ last.op = "caughtUp" /\ last # Begin(k, "status")
    BY ItemTypes, ItemRelays
  <2>2. First(k) \in Filter /\ (First(k) = "status" => "status" \in active[k])
    BY <1>2 DEF First
  <2>3. /\ WorkerOK(w, clock) /\ w.start = v.start /\ w.pc = "open" /\ w.filter = First(k)
    BY <1>1, <2>2 DEF WorkerOK, Opening, Paging, Idle
  <2>4. Send(done \o <<last>>) /\ worker' = [worker EXCEPT ![k] = w]
    BY <1>9 DEF Caught, SetWorker
  <2> HIDE DEF last, w, done
  <2> QED BY <1>7, <2>1, <2>2, <2>3, <2>4
<1> QED
  BY <1>8, <1>9

(* Each step of a worker moves its relay only, and keeps the proof of its  *)
(* statuses sound.                                                         *)
Keeps(k) ==
  \E sent, w, a : WorkerMoves(k, sent, w, a) /\ (LoomOf(k) => LoomOf(k)')

LEMMA ConnectKeeps == ASSUME Typed, NEW k \in Relay, Connect(k) PROVE Keeps(k)
<1> DEFINE f    == First(k)
           w    == CatchUp(k, f, clock)
           sent == <<Begin(k, f)>>
<1>1. f \in Filter /\ (f # "status" => "status" \notin active[k])
  BY FilterIs DEF First
<1>2. /\ WorkerOK(w, clock) /\ w.start = clock /\ w.filter = f
      /\ w.pc = IF f = "status" THEN "negentropy" ELSE "page"
  <2>1. clock \in Nat /\ clock >= Start
    BY DEF Typed
  <2>2. clock <= clock
    BY <2>1
  <2> HIDE DEF f
  <2> QED BY <1>1, <2>1, <2>2, CatchUpType
<1>3. OfRelay(k, sent) /\ Len(sent) = 1 /\ sent[1] = Begin(k, f)
  <2>1. Begin(k, f) \in Items /\ Begin(k, f).relay = k
    BY <1>1, ItemTypes, ItemRelays
  <2> QED BY <2>1, OneItem
<1>4. /\ Send(sent) /\ worker' = [worker EXCEPT ![k] = w] /\ UNCHANGED active /\ OnlyWorker
      /\ worker[k].pc = "down"
  BY DEF Connect, SetWorker
<1> HIDE DEF w, sent
<1>5. WorkerMoves(k, sent, w, active[k])
  BY <1>2, <1>3, <1>4 DEF WorkerMoves, Typed
<1>6. ASSUME LoomOf(k) PROVE LoomOf(k)'
  <2>1. Before(k) /\ Unbegun(k)
    BY <1>4, <1>6 DEF LoomOf, Following, Covers
  <2>2. \A i \in 1 .. Len(sent) : sent[i].op = "begin"
    BY <1>3, ItemRelays
  <2>3. Before(k)'
    BY <1>5, <2>1, <2>2, SendsKeep
  <2>4. worker'[k] = w /\ active'[k] = active[k]
    BY <1>5, MovesTyped
  <2>5. Covers(k)'
    BY <1>1, <1>2, <2>4 DEF Covers, PastStatus
  <2> QED BY <2>3, <2>5 DEF LoomOf
<1> QED
  BY <1>5, <1>6 DEF Keeps

LEMMA NegentropyKeeps == ASSUME Typed, NEW k \in Relay, Negentropy(k) PROVE Keeps(k)
<1> DEFINE S == Matching(k, "status", 0, 0) \ held
<1>1. PICK items \in Deliveries(k, S) : Caught(k, items, 0)
  BY DEF Negentropy
<1>2. S \in SUBSET Event
  BY StatusAreEvents DEF Matching
<1>3. Events(k, items) /\ \A e \in S : \E i \in 1 .. Len(items) : items[i] = Deliver(k, e)
  BY <1>2, DeliveriesAre, DeliveriesForm
<1>4. worker[k].pc = "negentropy"
  BY DEF Negentropy
<1>5. ASSUME NEW e \in at[k] \cap Status
      PROVE  Got(k, e) \/ \E i \in 1 .. Len(items) : items[i] = Deliver(k, e)
  <2>1. FilterOf(e) = "status" /\ created[e] >= 0
    BY StatusAreEvents DEF Typed
  <2>2. CASE e \in held
    BY <2>2 DEF Got
  <2>3. CASE e \notin held
    BY <1>3, <2>1, <2>3 DEF Matching
  <2> QED BY <2>2, <2>3
<1> HIDE DEF S
<1> QED
  BY <1>1, <1>3, <1>4, <1>5, CaughtKeeps DEF Keeps

LEMMA UnavailableKeeps ==
  ASSUME Typed, NEW k \in Relay, NegentropyUnavailable(k) PROVE Keeps(k)
<1> DEFINE w == [pc |-> "page", filter |-> "status", start |-> worker[k].start,
                 since |-> 0, until |-> 0, paged |-> FALSE, first |-> clock]
<1>1. /\ worker[k].pc = "negentropy" /\ worker' = [worker EXCEPT ![k] = w]
      /\ UNCHANGED <<active, chan>> /\ OnlyWorker
  BY DEF NegentropyUnavailable, SetWorker
<1>2. /\ worker[k].start \in Nat /\ worker[k].start >= Start /\ worker[k].start <= clock
      /\ clock \in Nat
  BY <1>1 DEF Typed, WorkerOK, Idle, Asking, Paging, Opening
<1>3. w \in Paging
  <2> DEFINE st == worker[k].start
  <2> HIDE DEF st
  <2> QED BY <1>2, FilterIs DEF Paging, st
<1>4. WorkerOK(w, clock) /\ w.pc = "page" /\ w.filter = "status" /\ w.until = 0
  BY <1>2, <1>3 DEF WorkerOK, Idle
<1>5. OfRelay(k, << >>) /\ Send(<< >>)
  BY <1>1 DEF OfRelay, Send, Typed
<1> HIDE DEF w
<1>6. WorkerMoves(k, << >>, w, active[k])
  BY <1>1, <1>4, <1>5 DEF WorkerMoves, Typed
<1>7. ASSUME LoomOf(k) PROVE LoomOf(k)'
  <2>1. Before(k)
    BY <1>1, <1>7 DEF LoomOf, Following
  <2>2. Before(k)'
    BY <1>6, <2>1, SendsKeep
  <2>3. worker'[k] = w
    BY <1>6, MovesTyped
  <2> QED BY <1>4, <2>2, <2>3 DEF LoomOf, Covers, PastStatus
<1> QED
  BY <1>6, <1>7 DEF Keeps

LEMMA EndSessionKeeps ==
  ASSUME Typed, NEW k \in Relay, NEW items, OfRelay(k, items), EndSession(k, items),
         UNCHANGED active, OnlyWorker
  PROVE  Keeps(k)
<1> DEFINE note == Note("failed", k)
           sent == items \o <<note>>
<1>1. OfRelay(k, <<note>>) /\ Len(<<note>>) = 1 /\ <<note>>[1] = note
  <2>1. "failed" \in {"caughtUp", "failed", "gaveUp"}
    OBVIOUS
  <2>2. note \in Items /\ note.relay = k
    BY <2>1, ItemTypes, ItemRelays
  <2> HIDE DEF note
  <2> QED BY <2>2, OneItem
<1>2. /\ OfRelay(k, sent) /\ Len(sent) = Len(items) + 1 /\ Len(items) \in Nat
      /\ sent[Len(items) + 1] = note
  <2> HIDE DEF note
  <2>1. 1 \in 1 .. Len(<<note>>)
    BY <1>1
  <2> QED BY <1>1, <2>1, Joined
<1>3. WorkerOK(NoWorker, clock) /\ NoWorker.pc = "down"
  BY DEF WorkerOK, NoWorker, Idle, Paging
<1>4. WorkerMoves(k, sent, NoWorker, active[k])
  BY <1>2, <1>3 DEF WorkerMoves, EndSession, SetWorker, Typed
<1> HIDE DEF sent
<1>5. LoomOf(k)'
  BY <1>2, <1>3, <1>4, EndKeeps
<1> QED
  BY <1>4, <1>5 DEF Keeps

(* A page goes out, and the worker goes on.                                *)
LEMMA PagedOn ==
  ASSUME Typed, NEW k \in Relay, NEW items, Events(k, items), Send(items),
         worker[k].pc = "page", NEW pc \in {"page", "widen"}, NEW until \in Nat,
         NEW paged \in BOOLEAN,
         NEW w, w = [worker[k] EXCEPT !.pc = pc, !.until = until, !.paged = paged],
         SetWorker(k, w), UNCHANGED active, OnlyWorker,
         worker[k].filter = "status" /\ LoomOf(k) =>
           \A e \in at[k] \cap Status :
             (pc = "page" /\ until # 0 /\ created[e] > until) \/ pc = "widen" =>
               \/ Got(k, e) \/ created[e] >= worker[k].start - Overlap
               \/ \E i \in 1 .. Len(items) : items[i] = Deliver(k, e)
  PROVE  Keeps(k)
<1> DEFINE v == worker[k]
<1>1. v \in Paging /\ WorkerOK(v, clock)
  BY DEF Typed, WorkerOK, Idle, Asking, Opening
<1>2. /\ w \in Paging /\ w.pc = pc /\ w.until = until /\ w.filter = v.filter
      /\ w.start = v.start /\ w.since = v.since
  <2> HIDE DEF v
  <2> QED BY <1>1 DEF Paging, v
<1>3. WorkerOK(w, clock)
  BY <1>1, <1>2 DEF WorkerOK, Idle, Paging
<1>4. WorkerMoves(k, items, w, active[k])
  BY <1>3 DEF WorkerMoves, Events, SetWorker, Typed
<1>5. /\ worker'[k] = w /\ active'[k] = active[k] /\ UNCHANGED <<at, created>>
  BY <1>4, MovesTyped DEF OnlyWorker, relays
<1>6. ASSUME LoomOf(k) PROVE LoomOf(k)'
  <2>1. Before(k) /\ Covers(k)
    BY <1>6 DEF LoomOf, Following
  <2>2. \A i \in 1 .. Len(items) : items[i].op = "event" /\ items[i] # Begin(k, "status")
    BY ItemRelays DEF Events
  <2>3. /\ Before(k)' /\ \A e : Got(k, e) => Got(k, e)'
        /\ \A e : (\E i \in 1 .. Len(items) : items[i] = Deliver(k, e)) => Got(k, e)'
    BY <1>4, <2>1, <2>2, SendsKeep
  <2>4. CASE v.filter = "status"
    <3>1. \A e \in at[k] \cap Status :
            (pc = "page" /\ until # 0 /\ created[e] > until) \/ pc = "widen" =>
              Got(k, e)' \/ created[e] >= v.start - Overlap
      BY <1>6, <2>3, <2>4
    <3> QED BY <1>2, <1>5, <2>3, <2>4, <3>1 DEF LoomOf, Covers, PastStatus, OldGot
  <2>5. CASE v.filter # "status"
    <3>1. v.filter = "regular"
      BY <1>1, <2>5, FilterIs DEF Paging
    <3>2. "status" \in active[k] => OldGot(k)
      BY <2>1, <3>1 DEF Covers, PastStatus
    <3>3. "status" \in active[k] => OldGot(k)'
      BY <1>2, <1>5, <2>3, <3>2 DEF OldGot
    <3> QED BY <1>2, <1>5, <2>3, <3>1, <3>3 DEF LoomOf, Covers, PastStatus
  <2> QED BY <2>4, <2>5
<1> QED
  BY <1>4, <1>6 DEF Keeps

(* What is above the next page, once this one is sent, was covered before  *)
(* or is part of this one.                                                 *)
LEMMA PageCovers ==
  ASSUME Typed, NEW k \in Relay, worker[k].pc = "page", worker[k].filter = "status", LoomOf(k),
         NEW P \in Pages(Matching(k, worker[k].filter, worker[k].since, worker[k].until)),
         NEW items \in Deliveries(k, P), NEW e \in at[k] \cap Status,
         \/ Cardinality(P) < PageLimit
         \/ /\ Cardinality(P) = PageLimit /\ ~Overfull(worker[k], P)
            /\ created[e] > NextUntil(worker[k], P) \/ NextUntil(worker[k], P) = 0
  PROVE  \/ Got(k, e) \/ created[e] >= worker[k].start - Overlap
         \/ \E i \in 1 .. Len(items) : items[i] = Deliver(k, e)
<1> DEFINE v == worker[k]
           M == Matching(k, v.filter, v.since, v.until)
           oldest == Min({created[d] : d \in P})
<1>1. Covers(k)
  BY DEF LoomOf, Following
<1>2. v \in Paging /\ v.until \in Nat /\ v.since = 0 /\ v.start \in Nat
  BY DEF Typed, WorkerOK, Idle, Asking, Paging, Opening
<1>3. e \in Event /\ FilterOf(e) = "status" /\ created[e] \in Nat
  BY StatusAreEvents DEF Typed
<1>4. P \in SUBSET Event /\ P \subseteq M /\ (Cardinality(P) < PageLimit => P = M)
  BY PageFacts
<1>5. Cardinality(P) = PageLimit =>
        oldest \in Nat /\ oldest > 0 /\ \A d \in M \ P : created[d] <= oldest
  BY PageFacts
<1>6. e \in P => \E i \in 1 .. Len(items) : items[i] = Deliver(k, e)
  BY <1>4, DeliveriesAre
<1>7. CASE e \notin M
  <2>1. v.until # 0 /\ created[e] > v.until
    BY <1>2, <1>3, <1>7 DEF Matching
  <2> QED BY <1>1, <2>1 DEF Covers
<1>8. CASE e \in M
  <2>1. CASE Cardinality(P) < PageLimit
    BY <1>4, <1>6, <1>8, <2>1
  <2>2. CASE Cardinality(P) = PageLimit
    <3>0. Cardinality(P) \in Nat /\ PageLimit \in Nat /\ ~Overfull(v, P)
      BY <2>2, Constants
    <3>1. NextUntil(v, P) = oldest
      <4>1. ~(v.until # 0 /\ oldest >= v.until)
        BY <3>0 DEF Overfull
      <4>2. NextUntil(v, P) =
              LET next == IF v.until # 0 /\ oldest >= v.until THEN v.until - 1 ELSE oldest
              IN  IF next <= 0 \/ next < v.since THEN 0 ELSE next
        BY DEF NextUntil
      <4>3. oldest \in Nat /\ oldest > 0
        BY <1>5, <2>2
      <4> HIDE DEF oldest, v
      <4> QED BY <1>2, <4>1, <4>2, <4>3
    <3>2. created[e] > oldest
      BY <1>5, <2>2, <3>0, <3>1
    <3>3. e \in P
      BY <1>3, <1>5, <1>8, <2>2, <3>2
    <3> QED BY <1>6, <3>3
  <2> QED BY <2>1, <2>2
<1> QED
  BY <1>7, <1>8

LEMMA PageKeeps == ASSUME Typed, NEW k \in Relay, Page(k) PROVE Keeps(k)
<1> DEFINE v == worker[k]
<1>1. v.pc = "page"
  BY DEF Page
<1>2. PICK P \in Pages(Matching(k, v.filter, v.since, v.until)) : \E items \in Deliveries(k, P) :
         \/ /\ Cardinality(P) < PageLimit
            /\ \/ ~v.paged /\ Caught(k, items, Floor(v))
               \/ /\ v.paged
                  /\ Send(items) /\ SetWorker(k, [v EXCEPT !.pc = "widen"])
                  /\ OnlyWorker /\ UNCHANGED <<active, budget, faults>>
         \/ /\ Cardinality(P) = PageLimit
            /\ \/ /\ Overfull(v, P) /\ v.filter = "status"
                  /\ EndSession(k, items)
               \/ /\ ~(Overfull(v, P) /\ v.filter = "status")
                  /\ Send(items)
                  /\ SetWorker(k, IF NextUntil(v, P) = 0
                                  THEN [v EXCEPT !.pc = "widen", !.paged = TRUE]
                                  ELSE [v EXCEPT !.until = NextUntil(v, P), !.paged = TRUE])
            /\ OnlyWorker /\ UNCHANGED <<active, budget, faults>>
  BY DEF Page
<1>3. PICK items \in Deliveries(k, P) :
         \/ /\ Cardinality(P) < PageLimit
            /\ \/ ~v.paged /\ Caught(k, items, Floor(v))
               \/ /\ v.paged
                  /\ Send(items) /\ SetWorker(k, [v EXCEPT !.pc = "widen"])
                  /\ OnlyWorker /\ UNCHANGED <<active, budget, faults>>
         \/ /\ Cardinality(P) = PageLimit
            /\ \/ /\ Overfull(v, P) /\ v.filter = "status"
                  /\ EndSession(k, items)
               \/ /\ ~(Overfull(v, P) /\ v.filter = "status")
                  /\ Send(items)
                  /\ SetWorker(k, IF NextUntil(v, P) = 0
                                  THEN [v EXCEPT !.pc = "widen", !.paged = TRUE]
                                  ELSE [v EXCEPT !.until = NextUntil(v, P), !.paged = TRUE])
            /\ OnlyWorker /\ UNCHANGED <<active, budget, faults>>
  BY <1>2
<1>4. /\ v \in Paging /\ v.until \in Nat /\ v.paged \in BOOLEAN /\ v.pc = "page"
      /\ Floor(v) \in Nat
  <2>1. v \in Paging
    BY <1>1 DEF Typed, WorkerOK, Idle, Asking, Opening
  <2> QED BY <1>1, <2>1 DEF Paging, Floor
<1>5. P \in SUBSET Event /\ (Cardinality(P) = PageLimit => NextUntil(v, P) \in Nat)
  BY <1>1, PageFacts
<1>6. Events(k, items)
  BY <1>5, DeliveriesForm
<1>7. ASSUME v.filter = "status", LoomOf(k), NEW e \in at[k] \cap Status,
             \/ Cardinality(P) < PageLimit
             \/ /\ Cardinality(P) = PageLimit /\ ~Overfull(v, P)
                /\ created[e] > NextUntil(v, P) \/ NextUntil(v, P) = 0
      PROVE  \/ Got(k, e) \/ created[e] >= v.start - Overlap
             \/ \E i \in 1 .. Len(items) : items[i] = Deliver(k, e)
  BY <1>1, <1>7, PageCovers
<1>8. CASE Cardinality(P) < PageLimit /\ ~v.paged /\ Caught(k, items, Floor(v))
  <2>1. v.pc \in {"negentropy", "page", "widen"}
    BY <1>1
  <2> QED BY <1>4, <1>6, <1>7, <1>8, <2>1, CaughtKeeps DEF Keeps
<1>9. CASE /\ Cardinality(P) < PageLimit /\ Send(items)
           /\ SetWorker(k, [v EXCEPT !.pc = "widen"])
           /\ OnlyWorker /\ UNCHANGED <<active, budget, faults>>
  <2> DEFINE w == [v EXCEPT !.pc = "widen", !.until = v.until, !.paged = v.paged]
  <2>1. w = [v EXCEPT !.pc = "widen"]
    <3> HIDE DEF v
    <3> QED BY <1>4 DEF Paging
  <2>2. SetWorker(k, w)
    BY <1>9, <2>1
  <2> HIDE DEF v
  <2>3. \A e \in at[k] \cap Status : v.filter = "status" /\ LoomOf(k) =>
          \/ Got(k, e) \/ created[e] >= v.start - Overlap
          \/ \E i \in 1 .. Len(items) : items[i] = Deliver(k, e)
    BY <1>7, <1>9
  <2> QED BY <1>4, <1>6, <1>9, <2>2, <2>3, PagedOn DEF v
<1>10. CASE /\ Cardinality(P) = PageLimit /\ EndSession(k, items)
            /\ OnlyWorker /\ UNCHANGED <<active, budget, faults>>
  BY <1>6, <1>10, EndSessionKeeps DEF Events
<1>11. CASE /\ Cardinality(P) = PageLimit
            /\ ~(Overfull(v, P) /\ v.filter = "status")
            /\ Send(items)
            /\ SetWorker(k, IF NextUntil(v, P) = 0
                            THEN [v EXCEPT !.pc = "widen", !.paged = TRUE]
                            ELSE [v EXCEPT !.until = NextUntil(v, P), !.paged = TRUE])
            /\ OnlyWorker /\ UNCHANGED <<active, budget, faults>>
  <2> DEFINE n == NextUntil(v, P)
  <2>1. n \in Nat
    BY <1>5, <1>11
  <2>2. CASE n = 0
    <3> DEFINE w == [v EXCEPT !.pc = "widen", !.until = v.until, !.paged = TRUE]
    <3>1. w = [v EXCEPT !.pc = "widen", !.paged = TRUE]
      <4> HIDE DEF v
      <4> QED BY <1>4 DEF Paging
    <3>2. SetWorker(k, w)
      BY <1>11, <2>2, <3>1
    <3>3. \A e \in at[k] \cap Status : v.filter = "status" /\ LoomOf(k) =>
            \/ Got(k, e) \/ created[e] >= v.start - Overlap
            \/ \E i \in 1 .. Len(items) : items[i] = Deliver(k, e)
      BY <1>7, <1>11, <2>2
    <3> HIDE DEF v, n
    <3> QED BY <1>4, <1>6, <1>11, <3>2, <3>3, PagedOn DEF v
  <2>3. CASE n # 0
    <3> DEFINE w == [v EXCEPT !.pc = "page", !.until = n, !.paged = TRUE]
    <3>1. w = [v EXCEPT !.until = n, !.paged = TRUE]
      <4> HIDE DEF v, n
      <4> QED BY <1>4 DEF Paging
    <3>2. SetWorker(k, w)
      BY <1>11, <2>3, <3>1
    <3>3. \A e \in at[k] \cap Status : v.filter = "status" /\ LoomOf(k) /\ created[e] > n =>
            \/ Got(k, e) \/ created[e] >= v.start - Overlap
            \/ \E i \in 1 .. Len(items) : items[i] = Deliver(k, e)
      BY <1>7, <1>11
    <3> HIDE DEF v, n
    <3> QED BY <1>4, <1>6, <1>11, <2>1, <3>2, <3>3, PagedOn DEF v
  <2> QED BY <2>2, <2>3
<1> HIDE DEF v
<1> QED
  BY <1>3, <1>8, <1>9, <1>10, <1>11

LEMMA RecheckForm ==
  ASSUME Typed, NEW k \in Relay, NEW items \in Recheck(k) PROVE Events(k, items)
<1> DEFINE w == worker[k]
           M == Matching(k, w.filter, Max({w.since, w.first - BackdateOverlap}), 0)
<1>1. M \in SUBSET Event
  BY DEF Matching, Typed
<1> QED
  BY <1>1, DeliveriesForm DEF Recheck

LEMMA WidenKeeps == ASSUME Typed, NEW k \in Relay, Widen(k) PROVE Keeps(k)
<1> DEFINE v == worker[k]
<1>1. PICK items \in Recheck(k) : Caught(k, items, Floor(v))
  BY DEF Widen
<1>2. v.pc = "widen"
  BY DEF Widen
<1>3. v \in Paging /\ Floor(v) \in Nat
  <2>1. v \in Paging
    BY <1>2 DEF Typed, WorkerOK, Idle, Asking, Opening
  <2> QED BY <2>1 DEF Paging, Floor
<1>4. LoomOf(k) /\ v.filter = "status" => OldGot(k)
  BY <1>2 DEF LoomOf, Following, Covers, PastStatus
<1>5. v.pc \in {"negentropy", "page", "widen"} /\ Events(k, items)
  BY <1>2, RecheckForm
<1> QED
  BY <1>1, <1>3, <1>4, <1>5, CaughtKeeps DEF Keeps, OldGot

LEMMA LiveForm ==
  ASSUME Typed, NEW k \in Relay, worker[k].pc = "open", NEW items \in LiveAnswer(k)
  PROVE  /\ Events(k, items)
         /\ \A e \in at[k] : FilterOf(e) = worker[k].filter /\ created[e] >= worker[k].start - Overlap
              => \E i \in 1 .. Len(items) : items[i] = Deliver(k, e)
<1> DEFINE w == worker[k]
           since == ResumeSince(w.start, w.start)
           M == Matching(k, w.filter, since, 0)
<1>1. w.start \in Nat /\ w.start >= Start
  BY DEF Typed, WorkerOK, Idle, Asking, Paging, Opening
<1>2. since = w.start - Overlap
  <2> DEFINE st == w.start
  <2>1. st \in Nat /\ Overlap \in Nat /\ st > Overlap /\ st > 0
    BY <1>1, Constants
  <2> HIDE DEF st
  <2>2. ResumeSince(st, st) = IF st > Overlap THEN st - Overlap ELSE 0
    BY <2>1, ResumeType
  <2> QED BY <2>1, <2>2 DEF st
<1>3. M \in SUBSET Event
  BY DEF Matching, Typed
<1>4. \A e \in at[k] : FilterOf(e) = w.filter /\ created[e] >= w.start - Overlap => e \in M
  <2> HIDE DEF since
  <2> QED BY <1>2 DEF Matching
<1>5. items \in Deliveries(k, M)
  BY DEF LiveAnswer
<1> HIDE DEF M
<1> QED
  BY <1>3, <1>4, <1>5, DeliveriesAre, DeliveriesForm

LEMMA OpenKeeps == ASSUME Typed, NEW k \in Relay, Open(k) PROVE Keeps(k)
<1> DEFINE v      == worker[k]
           w      == IF HasNext(k, v.filter) THEN [v EXCEPT !.filter = "regular"] ELSE [pc |-> "live"]
           begin  == Begin(k, v.filter)
           commit == Commit(k, v.filter, 0)
<1>1. v.pc = "open"
  BY DEF Open
<1>2. PICK items \in LiveAnswer(k) : Send(<<begin>> \o items \o <<commit>>)
  BY DEF Open
<1> DEFINE head == <<begin>> \o items
           sent == head \o <<commit>>
<1>3. worker' = [worker EXCEPT ![k] = w] /\ UNCHANGED active /\ OnlyWorker /\ Send(sent)
  BY <1>2 DEF Open, SetWorker
<1>4. v \in Opening /\ WorkerOK(v, clock) /\ v.filter \in Filter /\ v.start \in Nat
  <2>1. WorkerOK(v, clock)
    BY DEF Typed
  <2>2. v \in Opening
    BY <1>1, <2>1 DEF WorkerOK, Idle, Asking, Paging
  <2> QED BY <2>1, <2>2 DEF Opening
<1>5. /\ WorkerOK(w, clock)
      /\ HasNext(k, v.filter) => w.pc = "open" /\ w.filter = "regular" /\ v.filter = "status"
      /\ ~HasNext(k, v.filter) => w.pc = "live"
  <2>1. CASE HasNext(k, v.filter)
    <3>1. w \in Opening /\ w.start = v.start /\ w.pc = "open" /\ w.filter = "regular"
      <4>1. w = [v EXCEPT !.filter = "regular"]
        BY <2>1
      <4> HIDE DEF v, w
      <4> QED BY <1>4, <4>1, FilterIs DEF Opening
    <3>2. v.filter = "status"
      BY <2>1 DEF HasNext
    <3> HIDE DEF w
    <3> QED BY <1>4, <2>1, <3>1, <3>2 DEF WorkerOK, Opening, Idle, Paging
  <2>2. CASE ~HasNext(k, v.filter)
    <3>1. w = [pc |-> "live"]
      BY <2>2
    <3> HIDE DEF w
    <3> QED BY <2>2, <3>1 DEF WorkerOK, Idle, Paging
  <2> QED BY <2>1, <2>2
<1>6. /\ begin \in Items /\ begin.relay = k /\ begin.op = "begin"
      /\ commit \in Items /\ commit.relay = k /\ commit.op = "commit"
      /\ v.filter = "regular" => begin # Begin(k, "status")
  BY <1>4, ItemTypes, ItemRelays
<1>7. /\ Events(k, items)
      /\ \A e \in at[k] : FilterOf(e) = v.filter /\ created[e] >= v.start - Overlap
           => \E i \in 1 .. Len(items) : items[i] = Deliver(k, e)
  BY <1>1, LiveForm
<1>8. OfRelay(k, items) /\ \A i \in 1 .. Len(items) : items[i].op = "event"
  BY <1>7, ItemRelays DEF Events
<1> HIDE DEF w, begin, commit
<1>9. /\ OfRelay(k, head)
      /\ \A i \in 1 .. Len(head) : head[i] = begin \/ \E j \in 1 .. Len(items) : head[i] = items[j]
      /\ \A i \in 1 .. Len(items) : \E j \in 1 .. Len(head) : head[j] = items[i]
  <2> DEFINE one == <<begin>>
  <2>1. head = one \o items
    OBVIOUS
  <2>2. one = <<begin>>
    OBVIOUS
  <2> HIDE DEF head, one
  <2>3. begin \in Items /\ begin.relay = k /\ OfRelay(k, items)
    BY <1>6, <1>8
  <2>4. OfRelay(k, head)
    BY <2>1, <2>2, <2>3, Attached
  <2>5. \A i \in 1 .. Len(items) : \E j \in 1 .. Len(head) : head[j] = items[i]
    BY <2>1, <2>2, <2>3, Attached
  <2>6. \A i \in 1 .. Len(head) : head[i] = begin \/ \E j \in 1 .. Len(items) : head[i] = items[j]
    BY <2>1, <2>2, <2>3, Attached
  <2> QED BY <2>4, <2>5, <2>6
<1> HIDE DEF head
<1>10. /\ OfRelay(k, sent)
       /\ \A i \in 1 .. Len(sent) : sent[i] = commit \/ \E j \in 1 .. Len(head) : sent[i] = head[j]
       /\ \A i \in 1 .. Len(head) : \E j \in 1 .. Len(sent) : sent[j] = head[i]
  <2> DEFINE one == <<commit>>
  <2>1. sent = head \o one
    OBVIOUS
  <2>2. one = <<commit>>
    OBVIOUS
  <2> HIDE DEF sent, one
  <2>3. commit \in Items /\ commit.relay = k /\ OfRelay(k, head)
    BY <1>6, <1>9
  <2>4. OfRelay(k, sent)
    BY <2>1, <2>2, <2>3, Attached
  <2>5. \A i \in 1 .. Len(head) : \E j \in 1 .. Len(sent) : sent[j] = head[i]
    BY <2>1, <2>2, <2>3, Attached
  <2>6. \A i \in 1 .. Len(sent) : sent[i] = commit \/ \E j \in 1 .. Len(head) : sent[i] = head[j]
    BY <2>1, <2>2, <2>3, Attached
  <2> QED BY <2>4, <2>5, <2>6
<1> HIDE DEF sent
<1>11. WorkerMoves(k, sent, w, active[k])
  BY <1>3, <1>5, <1>10 DEF WorkerMoves, Typed
<1>12. \A i \in 1 .. Len(sent) : /\ sent[i].op \in {"begin", "event", "commit"}
                                 /\ v.filter = "regular" => sent[i] # Begin(k, "status")
  <2>1. \A i \in 1 .. Len(head) : /\ head[i].op \in {"begin", "event"}
                                  /\ v.filter = "regular" => head[i] # Begin(k, "status")
    <3>1. \A i \in 1 .. Len(items) : items[i] # Begin(k, "status")
      BY <1>8, ItemRelays
    <3> QED BY <1>6, <1>8, <1>9, <3>1
  <2>2. commit # Begin(k, "status")
    BY <1>6, ItemRelays
  <2> QED BY <1>6, <1>10, <2>1, <2>2
<1>13. /\ \A e : Got(k, e) => Got(k, e)'
       /\ \A e : (\E i \in 1 .. Len(sent) : sent[i] = Deliver(k, e)) => Got(k, e)'
       /\ Before(k) /\ v.filter = "regular" => Before(k)'
  BY <1>11, <1>12, SendsKeep
<1>14. worker'[k] = w /\ active'[k] = active[k] /\ UNCHANGED <<at, created>>
  BY <1>3, <1>11, MovesTyped DEF OnlyWorker, relays
<1>15. ASSUME LoomOf(k) PROVE LoomOf(k)'
  <2>1. CASE v.filter = "status"
    <3>1. Covers(k)
      BY <1>1, <1>15, <2>1 DEF LoomOf, Following
    <3>2. OldGot(k) /\ "status" \in active[k]
      BY <1>1, <2>1, <3>1 DEF Covers, PastStatus
    <3>3. Following(k, "status")'
      BY <1>5, <1>14, <3>2 DEF Following
    <3>4. ASSUME NEW e \in at[k] \cap Status PROVE Got(k, e)'
      <4>1. FilterOf(e) = "status"
        BY StatusAreEvents
      <4>2. CASE Got(k, e)
        BY <1>13, <4>2
      <4>3. CASE created[e] >= v.start - Overlap
        <5>1. PICK i \in 1 .. Len(items) : items[i] = Deliver(k, e)
          BY <1>7, <2>1, <4>1, <4>3
        <5>2. PICK j \in 1 .. Len(head) : head[j] = items[i]
          BY <1>9
        <5>3. PICK l \in 1 .. Len(sent) : sent[l] = head[j]
          BY <1>10
        <5> QED BY <1>13, <5>1, <5>2, <5>3
      <4> QED BY <3>2, <4>2, <4>3 DEF OldGot
    <3>5. AllGot(k)'
      BY <1>14, <3>4 DEF AllGot
    <3> QED BY <3>3, <3>5 DEF LoomOf
  <2>2. CASE v.filter # "status"
    <3>1. v.filter = "regular" /\ w.pc = "live"
      BY <1>4, <1>5, <2>2, FilterIs
    <3>2. CASE Before(k)
      BY <1>13, <1>14, <3>1, <3>2 DEF LoomOf, Covers, PastStatus
    <3>3. CASE Following(k, "status") /\ AllGot(k)
      <4>1. Following(k, "status")'
        BY <1>14, <3>1, <3>3 DEF Following
      <4>2. AllGot(k)'
        BY <1>13, <1>14, <3>3 DEF AllGot
      <4> QED BY <4>1, <4>2 DEF LoomOf
    <3> QED BY <1>15, <3>2, <3>3 DEF LoomOf
  <2> QED BY <2>1, <2>2
<1> QED
  BY <1>11, <1>15 DEF Keeps

LEMMA AnswersForm ==
  ASSUME Typed, NEW k \in Relay, NEW answer \in Answers(k)
  PROVE  OfRelay(k, answer)
<1> DEFINE w == worker[k]
<1>0. WorkerOK(w, clock) /\ at[k] \in SUBSET Event
  BY DEF Typed
<1>1. CASE w.pc = "negentropy"
  <2>1. answer \in Deliveries(k, Matching(k, "status", 0, 0) \ held)
    BY <1>1 DEF Answers
  <2>2. Matching(k, "status", 0, 0) \ held \in SUBSET Event
    BY <1>0 DEF Matching
  <2> QED BY <2>1, <2>2, DeliveriesForm DEF Events
<1>2. CASE w.pc = "page"
  <2>1. PICK P \in Pages(Matching(k, w.filter, w.since, w.until)) : answer \in Deliveries(k, P)
    BY <1>2 DEF Answers
  <2>2. P \in SUBSET Event
    BY <1>2, PageFacts
  <2> QED BY <2>1, <2>2, DeliveriesForm DEF Events
<1>3. CASE w.pc = "widen"
  <2>1. answer \in Recheck(k)
    BY <1>3 DEF Answers
  <2> QED BY <2>1, RecheckForm DEF Events
<1>4. CASE w.pc = "open"
  <2>1. PICK items \in LiveAnswer(k) : answer = <<Begin(k, w.filter)>> \o items
    BY <1>4 DEF Answers
  <2>2. OfRelay(k, items)
    BY <1>4, LiveForm DEF Events
  <2>3. w.filter \in Filter
    BY <1>0, <1>4 DEF WorkerOK, Idle, Asking, Paging, Opening
  <2>4. Begin(k, w.filter) \in Items /\ Begin(k, w.filter).relay = k
    BY <2>3, ItemTypes, ItemRelays
  <2>5. OfRelay(k, <<Begin(k, w.filter)>>)
    BY <2>4, OneItem
  <2> QED BY <2>1, <2>2, <2>5, Joined
<1>5. CASE w.pc \notin {"negentropy", "page", "widen", "open"}
  <2>1. answer = << >>
    BY <1>5 DEF Answers
  <2> QED BY <2>1 DEF OfRelay
<1> QED
  BY <1>1, <1>2, <1>3, <1>4, <1>5

(* What was delivered of it when it is cut off.                            *)
LEMMA PartsForm ==
  ASSUME Typed, NEW k \in Relay, NEW part \in Parts(k)
  PROVE  /\ OfRelay(k, part)
         /\ \E answer \in Answers(k) :
              /\ Len(part) <= Len(answer)
              /\ \A i \in 1 .. Len(part) : part[i] = answer[i] /\ i \in 1 .. Len(answer)
<1>1. PICK answer \in Answers(k) : \E n \in 0 .. Len(answer) : part = SubSeq(answer, 1, n)
  BY DEF Parts
<1>2. PICK n \in 0 .. Len(answer) : part = SubSeq(answer, 1, n)
  BY <1>1
<1>3. answer \in Seq(Items) /\ \A i \in 1 .. Len(answer) : answer[i].relay = k
  BY AnswersForm DEF OfRelay
<1>4. /\ part \in Seq(Items) /\ Len(part) = n /\ n <= Len(answer)
      /\ \A i \in 1 .. n : part[i] = answer[i] /\ i \in 1 .. Len(answer)
  <2>1. n \in Nat /\ n <= Len(answer)
    BY <1>3
  <2> QED BY <1>2, <1>3, <2>1
<1> QED
  BY <1>3, <1>4 DEF OfRelay

LEMMA DropKeeps == ASSUME Typed, NEW k \in Relay, Drop(k) PROVE Keeps(k)
<1>1. PICK part \in Parts(k) : EndSession(k, part)
  BY DEF Drop
<1> QED
  BY <1>1, PartsForm, EndSessionKeeps DEF Drop

LEMMA ClosedKeeps == ASSUME Typed, NEW k \in Relay, Closed(k) PROVE Keeps(k)
<1> DEFINE cut  == Note("failed", k)
           gone == Note("gaveUp", k)
<1>1. PICK left \in SUBSET active[k], part \in Parts(k) :
        /\ active' = [active EXCEPT ![k] = left]
        /\ Send(part \o <<cut>> \o (IF left = {} THEN <<gone>> ELSE << >>))
        /\ SetWorker(k, IF left = {} THEN [pc |-> "stopped"] ELSE NoWorker)
  <2>1. PICK S \in SUBSET Requested(k) \ {{}} : \E v \in [S -> {"retry", "auth", "refused"}] :
          LET over == {f \in S : Terminal(budget[k][f], v[f])}
              left == active[k] \ over
          IN  /\ active' = [active EXCEPT ![k] = left]
              /\ \E part \in Parts(k) : Send(part \o <<cut>> \o (IF left = {} THEN <<gone>> ELSE << >>))
              /\ SetWorker(k, IF left = {} THEN [pc |-> "stopped"] ELSE NoWorker)
    BY DEF Closed
  <2>2. PICK v \in [S -> {"retry", "auth", "refused"}] :
          LET over == {f \in S : Terminal(budget[k][f], v[f])}
              left == active[k] \ over
          IN  /\ active' = [active EXCEPT ![k] = left]
              /\ \E part \in Parts(k) : Send(part \o <<cut>> \o (IF left = {} THEN <<gone>> ELSE << >>))
              /\ SetWorker(k, IF left = {} THEN [pc |-> "stopped"] ELSE NoWorker)
    BY <2>1
  <2> QED BY <2>2
<1> DEFINE w    == IF left = {} THEN [pc |-> "stopped"] ELSE NoWorker
           tail == IF left = {} THEN <<gone>> ELSE << >>
           head == part \o <<cut>>
           sent == head \o tail
           n    == Len(part) + 1
<1>2. WorkerOK(w, clock) /\ w.pc \in {"down", "stopped"}
  BY DEF WorkerOK, NoWorker, Idle, Paging
<1>3. cut \in Items /\ cut.relay = k /\ gone \in Items /\ gone.relay = k
  <2>1. "failed" \in {"caughtUp", "failed", "gaveUp"} /\ "gaveUp" \in {"caughtUp", "failed", "gaveUp"}
    OBVIOUS
  <2> QED BY <2>1, ItemTypes, ItemRelays
<1>4. OfRelay(k, <<cut>>) /\ Len(<<cut>>) = 1 /\ <<cut>>[1] = cut
  <2> HIDE DEF cut
  <2> QED BY <1>3, OneItem
<1>5. OfRelay(k, tail) /\ Len(tail) \in Nat /\ \A i \in 1 .. Len(tail) : tail[i] = gone
  <2> HIDE DEF gone
  <2>1. /\ OfRelay(k, <<gone>>) /\ Len(<<gone>>) = 1 /\ <<gone>>[1] = gone
        /\ OfRelay(k, << >>) /\ Len(<< >>) = 0
    BY <1>3, OneItem
  <2> QED BY <2>1
<1>11. OfRelay(k, part)
  BY PartsForm
<1>12. OfRelay(k, head) /\ Len(head) = n /\ n \in Nat /\ 1 <= n /\ head[n] = cut
  <2> HIDE DEF cut
  <2>1. 1 \in 1 .. Len(<<cut>>)
    BY <1>4
  <2> QED BY <1>4, <1>11, <2>1, Joined
<1> HIDE DEF tail, cut, gone, head, n
<1>6. /\ OfRelay(k, sent) /\ Len(sent) = n + Len(tail) /\ sent[n] = cut
      /\ \A i \in 1 .. Len(tail) : sent[n + i] = gone
  <2>1. n \in 1 .. Len(head)
    BY <1>12
  <2> QED BY <1>5, <1>12, <2>1, Joined
<1>7. active[k] \in SUBSET Filter /\ left \in SUBSET Filter
  BY DEF Typed
<1>8. WorkerMoves(k, sent, w, left)
  <2>1. Send(sent) /\ worker' = [worker EXCEPT ![k] = w]
    BY <1>1 DEF SetWorker, tail, head
  <2>2. OnlyWorker
    BY DEF Closed
  <2> HIDE DEF sent, w
  <2> QED BY <1>1, <1>2, <1>6, <1>7, <2>1, <2>2 DEF WorkerMoves
<1> HIDE DEF sent, w
<1>9. n \in 1 .. Len(sent) /\ \A i \in n + 1 .. Len(sent) : sent[i] = gone
  <2>1. n \in 1 .. Len(sent)
    BY <1>5, <1>6, <1>12
  <2>2. ASSUME NEW i \in n + 1 .. Len(sent) PROVE sent[i] = gone
    <3>1. i - n \in 1 .. Len(tail) /\ n + (i - n) = i
      BY <1>5, <1>6, <1>12
    <3> QED BY <1>6, <3>1
  <2> QED BY <2>1, <2>2
<1>10. LoomOf(k)'
  BY <1>2, <1>6, <1>8, <1>9, EndKeeps DEF cut, gone
<1> QED
  BY <1>8, <1>10 DEF Keeps

LEMMA WorkerKeeps ==
  ASSUME Typed, NEW k \in Relay, Work(k) \/ Drop(k) \/ Closed(k)
  PROVE  Keeps(k)
BY ConnectKeeps, NegentropyKeeps, UnavailableKeeps, PageKeeps, WidenKeeps, OpenKeeps,
   DropKeeps, ClosedKeeps DEF Work

----------------------------------------------------------------------------
(* Steps that leave the relay's worker where it is. *)

LEMMA Carry ==
  ASSUME NEW k \in Relay, LoomOf(k), worker'[k] = worker[k], active'[k] = active[k],
         \A e \in Status : Got(k, e) => Got(k, e)',
         Before(k) => Before(k)', Unbegun(k) => Unbegun(k)',
         \A e \in at[k] : created'[e] = created[e],
         \A e \in at'[k] \cap Status :
           \/ e \in at[k]
           \/ /\ worker[k].pc \in {"page", "widen", "open"} =>
                   created'[e] >= worker[k].start - Overlap
              /\ Following(k, "status") => Got(k, e)'
  PROVE  LoomOf(k)'
<1>1. CASE Following(k, "status") /\ AllGot(k)
  <2>1. Following(k, "status")'
    BY <1>1 DEF Following
  <2>2. ASSUME NEW e \in at'[k] \cap Status PROVE Got(k, e)'
    BY <1>1, <2>2 DEF AllGot
  <2> QED BY <2>1, <2>2 DEF LoomOf, AllGot
<1>2. CASE Before(k) /\ Covers(k)
  <2>1. ASSUME OldGot(k), worker[k].pc \in {"page", "widen", "open"} PROVE OldGot(k)'
    <3> SUFFICES ASSUME NEW e \in at'[k] \cap Status
                 PROVE  Got(k, e)' \/ created'[e] >= worker[k].start - Overlap
      BY DEF OldGot
    <3>1. CASE e \in at[k]
      BY <2>1, <3>1 DEF OldGot
    <3>2. CASE e \notin at[k]
      BY <2>1, <3>2
    <3> QED BY <3>1, <3>2
  <2>2. PastStatus(k, worker[k])' => PastStatus(k, worker[k])
    BY DEF PastStatus
  <2>3. PastStatus(k, worker[k])' => OldGot(k)'
    <3>1. PastStatus(k, worker[k]) => worker[k].pc \in {"page", "widen", "open"}
      BY DEF PastStatus
    <3> QED BY <1>2, <2>1, <2>2, <3>1 DEF Covers
  <2>4. ASSUME worker[k].pc = "page", worker[k].filter = "status", worker[k].until # 0,
               NEW e \in at'[k] \cap Status, created'[e] > worker[k].until
        PROVE  Got(k, e)' \/ created'[e] >= worker[k].start - Overlap
    <3>1. CASE e \in at[k]
      <4>1. Got(k, e) \/ created[e] >= worker[k].start - Overlap
        BY <1>2, <2>4, <3>1 DEF Covers
      <4> QED BY <3>1, <4>1
    <3>2. CASE e \notin at[k]
      BY <2>4, <3>2
    <3> QED BY <3>1, <3>2
  <2>5. Covers(k)'
    BY <1>2, <2>3, <2>4 DEF Covers
  <2> QED BY <1>2, <2>5 DEF LoomOf
<1> QED
  BY <1>1, <1>2 DEF LoomOf

(* Items that say nothing of how relay k's session ends or goes on.        *)
LEMMA HarmlessItems ==
  ASSUME Typed, NEW k \in Relay, NEW items \in Seq(Items), Send(items),
         \A i \in 1 .. Len(items) : items[i].relay # k \/ items[i].op = "event",
         UNCHANGED <<held, rejected, progress>>
  PROVE  /\ \A e : Got(k, e) => Got(k, e)'
         /\ Before(k) => Before(k)'
         /\ Unbegun(k) => Unbegun(k)'
         /\ \A i \in 1 .. Len(items) : Pending(k, items[i])'
<1>1. chan \in Seq(Items)
  BY DEF Typed
<1>2. \A i \in 1 .. Len(items) : /\ items[i] # Note("failed", k) /\ items[i] # Note("caughtUp", k)
                                 /\ items[i] # Begin(k, "status")
  BY ItemRelays
<1>3. /\ Cut(k)' <=> Cut(k)
      /\ \A it : Pending(k, it) => Pending(k, it)'
      /\ \A it : Pending(k, it)' => Pending(k, it) \/ \E i \in 1 .. Len(items) : items[i] = it
      /\ \A i \in 1 .. Len(items) : Pending(k, items[i])'
      /\ Ordered(k) => Ordered(k)'
  BY <1>1, <1>2, AppendKeeps
<1>4. Before(k) => Before(k)'
  BY <1>2, <1>3 DEF Before
<1>5. Unbegun(k) => Unbegun(k)'
  BY <1>2, <1>3 DEF Unbegun
<1>6. ASSUME NEW e, Got(k, e) PROVE Got(k, e)'
  BY <1>3, <1>6 DEF Got
<1> QED
  BY <1>3, <1>4, <1>5, <1>6

LEMMA OthersKeep ==
  ASSUME Typed, NEW k \in Relay, NEW j \in Relay, j # k, LoomOf(k), Keeps(j)
  PROVE  LoomOf(k)'
<1>1. PICK sent, w, a : WorkerMoves(j, sent, w, a)
  BY DEF Keeps
<1>2. /\ sent \in Seq(Items) /\ Send(sent) /\ \A i \in 1 .. Len(sent) : sent[i].relay # k
      /\ UNCHANGED <<held, rejected, progress, at, created>>
      /\ worker' = [worker EXCEPT ![j] = w] /\ active' = [active EXCEPT ![j] = a]
  BY <1>1 DEF WorkerMoves, OfRelay, OnlyWorker, history, relays
<1>3. worker'[k] = worker[k] /\ active'[k] = active[k]
  BY <1>2 DEF Typed
<1>4. /\ \A e : Got(k, e) => Got(k, e)'
      /\ Before(k) => Before(k)'
      /\ Unbegun(k) => Unbegun(k)'
  BY <1>2, HarmlessItems
<1> QED
  BY <1>2, <1>3, <1>4, Carry

LEMMA TickKeeps ==
  ASSUME Typed, Tick, \A k \in Relay : LoomOf(k)
  PROVE  Typed' /\ \A k \in Relay : LoomOf(k)'
<1>1. /\ clock' = clock + 1
      /\ UNCHANGED <<created, at, held, cursor, worker, active, chan, gen, progress, rejected>>
  BY DEF Tick, workers, history
<1>2. \A k \in Relay : WorkerOK(worker[k], clock + 1)
  <2> SUFFICES ASSUME NEW k \in Relay PROVE WorkerOK(worker[k], clock + 1)
    OBVIOUS
  <2>1. clock \in Nat /\ WorkerOK(worker[k], clock)
    BY DEF Typed
  <2>2. worker[k] \notin Idle => worker[k].start \in Nat
    BY <2>1 DEF WorkerOK, Asking, Paging, Opening
  <2> QED BY <2>1, <2>2 DEF WorkerOK
<1>3. Typed'
  BY <1>1, <1>2, Constants DEF Typed
<1>4. ASSUME NEW k \in Relay PROVE LoomOf(k)'
  BY <1>1 DEF LoomOf, Following, AllGot, OldGot, Got, Before, Ordered, Unbegun, Covers,
              PastStatus, Cut, Pending, Whole
<1> QED
  BY <1>3, <1>4

LEMMA ArriveKeeps ==
  ASSUME Typed, NEW j \in Relay, NEW e \in Event, Arrive(j, e), \A k \in Relay : LoomOf(k)
  PROVE  Typed' /\ \A k \in Relay : LoomOf(k)'
<1> DEFINE t     == IF created[e] = 0 THEN clock + Offset[e] ELSE created[e]
           items == IF Following(j, FilterOf(e)) THEN <<Deliver(j, e)>> ELSE << >>
<1>1. /\ e \notin at[j] /\ t >= clock - Tolerance /\ created' = [created EXCEPT ![e] = t]
      /\ at' = [at EXCEPT ![j] = @ \cup {e}] /\ Send(items)
      /\ UNCHANGED <<clock, held, cursor, worker, active, gen, progress, rejected>>
  BY DEF Arrive, workers, history
<1>2. /\ clock \in Nat /\ clock >= Start /\ created[e] \in Nat
      /\ Offset[e] \in Int /\ Offset[e] >= Lag - Overlap
  BY InboundAssumption DEF Typed
<1>3. t \in Nat /\ t > 0 /\ t >= clock - Overlap
  BY <1>1, <1>2, Constants DEF Tolerance
<1>4. OfRelay(j, items) /\ \A i \in 1 .. Len(items) : items[i].op = "event"
  <2>1. Deliver(j, e) \in Items /\ Deliver(j, e).relay = j /\ Deliver(j, e).op = "event"
    BY ItemTypes, ItemRelays
  <2>2. /\ OfRelay(j, <<Deliver(j, e)>>) /\ Len(<<Deliver(j, e)>>) = 1
        /\ <<Deliver(j, e)>>[1] = Deliver(j, e)
        /\ OfRelay(j, << >>) /\ Len(<< >>) = 0
    BY <2>1, OneItem
  <2> QED BY <2>1, <2>2
<1>5. Following(j, FilterOf(e)) => 1 \in 1 .. Len(items) /\ items[1] = Deliver(j, e)
  OBVIOUS
<1> HIDE DEF items, t
<1>6. PICK sent \in Seq(Items) :
        /\ Send(sent) /\ \A i \in 1 .. Len(sent) : sent[i].op = "event"
        /\ Following(j, FilterOf(e)) => 1 \in 1 .. Len(sent) /\ sent[1] = Deliver(j, e)
  BY <1>1, <1>4, <1>5 DEF OfRelay
<1>7. chan' \in Seq(Items)
  BY <1>1, <1>6, Appended DEF Typed
<1>8. created' \in [Event -> Nat] /\ \A d \in Event : d # e => created'[d] = created[d]
  BY <1>1, <1>3 DEF Typed
<1>9. created'[e] = t
  BY <1>1 DEF Typed
<1>10. at' \in [Relay -> SUBSET Event] /\ at'[j] = at[j] \cup {e}
       /\ \A k \in Relay : k # j => at'[k] = at[k]
  BY <1>1 DEF Typed
<1>11. ASSUME NEW k \in Relay, NEW d \in at[k] PROVE created'[d] = created[d] /\ created[d] > 0
  <2>1. created[d] > 0 /\ d \in Event
    BY DEF Typed
  <2>2. CASE d = e
    BY <1>2, <1>9, <2>1, <2>2 DEF t
  <2> QED BY <1>8, <2>1, <2>2
<1>12. \A k \in Relay : \A d \in at'[k] : created'[d] > 0
  BY <1>3, <1>9, <1>10, <1>11
<1>13. Typed'
  BY <1>1, <1>7, <1>8, <1>10, <1>12 DEF Typed
<1>14. ASSUME NEW k \in Relay PROVE LoomOf(k)'
  <2>1. /\ \A d : Got(k, d) => Got(k, d)'
        /\ Before(k) => Before(k)'
        /\ Unbegun(k) => Unbegun(k)'
        /\ \A i \in 1 .. Len(sent) : Pending(k, sent[i])'
    BY <1>1, <1>6, HarmlessItems
  <2>2. ASSUME NEW d \in at'[k] \cap Status, d \notin at[k]
        PROVE  /\ worker[k].pc \in {"page", "widen", "open"} =>
                    created'[d] >= worker[k].start - Overlap
               /\ Following(k, "status") => Got(k, d)'
    <3>1. k = j /\ d = e
      BY <1>10, <2>2
    <3>2. FilterOf(e) = "status"
      BY <3>1, StatusAreEvents
    <3>3. Following(k, "status") => Got(k, d)'
      BY <1>6, <2>1, <3>1, <3>2 DEF Got
    <3>4. ASSUME worker[k].pc \in {"page", "widen", "open"}
          PROVE  created'[d] >= worker[k].start - Overlap
      <4>1. WorkerOK(worker[k], clock)
        BY DEF Typed
      <4>2. worker[k].start \in Nat /\ worker[k].start <= clock
        BY <3>4, <4>1 DEF WorkerOK, Idle, Asking, Paging, Opening
      <4> QED BY <1>2, <1>3, <1>9, <3>1, <4>2, Constants
    <3> QED BY <3>3, <3>4
  <2> QED BY <1>1, <1>11, <2>1, <2>2, Carry
<1> QED
  BY <1>13, <1>14

----------------------------------------------------------------------------
(* The consumer. *)

(* What receiving an item of relay r may do to what is known of its        *)
(* statuses, while the session the item belongs to is the current one.     *)
Consumes(r) ==
  /\ chan # << >> /\ chan' = Tail(chan) /\ chan[1].relay = r
  /\ UNCHANGED <<clock, created, at, worker, active>>
  /\ \A e \in Status : e \in held \cup rejected => e \in held' \cup rejected'
  /\ \A k \in Relay : k # r => progress'[k] = progress[k]
  /\ chan[1] = Note("failed", r) =>
       ~progress'[r].ready /\ progress'[r].live = "none" /\ ~progress'[r].caughtUp
  /\ ~Cut(r) =>
       /\ \A e \in Status : chan[1] = Deliver(r, e) =>
            e \in held' \cup rejected' \/ progress'[r].dirty
       /\ progress[r].dirty => progress'[r].dirty
       /\ progress'[r].caughtUp => progress[r].caughtUp \/ chan[1] = Note("caughtUp", r)
       /\ Before(r) => ~progress'[r].ready /\ progress'[r].live = "none"

LEMMA ConsumesKeeps ==
  ASSUME Typed, NEW r \in Relay, Consumes(r), NEW k \in Relay, LoomOf(k)
  PROVE  LoomOf(k)'
<1>0. /\ chan \in Seq(Items) /\ chan # << >> /\ chan' = Tail(chan) /\ chan[1].relay = r
      /\ UNCHANGED <<clock, created, at, worker, active>>
      /\ \A e \in Status : e \in held \cup rejected => e \in held' \cup rejected'
      /\ k # r => progress'[k] = progress[k]
  BY DEF Consumes, Typed
<1>1. /\ Cut(k)' => Cut(k)
      /\ Cut(k) => Cut(k)' \/ chan[1] = Note("failed", k)
      /\ chan[1] = Note("failed", k) => Cut(k)
      /\ \A it : Pending(k, it)' => Pending(k, it)
      /\ \A it : Pending(k, it) => Pending(k, it)' \/ (chan[1] = it /\ ~Cut(k))
      /\ ~Cut(k) => Pending(k, chan[1])
      /\ Ordered(k) => Ordered(k)'
      /\ Ordered(k) /\ ~Cut(k) /\ chan[1] = Note("caughtUp", k) => ~Pending(k, Begin(k, "status"))'
  BY <1>0, Received
<1>2. CASE k # r
  <2>1. /\ \A e : chan[1] # Deliver(k, e)
        /\ chan[1] # Note("failed", k)
    BY <1>0, <1>2, ItemRelays
  <2>2. ASSUME NEW e \in Status, Got(k, e) PROVE Got(k, e)'
    BY <1>0, <1>1, <1>2, <2>1, <2>2 DEF Got
  <2>3. Before(k) => Before(k)'
    BY <1>0, <1>1, <1>2, <2>1 DEF Before
  <2>4. Unbegun(k) => Unbegun(k)'
    BY <1>0, <1>1, <1>2, <2>1 DEF Unbegun
  <2> QED BY <1>0, <2>2, <2>3, <2>4, Carry
<1>3. CASE k = r
  <2>1. CASE Cut(k)
    <3>1. chan[1] = Note("failed", k) =>
            ~progress'[k].ready /\ progress'[k].live = "none" /\ ~progress'[k].caughtUp
      BY <1>3 DEF Consumes
    <3>2. ASSUME NEW e \in Status, Got(k, e) PROVE Got(k, e)'
      BY <1>0, <1>1, <2>1, <3>2 DEF Got
    <3>3. Before(k) => Before(k)'
      BY <1>1, <2>1, <3>1 DEF Before
    <3>4. Unbegun(k) => Unbegun(k)'
      BY <1>1, <2>1, <3>1 DEF Unbegun
    <3> QED BY <1>0, <3>2, <3>3, <3>4, Carry
  <2>2. CASE ~Cut(k)
    <3>1. /\ \A e \in Status : chan[1] = Deliver(k, e) =>
               e \in held' \cup rejected' \/ progress'[k].dirty
          /\ progress[k].dirty => progress'[k].dirty
          /\ progress'[k].caughtUp => progress[k].caughtUp \/ chan[1] = Note("caughtUp", k)
          /\ Before(k) => ~progress'[k].ready /\ progress'[k].live = "none"
      BY <1>3, <2>2 DEF Consumes
    <3>2. ASSUME NEW e \in Status, Got(k, e) PROVE Got(k, e)'
      BY <1>0, <1>1, <2>2, <3>1, <3>2 DEF Got
    <3>3. Before(k) => Before(k)'
      BY <1>1, <2>2, <3>1 DEF Before
    <3>4. Unbegun(k) => Unbegun(k)'
      BY <1>1, <2>2, <3>1 DEF Unbegun
    <3> QED BY <1>0, <3>2, <3>3, <3>4, Carry
  <2> QED BY <2>1, <2>2
<1> QED
  BY <1>2, <1>3

LEMMA ConsumesTyped ==
  ASSUME Typed, NEW r \in Relay, Consumes(r),
         held' \in SUBSET Event, cursor' \in [Relay -> Nat],
         gen' \in [Relay -> GenRecord], progress' \in [Relay -> ProgressRecord]
  PROVE  Typed'
<1>1. chan' \in Seq(Items)
  BY Received DEF Consumes, Typed
<1>2. UNCHANGED <<clock, created, at, worker, active>>
  BY DEF Consumes
<1> QED
  BY <1>1, <1>2 DEF Typed

LEMMA AdvanceTyped ==
  ASSUME Typed, NEW r \in Relay, NEW to \in Int, Advance(r, to)
  PROVE  cursor' \in [Relay -> Nat]
<1>1. cursor \in [Relay -> Nat] /\ cursor[r] \in Nat
  BY DEF Typed
<1>2. Max({cursor[r], to}) \in Nat
  <2> DEFINE c == cursor[r]
  <2> HIDE DEF c
  <2>1. Max({c, to}) = IF c >= to THEN c ELSE to
    BY <1>1, MaxOfTwo DEF c
  <2> QED BY <1>1, <2>1 DEF c
<1> QED
  BY <1>1, <1>2 DEF Advance

LEMMA ClampTyped ==
  ASSUME Typed, NEW t \in Nat
  PROVE  ClampToClock(t) \in Nat
<1>1. clock \in Nat /\ clock \in Int /\ t \in Int
  BY DEF Typed
<1>2. Min({t, clock}) = IF t <= clock THEN t ELSE clock
  BY <1>1, MinOfTwo
<1> QED
  BY <1>1, <1>2 DEF ClampToClock

LEMMA ObserveTyped ==
  ASSUME Typed, NEW r \in Relay, NEW e \in Event, Observe(r, e)
  PROVE  cursor' \in [Relay -> Nat] /\ gen' \in [Relay -> GenRecord]
<1> DEFINE c == ClampToClock(created[e])
<1>1. c \in Nat
  BY ClampTyped DEF Typed
<1>2. gen \in [Relay -> GenRecord] /\ cursor \in [Relay -> Nat] /\ gen[r].newest \in Nat
  BY DEF Typed, GenRecord
<1>3. Max({gen[r].newest, c}) \in Nat
  <2> DEFINE m == gen[r].newest
  <2> HIDE DEF m, c
  <2>1. Max({m, c}) = IF m >= c THEN m ELSE c
    BY <1>1, <1>2, MaxOfTwo DEF m
  <2> QED BY <1>1, <1>2, <2>1 DEF m
<1>4. CASE UNCHANGED <<gen, cursor, faults>>
  BY <1>2, <1>4
<1>5. CASE gen' = [gen EXCEPT ![r].newest = Max({@, c})] /\ UNCHANGED cursor
  <2> DEFINE m == Max({gen[r].newest, c})
  <2>1. gen' = [gen EXCEPT ![r].newest = m]
    BY <1>5
  <2> HIDE DEF m
  <2> QED BY <1>2, <1>3, <1>5, <2>1 DEF GenRecord, m
<1>6. CASE UNCHANGED gen /\ Advance(r, c)
  <2> HIDE DEF c
  <2> QED BY <1>1, <1>2, <1>6, AdvanceTyped
<1> QED
  BY <1>4, <1>5, <1>6 DEF Observe

LEMMA TakesItem ==
  ASSUME Typed, NEW op, Receive(op)
  PROVE  /\ chan # << >> /\ chan' = Tail(chan) /\ Item = chan[1]
         /\ chan[1] \in Items /\ chan[1].op = op /\ chan[1].relay \in Relay
         /\ op # "failed" => \A k : chan[1] # Note("failed", k)
<1>1. chan \in Seq(Items) /\ chan # << >> /\ chan' = Tail(chan) /\ Item = chan[1] /\ Item.op = op
  BY DEF Receive, Item, Typed
<1>2. chan[1] \in Items
  BY <1>1, Received
<1>3. \A k : Note("failed", k).op = "failed"
  BY ItemRelays
<1> QED
  BY <1>1, <1>2, <1>3, ItemForms

(* An event of relay r: stored, known, rejected, or lost and noted.        *)
LEMMA EventKeeps ==
  ASSUME Typed, Receive("event"),
         UNCHANGED <<clock, created, at, worker, active>>,
         held' \in SUBSET Event, held \subseteq held', rejected \subseteq rejected',
         cursor' \in [Relay -> Nat], gen' \in [Relay -> GenRecord],
         \/ UNCHANGED progress /\ (Item.ev \in Status => Item.ev \in held' \cup rejected')
         \/ progress' = [progress EXCEPT ![Item.relay] =
                           [progress[Item.relay] EXCEPT !.dirty = TRUE, !.ready = FALSE]]
  PROVE  Typed' /\ \A k \in Relay : LoomOf(k) => LoomOf(k)'
<1>1. PICK r \in Relay : chan[1].relay = r
  BY TakesItem
<1>2. /\ chan # << >> /\ chan' = Tail(chan) /\ Item = chan[1]
      /\ chan[1] \in Items /\ chan[1].op = "event"
      /\ \A k : chan[1] # Note("failed", k) /\ chan[1] # Note("caughtUp", k)
  <2>1. \A k : Note("caughtUp", k).op = "caughtUp" /\ Note("failed", k).op = "failed"
    BY ItemRelays
  <2> QED BY <2>1, TakesItem
<1>3. PICK d \in Event : chan[1] = Deliver(r, d) /\ Item.ev = d
  BY <1>1, <1>2, ItemForms
<1>4. \A e : chan[1] = Deliver(r, e) => e = d
  <2>1. \A e : Deliver(r, e).ev = e
    BY ItemRelays
  <2> QED BY <1>3, <2>1
<1>5. progress \in [Relay -> ProgressRecord]
  BY DEF Typed
<1>6. /\ progress' \in [Relay -> ProgressRecord]
      /\ \A k \in Relay : k # r => progress'[k] = progress[k]
      /\ progress'[r].caughtUp = progress[r].caughtUp
      /\ progress'[r].live = progress[r].live
      /\ progress'[r].ready => progress[r].ready
      /\ progress[r].dirty => progress'[r].dirty
      /\ d \in Status => d \in held' \cup rejected' \/ progress'[r].dirty
  <2>1. CASE UNCHANGED progress /\ (d \in Status => d \in held' \cup rejected')
    BY <1>5, <2>1
  <2>2. CASE progress' = [progress EXCEPT ![r] = [progress[r] EXCEPT !.dirty = TRUE, !.ready = FALSE]]
    <3> DEFINE p == progress[r]
               q == [p EXCEPT !.dirty = TRUE, !.ready = FALSE]
    <3>1. /\ q \in ProgressRecord /\ q.caughtUp = p.caughtUp /\ q.live = p.live
          /\ q.ready = FALSE /\ q.dirty = TRUE
      <4>1. p \in ProgressRecord
        BY <1>5
      <4> HIDE DEF p
      <4> QED BY <4>1 DEF ProgressRecord
    <3>2. progress' = [progress EXCEPT ![r] = q]
      BY <2>2
    <3> HIDE DEF q
    <3> QED BY <1>5, <3>1, <3>2
  <2> QED BY <1>1, <1>2, <1>3, <2>1, <2>2
<1>7. Before(r) /\ ~Cut(r) => ~progress[r].ready /\ progress[r].live = "none"
  BY DEF Before
<1>8. Consumes(r)
  BY <1>1, <1>2, <1>4, <1>6, <1>7 DEF Consumes
<1> QED
  BY <1>6, <1>8, ConsumesKeeps, ConsumesTyped

LEMMA EventsKeep ==
  ASSUME Typed, ConsumeRejected \/ ConsumeFailed \/ ConsumeDuplicate \/ ConsumeNew
  PROVE  Typed' /\ \A k \in Relay : LoomOf(k) => LoomOf(k)'
<1>1. /\ held \in SUBSET Event /\ cursor \in [Relay -> Nat] /\ gen \in [Relay -> GenRecord]
  BY DEF Typed
<1>2. Receive("event")
  BY DEF ConsumeRejected, ConsumeFailed, ConsumeDuplicate, ConsumeNew
<1>3. Item.relay \in Relay /\ Item.ev \in Event
  BY <1>2, TakesItem, ItemForms
<1>4. CASE ConsumeRejected
  <2>1. /\ UNCHANGED <<clock, created, at, worker, active, held, cursor, gen, progress>>
        /\ rejected' = rejected \cup {Item.ev}
    BY <1>4 DEF ConsumeRejected, relays, workers
  <2> QED BY <1>1, <1>2, <2>1, EventKeeps
<1>5. CASE ConsumeFailed
  <2>1. /\ UNCHANGED <<clock, created, at, worker, active, held, cursor, rejected>>
        /\ IF Item.ev \in Regular
           THEN gen' = [gen EXCEPT ![Item.relay].dirty = TRUE] /\ UNCHANGED progress
           ELSE /\ progress' = [progress EXCEPT ![Item.relay] =
                                  [progress[Item.relay] EXCEPT !.dirty = TRUE, !.ready = FALSE]]
                /\ UNCHANGED gen
    BY <1>5 DEF ConsumeFailed, relays, workers, SetProgress
  <2>2. gen' \in [Relay -> GenRecord]
    <3> DEFINE g == [gen[Item.relay] EXCEPT !.dirty = TRUE]
    <3>1. gen' = gen \/ gen' = [gen EXCEPT ![Item.relay] = g]
      BY <2>1
    <3>2. gen \in [Relay -> GenRecord]
      BY <1>1
    <3>3. gen[Item.relay] \in GenRecord
      BY <1>3, <3>2
    <3>4. g \in GenRecord
      BY <3>3 DEF GenRecord
    <3> HIDE DEF g
    <3> QED BY <3>1, <3>2, <3>4
  <2>3. Item.ev \in Regular => Item.ev \notin Status
    BY DEF Status
  <2> QED BY <1>1, <1>2, <2>1, <2>2, <2>3, EventKeeps
<1>6. CASE ConsumeDuplicate
  <2>1. /\ UNCHANGED <<clock, created, at, worker, active, held, progress, rejected>>
        /\ Observe(Item.relay, Item.ev) /\ Item.ev \in held
    BY <1>6 DEF ConsumeDuplicate, relays, workers, history
  <2>2. cursor' \in [Relay -> Nat] /\ gen' \in [Relay -> GenRecord]
    BY <1>3, <2>1, ObserveTyped
  <2> QED BY <1>1, <1>2, <2>1, <2>2, EventKeeps
<1>7. CASE ConsumeNew
  <2>1. /\ UNCHANGED <<clock, created, at, worker, active, progress, rejected>>
        /\ Observe(Item.relay, Item.ev) /\ held' = held \cup {Item.ev}
    BY <1>7 DEF ConsumeNew, relays, workers
  <2>2. cursor' \in [Relay -> Nat] /\ gen' \in [Relay -> GenRecord]
    BY <1>3, <2>1, ObserveTyped
  <2> QED BY <1>1, <1>2, <1>3, <2>1, <2>2, EventKeeps
<1> QED
  BY <1>4, <1>5, <1>6, <1>7

(* The other items: the record of the relay becomes p, no status is lost.  *)
LEMMA NoteKeeps ==
  ASSUME Typed, NEW op \in {"begin", "commit", "caughtUp", "failed", "gaveUp"}, Receive(op),
         NEW r \in Relay, chan[1].relay = r, NEW p \in ProgressRecord,
         UNCHANGED <<clock, created, at, worker, active, rejected>>,
         held' \in SUBSET Event, held \cap Status \subseteq held',
         cursor' \in [Relay -> Nat], gen' \in [Relay -> GenRecord],
         progress' = [progress EXCEPT ![r] = p],
         op = "failed" => ~p.ready /\ p.live = "none" /\ ~p.caughtUp,
         ~Cut(r) /\ op # "failed" =>
           /\ progress[r].dirty => p.dirty
           /\ p.caughtUp => progress[r].caughtUp \/ chan[1] = Note("caughtUp", r)
           /\ Before(r) => ~p.ready /\ p.live = "none"
  PROVE  Typed' /\ \A k \in Relay : LoomOf(k) => LoomOf(k)'
<1>1. /\ chan # << >> /\ chan' = Tail(chan) /\ chan[1] \in Items /\ chan[1].op = op
      /\ op # "failed" => \A k : chan[1] # Note("failed", k)
  BY TakesItem
<1>2. \A e : chan[1] # Deliver(r, e)
  <2>1. \A e : Deliver(r, e).op = "event"
    BY ItemRelays
  <2> QED BY <1>1, <2>1
<1>3. /\ progress' \in [Relay -> ProgressRecord] /\ progress'[r] = p
      /\ \A k \in Relay : k # r => progress'[k] = progress[k]
  BY DEF Typed
<1>4. op = "failed" => Cut(r)
  <2>1. chan \in Seq(Items) /\ (op = "failed" => chan[1] = Note("failed", r))
    BY <1>1, ItemForms DEF Typed
  <2> QED BY <1>1, <2>1, Received
<1>5. Consumes(r)
  BY <1>1, <1>2, <1>3, <1>4 DEF Consumes
<1> QED
  BY <1>3, <1>5, ConsumesKeeps, ConsumesTyped

LEMMA BeginKeeps ==
  ASSUME Typed, ConsumeBegin
  PROVE  Typed' /\ \A k \in Relay : LoomOf(k) => LoomOf(k)'
<1>1. PICK r \in Relay : chan[1].relay = r
  BY TakesItem DEF ConsumeBegin
<1>2. /\ Receive("begin") /\ Item = chan[1] /\ chan[1] \in Items /\ chan[1].op = "begin"
      /\ chan \in Seq(Items) /\ chan # << >> /\ chan' = Tail(chan)
  BY TakesItem DEF ConsumeBegin, Typed
<1>3. chan[1] = Begin(r, chan[1].filter)
  BY <1>1, <1>2, ItemForms
<1> DEFINE q == [progress[r] EXCEPT !.live = "begun", !.ready = FALSE]
           begun == chan[1].filter = "status" /\ progress[r].caughtUp
<1>4. /\ UNCHANGED <<clock, created, at, worker, active, rejected, held, cursor>>
      /\ gen' = IF chan[1].filter = "regular" THEN [gen EXCEPT ![r] = NoGen] ELSE gen
      /\ progress' = IF begun THEN [progress EXCEPT ![r] = q] ELSE progress
  BY <1>1, <1>2 DEF ConsumeBegin, SetProgress, relays, workers, history
<1>5. /\ held' \in SUBSET Event /\ cursor' \in [Relay -> Nat] /\ progress[r] \in ProgressRecord
      /\ progress \in [Relay -> ProgressRecord] /\ gen \in [Relay -> GenRecord]
  BY <1>4 DEF Typed
<1>6. gen' \in [Relay -> GenRecord]
  <2>1. NoGen \in GenRecord
    BY DEF NoGen, GenRecord
  <2> QED BY <1>4, <1>5, <2>1
<1>7. q \in ProgressRecord /\ q.dirty = progress[r].dirty /\ q.caughtUp = progress[r].caughtUp
  <2> DEFINE p == progress[r]
  <2> HIDE DEF p
  <2> QED BY <1>5 DEF ProgressRecord, p
<1>8. Before(r) /\ ~Cut(r) => ~begun /\ ~progress[r].ready /\ progress[r].live = "none"
  <2>1. ~Cut(r) => Pending(r, chan[1])
    BY <1>2, Received
  <2> QED BY <1>3, <2>1 DEF Before
<1> HIDE DEF q, begun
<1>9. "begin" \in {"begin", "commit", "caughtUp", "failed", "gaveUp"} /\ "begin" # "failed"
  OBVIOUS
<1>10. CASE begun
  BY <1>1, <1>2, <1>4, <1>5, <1>6, <1>7, <1>8, <1>9, <1>10, NoteKeeps
<1>11. CASE ~begun
  <2>1. progress' = [progress EXCEPT ![r] = progress[r]]
    BY <1>4, <1>5, <1>11
  <2>2. PICK p \in ProgressRecord : p = progress[r]
    BY <1>5
  <2> QED BY <1>1, <1>2, <1>4, <1>5, <1>6, <1>8, <1>9, <2>1, <2>2, NoteKeeps
<1> QED
  BY <1>10, <1>11

LEMMA CommitKeeps ==
  ASSUME Typed, ConsumeCommitRegular \/ ConsumeCommitStatus
  PROVE  Typed' /\ \A k \in Relay : LoomOf(k) => LoomOf(k)'
<1>0. Receive("commit")
  BY DEF ConsumeCommitRegular, ConsumeCommitStatus
<1>1. PICK r \in Relay : chan[1].relay = r
  BY <1>0, TakesItem
<1>2. Item = chan[1] /\ chan[1] \in Items /\ chan[1].op = "commit" /\ chan[1].floor \in Nat
  BY <1>0, TakesItem, ItemForms
<1>3. /\ held \in SUBSET Event /\ cursor \in [Relay -> Nat] /\ progress[r] \in ProgressRecord
      /\ progress \in [Relay -> ProgressRecord] /\ gen \in [Relay -> GenRecord]
      /\ gen[r].newest \in Nat
  BY DEF Typed, GenRecord
<1>4. "commit" \in {"begin", "commit", "caughtUp", "failed", "gaveUp"} /\ "commit" # "failed"
  OBVIOUS
<1>5. Before(r) /\ ~Cut(r) => ~progress[r].ready /\ progress[r].live = "none"
  BY DEF Before
<1>6. CASE ConsumeCommitRegular
  <2>1. /\ UNCHANGED <<clock, created, at, worker, active, rejected, held, progress>>
        /\ gen' = [gen EXCEPT ![r].live = TRUE]
        /\ \/ UNCHANGED cursor
           \/ Advance(r, ClampToClock(Max({gen[r].newest, chan[1].floor})))
    BY <1>1, <1>2, <1>6 DEF ConsumeCommitRegular, relays, workers
  <2>2. Max({gen[r].newest, chan[1].floor}) \in Nat
    <3> DEFINE a == gen[r].newest
               b == chan[1].floor
    <3> HIDE DEF a, b
    <3>1. Max({a, b}) = IF a >= b THEN a ELSE b
      BY <1>2, <1>3, MaxOfTwo DEF a, b
    <3> QED BY <1>2, <1>3, <3>1 DEF a, b
  <2>3. cursor' \in [Relay -> Nat]
    <3> DEFINE to == ClampToClock(Max({gen[r].newest, chan[1].floor}))
    <3>1. to \in Nat
      BY <2>2, ClampTyped
    <3> HIDE DEF to
    <3> QED BY <1>3, <2>1, <3>1, AdvanceTyped DEF to
  <2>4. gen' \in [Relay -> GenRecord]
    BY <1>3, <2>1 DEF GenRecord
  <2>5. PICK p \in ProgressRecord : p = progress[r]
    BY <1>3
  <2>6. progress' = [progress EXCEPT ![r] = p]
    BY <1>3, <2>1, <2>5
  <2> QED BY <1>0, <1>1, <1>3, <1>4, <1>5, <2>1, <2>3, <2>4, <2>5, <2>6, NoteKeeps
<1>7. CASE ConsumeCommitStatus
  <2> DEFINE q == [progress[r] EXCEPT !.live = "answered", !.ready = ~progress[r].dirty]
             answered == progress[r].live # "none" /\ progress[r].caughtUp
  <2>1. /\ UNCHANGED <<clock, created, at, worker, active, rejected, held, cursor, gen>>
        /\ progress' = IF answered THEN [progress EXCEPT ![r] = q] ELSE progress
    BY <1>1, <1>2, <1>7 DEF ConsumeCommitStatus, SetProgress, relays, workers, history
  <2>2. q \in ProgressRecord /\ q.dirty = progress[r].dirty /\ q.caughtUp = progress[r].caughtUp
    <3> DEFINE p == progress[r]
    <3> HIDE DEF p
    <3> QED BY <1>3 DEF ProgressRecord, p
  <2>3. answered => ~(Before(r) /\ ~Cut(r))
    BY <1>5
  <2> HIDE DEF q, answered
  <2>4. CASE answered
    BY <1>0, <1>1, <1>3, <1>4, <2>1, <2>2, <2>3, <2>4, NoteKeeps
  <2>5. CASE ~answered
    <3>1. progress' = [progress EXCEPT ![r] = progress[r]]
      BY <1>3, <2>1, <2>5
    <3>2. PICK p \in ProgressRecord : p = progress[r]
      BY <1>3
    <3> QED BY <1>0, <1>1, <1>3, <1>4, <1>5, <2>1, <3>1, <3>2, NoteKeeps
  <2> QED BY <2>4, <2>5
<1> QED
  BY <1>6, <1>7

LEMMA CaughtUpKeeps ==
  ASSUME Typed, ConsumeCaughtUp
  PROVE  Typed' /\ \A k \in Relay : LoomOf(k) => LoomOf(k)'
<1>0. Receive("caughtUp")
  BY DEF ConsumeCaughtUp
<1>1. PICK r \in Relay : chan[1].relay = r
  BY <1>0, TakesItem
<1>2. Item = chan[1] /\ chan[1] \in Items /\ chan[1].op = "caughtUp"
  BY <1>0, TakesItem
<1>3. chan[1] = Note("caughtUp", r)
  BY <1>1, <1>2, ItemForms
<1> DEFINE q == [progress[r] EXCEPT !.caughtUp = TRUE, !.failed = FALSE, !.live = "none", !.ready = FALSE]
<1>4. /\ UNCHANGED <<clock, created, at, worker, active, rejected, cursor, gen>>
      /\ progress' = [progress EXCEPT ![r] = q]
      /\ held' \subseteq held /\ held \cap Status \subseteq held'
  <2>1. /\ UNCHANGED <<clock, created, at, worker, active, rejected, cursor, gen>>
        /\ progress' = [progress EXCEPT ![r] = q]
    BY <1>1, <1>2 DEF ConsumeCaughtUp, SetProgress, relays, workers
  <2>2. Prune(held) \/ UNCHANGED <<held, pruned>>
    BY DEF ConsumeCaughtUp
  <2> QED BY <2>1, <2>2 DEF Prune, Status
<1>5. /\ held' \in SUBSET Event /\ cursor' \in [Relay -> Nat] /\ progress[r] \in ProgressRecord
      /\ gen' \in [Relay -> GenRecord]
  BY <1>4 DEF Typed
<1>6. /\ q \in ProgressRecord /\ q.dirty = progress[r].dirty
      /\ q.ready = FALSE /\ q.live = "none"
  <2> DEFINE p == progress[r]
  <2> HIDE DEF p
  <2> QED BY <1>5 DEF ProgressRecord, p
<1> HIDE DEF q
<1>7. "caughtUp" \in {"begin", "commit", "caughtUp", "failed", "gaveUp"} /\ "caughtUp" # "failed"
  OBVIOUS
<1> QED
  BY <1>0, <1>1, <1>3, <1>4, <1>5, <1>6, <1>7, NoteKeeps

LEMMA FailedKeeps ==
  ASSUME Typed, ConsumeRelayFailed
  PROVE  Typed' /\ \A k \in Relay : LoomOf(k) => LoomOf(k)'
<1>0. Receive("failed")
  BY DEF ConsumeRelayFailed
<1>1. PICK r \in Relay : chan[1].relay = r
  BY <1>0, TakesItem
<1>2. Item = chan[1]
  BY <1>0, TakesItem
<1> DEFINE q == [NoProgress EXCEPT !.failed = TRUE, !.gaveUp = progress[r].gaveUp]
<1>3. /\ UNCHANGED <<clock, created, at, worker, active, rejected, held, cursor, gen>>
      /\ progress' = [progress EXCEPT ![r] = q]
  BY <1>1, <1>2 DEF ConsumeRelayFailed, SetProgress, relays, workers, history
<1>4. /\ held' \in SUBSET Event /\ cursor' \in [Relay -> Nat] /\ progress[r] \in ProgressRecord
      /\ gen' \in [Relay -> GenRecord]
  BY <1>3 DEF Typed
<1>5. q \in ProgressRecord /\ q.ready = FALSE /\ q.live = "none" /\ q.caughtUp = FALSE
  <2> DEFINE g == progress[r].gaveUp
  <2>1. g \in BOOLEAN
    BY <1>4 DEF ProgressRecord
  <2> HIDE DEF g
  <2> QED BY <2>1 DEF ProgressRecord, NoProgress, g
<1> HIDE DEF q
<1>6. "failed" \in {"begin", "commit", "caughtUp", "failed", "gaveUp"}
  OBVIOUS
<1> QED
  BY <1>0, <1>1, <1>3, <1>4, <1>5, <1>6, NoteKeeps

LEMMA GaveUpKeeps ==
  ASSUME Typed, ConsumeGaveUp
  PROVE  Typed' /\ \A k \in Relay : LoomOf(k) => LoomOf(k)'
<1>0. Receive("gaveUp")
  BY DEF ConsumeGaveUp
<1>1. PICK r \in Relay : chan[1].relay = r
  BY <1>0, TakesItem
<1>2. Item = chan[1]
  BY <1>0, TakesItem
<1> DEFINE q == [progress[r] EXCEPT !.failed = TRUE, !.gaveUp = TRUE, !.caughtUp = FALSE, !.ready = FALSE]
<1>3. /\ UNCHANGED <<clock, created, at, worker, active, rejected, held, cursor, gen>>
      /\ progress' = [progress EXCEPT ![r] = q]
  BY <1>1, <1>2 DEF ConsumeGaveUp, SetProgress, relays, workers, history
<1>4. /\ held' \in SUBSET Event /\ cursor' \in [Relay -> Nat] /\ progress[r] \in ProgressRecord
      /\ gen' \in [Relay -> GenRecord]
  BY <1>3 DEF Typed
<1>5. /\ q \in ProgressRecord /\ q.dirty = progress[r].dirty /\ q.live = progress[r].live
      /\ q.ready = FALSE /\ q.caughtUp = FALSE
  <2> DEFINE p == progress[r]
  <2> HIDE DEF p
  <2> QED BY <1>4 DEF ProgressRecord, p
<1>6. Before(r) /\ ~Cut(r) => progress[r].live = "none"
  BY DEF Before
<1> HIDE DEF q
<1>7. "gaveUp" \in {"begin", "commit", "caughtUp", "failed", "gaveUp"} /\ "gaveUp" # "failed"
  OBVIOUS
<1> QED
  BY <1>0, <1>1, <1>3, <1>4, <1>5, <1>6, <1>7, NoteKeeps

LEMMA ConsumeKeeps ==
  ASSUME Typed, Consume
  PROVE  Typed' /\ \A k \in Relay : LoomOf(k) => LoomOf(k)'
BY EventsKeep, BeginKeeps, CommitKeeps, CaughtUpKeeps, FailedKeeps, GaveUpKeeps DEF Consume

----------------------------------------------------------------------------
(* The invariant. *)

LoomInv == Typed /\ \A k \in Relay : LoomOf(k)

LEMMA LoomAtRest ==
  ASSUME NEW k \in Relay, chan = << >>, progress[k] = NoProgress, worker[k] = NoWorker
  PROVE  LoomOf(k)
<1>1. ~Cut(k) /\ Ordered(k) /\ \A it : ~Pending(k, it)
  BY DEF Cut, Ordered, Pending
<1>2. Before(k) /\ Unbegun(k)
  BY <1>1 DEF Before, Unbegun, NoProgress
<1> QED
  BY <1>2 DEF LoomOf, Covers, PastStatus, NoWorker

LEMMA TypesAtRest ==
  /\ NoProgress \in ProgressRecord /\ NoGen \in GenRecord
  /\ \A now : WorkerOK(NoWorker, now)
<1>1. NoProgress \in ProgressRecord
  BY DEF NoProgress, ProgressRecord
<1>2. NoGen \in GenRecord
  BY DEF NoGen, GenRecord
<1>3. \A now : WorkerOK(NoWorker, now)
  BY DEF WorkerOK, NoWorker, Idle, Paging
<1> QED
  BY <1>1, <1>2, <1>3

LEMMA LoomInit == Init => LoomInv
<1> SUFFICES ASSUME Init PROVE LoomInv
  OBVIOUS
<1>1. Typed
  <2>1. clock \in Nat /\ clock >= Start
    BY Constants DEF Init
  <2>2. chan \in Seq(Items)
    BY DEF Init
  <2>3. /\ created \in [Event -> Nat] /\ at \in [Relay -> SUBSET Event]
        /\ \A k \in Relay : at[k] = {}
        /\ held \in SUBSET Event /\ cursor \in [Relay -> Nat]
        /\ active \in [Relay -> SUBSET Filter]
    BY DEF Init
  <2>4. /\ worker = [k \in Relay |-> NoWorker]
        /\ gen \in [Relay -> GenRecord] /\ progress \in [Relay -> ProgressRecord]
    BY TypesAtRest DEF Init
  <2>5. \A k \in Relay : WorkerOK(worker[k], clock)
    BY <2>4, TypesAtRest
  <2> QED BY <2>1, <2>2, <2>3, <2>4, <2>5 DEF Typed
<1>2. \A k \in Relay : LoomOf(k)
  BY LoomAtRest DEF Init
<1> QED
  BY <1>1, <1>2 DEF LoomInv

LEMMA CrashKeeps == ASSUME Typed, Crash PROVE Typed' /\ \A k \in Relay : LoomOf(k)'
<1>1. /\ UNCHANGED <<clock, created, at, cursor>>
      /\ worker' = [k \in Relay |-> NoWorker] /\ active' = [k \in Relay |-> Filter]
      /\ chan' = << >> /\ gen' = [k \in Relay |-> NoGen]
      /\ progress' = [k \in Relay |-> NoProgress]
  BY DEF Crash, relays
<1>2. held' \in SUBSET Event
  <2>1. PICK stored \in SUBSET Storing : Prune(held \cup stored)
    BY DEF Crash
  <2>2. Storing \subseteq Event
    <3>1. ASSUME chan # << >>, Item.op = "event" PROVE Item.ev \in Event
      <4>1. chan[1] \in Items /\ Item = chan[1]
        <5>1. chan \in Seq(Items) /\ Len(chan) \in Nat /\ Len(chan) # 0
          BY <3>1, EmptySeq DEF Typed
        <5> QED BY <5>1 DEF Item
      <4> QED BY <3>1, <4>1, ItemForms
    <3> QED BY <3>1 DEF Storing
  <2> QED BY <2>1, <2>2 DEF Prune, Typed
<1>3. Typed'
  <2>1. chan' \in Seq(Items) /\ active' \in [Relay -> SUBSET Filter]
    BY <1>1
  <2>2. /\ gen' \in [Relay -> GenRecord] /\ progress' \in [Relay -> ProgressRecord]
        /\ DOMAIN worker' = Relay /\ worker' = [k \in Relay |-> worker'[k]]
        /\ \A k \in Relay : WorkerOK(worker'[k], clock')
    BY <1>1, TypesAtRest
  <2> QED BY <1>1, <1>2, <2>1, <2>2 DEF Typed
<1>4. ASSUME NEW k \in Relay PROVE LoomOf(k)'
  <2>1. worker'[k] = NoWorker /\ progress'[k] = NoProgress
    BY <1>1
  <2>2. ~Cut(k)' /\ Ordered(k)' /\ \A it : ~Pending(k, it)'
    BY <1>1 DEF Cut, Ordered, Pending
  <2>3. Before(k)' /\ Unbegun(k)'
    BY <2>1, <2>2 DEF Before, Unbegun, NoProgress
  <2> QED BY <2>1, <2>3 DEF LoomOf, Covers, PastStatus, NoWorker
<1> QED
  BY <1>3, <1>4

LEMMA RestartKeeps ==
  ASSUME Typed, Restart, NEW k \in Relay, LoomOf(k)
  PROVE  LoomOf(k)'
<1>1. /\ UNCHANGED <<clock, created, at, cursor, worker, active, chan, gen, progress, rejected>>
      /\ held' \subseteq held /\ held \cap Status \subseteq held'
  BY DEF Restart, Prune, relays, workers, Status
<1>3. \A e \in Status : Got(k, e) => Got(k, e)'
  BY <1>1 DEF Got, Pending, Cut, Whole
<1>4. (Before(k) => Before(k)') /\ (Unbegun(k) => Unbegun(k)')
  BY <1>1 DEF Before, Unbegun, Ordered, Pending, Cut, Whole
<1> QED
  BY <1>1, <1>3, <1>4, Carry

LEMMA LoomStep == LoomInv /\ [Next]_vars => LoomInv'
<1> SUFFICES ASSUME LoomInv, [Next]_vars PROVE LoomInv'
  OBVIOUS
<1>0. Typed /\ \A k \in Relay : LoomOf(k)
  BY DEF LoomInv
<1>1. CASE Tick
  BY <1>0, <1>1, TickKeeps DEF LoomInv
<1>2. CASE \E k \in Relay, e \in Event : Arrive(k, e)
  BY <1>0, <1>2, ArriveKeeps DEF LoomInv
<1>3. ASSUME NEW k \in Relay, Work(k) \/ Drop(k) \/ Closed(k) PROVE LoomInv'
  <2>1. Keeps(k)
    BY <1>0, <1>3, WorkerKeeps
  <2>2. Typed'
    BY <1>0, <2>1, MovesTyped DEF Keeps
  <2>3. LoomOf(k)'
    BY <1>0, <2>1 DEF Keeps
  <2>4. ASSUME NEW j \in Relay, j # k PROVE LoomOf(j)'
    BY <1>0, <2>1, <2>4, OthersKeep
  <2> QED BY <2>2, <2>3, <2>4 DEF LoomInv
<1>4. CASE Consume
  BY <1>0, <1>4, ConsumeKeeps DEF LoomInv
<1>5. CASE Crash
  BY <1>0, <1>5, CrashKeeps DEF LoomInv
<1>6. CASE UNCHANGED vars
  <2>1. UNCHANGED <<clock, created, at, held, cursor, worker, active, chan, gen, progress, rejected>>
    BY <1>6 DEF vars, relays, workers, history
  <2>2. Typed'
    BY <1>0, <2>1 DEF Typed
  <2>3. ASSUME NEW k \in Relay PROVE LoomOf(k)'
    BY <1>0, <2>1 DEF LoomOf, Following, AllGot, OldGot, Got, Before, Ordered, Unbegun, Covers,
                      PastStatus, Cut, Pending, Whole
  <2> QED BY <2>2, <2>3 DEF LoomInv
<1>7. CASE Restart
  <2>1. UNCHANGED <<clock, created, at, cursor, worker, active, chan, gen, progress, rejected>>
        /\ held' \subseteq held
    BY <1>7 DEF Restart, Prune, relays, workers
  <2>2. Typed'
    BY <1>0, <2>1 DEF Typed
  <2> QED BY <1>0, <1>7, <2>2, RestartKeeps DEF LoomInv
<1> QED
  BY <1>1, <1>2, <1>3, <1>4, <1>5, <1>6, <1>7 DEF Next

LEMMA LoomSuffices == LoomInv => LoomProofSound
<1> SUFFICES ASSUME LoomInv, NEW k \in Relay, LoomProof(k), ~Broken(k),
                    NEW e \in at[k] \cap Status
             PROVE  e \in held \/ InFlight(k, e) \/ e \in rejected
  BY DEF LoomProofSound
<1>1. chan \in Seq(Items) /\ DOMAIN chan = 1 .. Len(chan)
  BY DEF LoomInv, Typed
<1>2. ~Cut(k)
  BY <1>1 DEF Cut, Broken, ToSet
<1>3. AllGot(k)
  BY <1>2 DEF LoomInv, LoomOf, Before, LoomProof
<1>4. Got(k, e) /\ ~progress[k].dirty
  BY <1>3 DEF AllGot, LoomProof
<1>5. Pending(k, Deliver(k, e)) => InFlight(k, e)
  BY <1>1 DEF Pending, InFlight
<1> QED
  BY <1>4, <1>5 DEF Got

(* A relay whose status replay counts as proved complete withholds no      *)
(* status: what it holds and the store lacks is on its way to the consumer *)
(* or was rejected, or the end of its session is on its way (consume and   *)
(* updateLoomProof), for every number of relays and events, page limit and *)
(* timing the assumptions allow.                                           *)
THEOREM LoomProofIsSound == Spec => []LoomProofSound
<1>1. Spec => []LoomInv
  BY LoomInit, LoomStep, PTL DEF Spec
<1> QED
  BY <1>1, LoomSuffices, PTL
=============================================================================
