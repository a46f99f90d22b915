---------------------------- MODULE CursorProofs ----------------------------
(***************************************************************************)
(* Proof that the resume cursors of inbound synchronisation leave no gap,  *)
(* for any relays, events, windows, page limit and bounds.                 *)
(*                                                                         *)
(* The invariant follows an event that a relay holds and the store lacks   *)
(* from the relay to the cursor.  Such an event is fresh, and then no      *)
(* cursor can have passed it by more than the overlap; or it is stale, and *)
(* then every commit and every live observation on its way to the consumer *)
(* comes behind a delivery of it.                                          *)
(***************************************************************************)
EXTENDS InboundProofs

----------------------------------------------------------------------------
(* The inductive invariant. *)

(* The daemon keeps pace with what it hears: an event this recent is not   *)
(* older than the overlap behind any cursor.                               *)
Fresh(e) == created[e] >= clock - lag - Tolerance

(* What NoGap is about: regular events of relay k the store never got.     *)
Lost(k, e) ==
  /\ e \in at[k] \cap Regular /\ e \notin held \cup pruned \cup rejected \cup failed
  /\ Sharing(k, e) <= PageLimit

(* Lost and not fresh: what a commit has to have left behind it.           *)
Stale(k, e) == Lost(k, e) /\ ~Fresh(e)

(* Not older than the first committed catch-up of relay k.                 *)
Anchored(k, e) == anchor[k] # -1 /\ created[e] >= anchor[k]

(* e is on its way in front of position i.                                 *)
Sent(k, e, i) == \E j \in 1 .. Len(chan) : j < i /\ chan[j] = Deliver(k, e)

(* Commits of the regular filter, and ends of relay k's session.           *)
IsCommit(k, it) == it.op = "commit" /\ it.relay = k /\ it.filter = "regular"

Ended(k, it) == it = Note("failed", k) \/ it = Note("gaveUp", k)

(* The relay counts as caught up when the consumer comes to position i.    *)
Known(k, i) ==
  \/ progress[k].caughtUp /\ \A j \in 1 .. Len(chan) : j < i => ~Ended(k, chan[j])
  \/ \E c \in 1 .. Len(chan) :
       /\ c < i /\ chan[c] = Note("caughtUp", k)
       /\ \A j \in 1 .. Len(chan) : c < j /\ j < i => ~Ended(k, chan[j])

(* A resume from f, or from the cursor, is from a fixed instant.           *)
Rooted(k, f) == f > 0 \/ Lookback = 0 \/ cursor[k] > 0

(* The cursor: nothing the anchor covers is lost further back than the     *)
(* overlap behind it.                                                      *)
CursorOf(k) ==
  /\ cursor[k] <= clock
  /\ anchor[k] = -1 \/ (anchor[k] \in Nat /\ Rooted(k, 0))
  /\ \A e \in Event : Lost(k, e) /\ Anchored(k, e) => created[e] >= cursor[k] - Overlap

(* A commit on its way comes behind all that is stale and anchored; it may *)
(* set the anchor only when nothing stale above its floor is left out.     *)
CommitOf(k, i) ==
  /\ \A e \in Event : Stale(k, e) /\ Anchored(k, e) => Sent(k, e, i)
  /\ \/ Known(k, i)
     \/ /\ Rooted(k, chan[i].floor)
        /\ \A e \in Event : Stale(k, e) /\ created[e] >= chan[i].floor => Sent(k, e, i)

Commits(k) == \A i \in 1 .. Len(chan) : IsCommit(k, chan[i]) => CommitOf(k, i)

(* A new generation of the regular filter begins before position i.        *)
Begun(k, i) == \E j \in 1 .. Len(chan) : j < i /\ chan[j] = Begin(k, "regular")

(* In a live generation the cursor follows each event: when one is         *)
(* observed, what is stale and anchored went before it.                    *)
Observed(k) ==
  gen[k].live =>
    \A i \in 1 .. Len(chan) : \A d \in Regular : chan[i] = Deliver(k, d) /\ ~Begun(k, i) =>
      \A e \in Event : Stale(k, e) /\ Anchored(k, e) => Sent(k, e, i)

(* e is on its way.                                                        *)
Reached(k, e) == Sent(k, e, Len(chan) + 1)

(* No commit of an earlier session speaks for what is sent from now on.    *)
Reopened(k) ==
  /\ gen[k].live => Begun(k, Len(chan) + 1)
  /\ \A i \in 1 .. Len(chan) : IsCommit(k, chan[i]) =>
       \E j \in 1 .. Len(chan) : i < j /\ chan[j] = Begin(k, "regular")

(* A paged catch-up: all that the anchor covers is in its window, and what *)
(* is above the next page is on its way.                                   *)
Window(k) ==
  LET w == worker[k] IN
  /\ Reopened(k) /\ Rooted(k, w.since)
  /\ \A e \in Event : Stale(k, e) /\ Anchored(k, e) => created[e] >= w.since
  /\ \A e \in Event : /\ Stale(k, e) /\ created[e] >= w.since
                      /\ w.pc = "widen" \/ (w.until # 0 /\ created[e] > w.until)
                      => Reached(k, e)

(* The worker: what it has left behind, at each of its stages, is on its   *)
(* way or too recent to be missed.                                         *)
Follows(k) ==
  LET w == worker[k] IN
  /\ CatchingUp(k) => w.filter \in active[k] /\ w.start <= clock - lag + Lag
  /\ w.pc # "stopped" => active[k] # {}
  /\ w.pc \in {"page", "widen"} /\ w.filter = "regular" => Window(k)
  /\ w.pc = "open" /\ "regular" \in active[k] =>
       /\ Known(k, Len(chan) + 1)
       /\ \A e \in Event : Stale(k, e) /\ Anchored(k, e) => Reached(k, e)
  /\ w.pc = "live" /\ "regular" \in active[k] =>
       \A e \in Event : Lost(k, e) /\ (Fresh(e) \/ Anchored(k, e)) => Reached(k, e)

GapOf(k) == CursorOf(k) /\ Commits(k) /\ Observed(k) /\ Follows(k)

GapInv == lag \in 0 .. Lag /\ \A k \in Relay : GapOf(k)

----------------------------------------------------------------------------
(* Arithmetic and types of what the invariant speaks of. *)

LEMMA Sizes ==
  ASSUME Typed, NEW k \in Relay, NEW e \in Event
  PROVE  /\ created[e] \in Nat /\ at[k] \subseteq Event /\ Sharing(k, e) \in Nat
         /\ cursor[k] \in Nat /\ clock \in Nat
<1>1. /\ created[e] \in Nat /\ at[k] \subseteq Event /\ cursor[k] \in Nat /\ clock \in Nat
  BY DEF Typed
<1> DEFINE S == {d \in at[k] : FilterOf(d) = FilterOf(e) /\ created[d] = created[e]}
<1>2. IsFiniteSet(S)
  BY <1>1, Constants, FS_Subset
<1>3. Cardinality(S) \in Nat
  BY <1>2, FS_CardinalityType
<1> QED BY <1>1, <1>3 DEF Sharing

(* What the store once had, or refused, stays so, and a second that is     *)
(* shared by too many stays so: the lost are among those lost before.      *)
LEMMA LostBefore ==
  ASSUME Typed, Typed', NEW k \in Relay, NEW e \in Event, Lost(k, e)', e \in at[k],
         at[k] \subseteq at'[k], \A d \in at[k] : created'[d] = created[d],
         held \cup pruned \cup rejected \cup failed
           \subseteq held' \cup pruned' \cup rejected' \cup failed'
  PROVE  Lost(k, e) /\ created'[e] = created[e]
<1> DEFINE S == {d \in at[k] : FilterOf(d) = FilterOf(e) /\ created[d] = created[e]}
           T == {d \in at'[k] : FilterOf(d) = FilterOf(e) /\ created'[d] = created'[e]}
<1>1. at'[k] \subseteq Event
  BY DEF Typed
<1>2. S \subseteq T
  OBVIOUS
<1>3. IsFiniteSet(T)
  BY <1>1, Constants, FS_Subset
<1>4. Cardinality(S) <= Cardinality(T)
  BY <1>2, <1>3, FS_Subset
<1>5. Sharing(k, e) = Cardinality(S) /\ Sharing(k, e)' = Cardinality(T)
  BY DEF Sharing
<1>6. Cardinality(S) \in Nat /\ Cardinality(T) \in Nat
  BY <1>2, <1>3, FS_Subset, FS_CardinalityType
<1>7. Sharing(k, e)' <= PageLimit /\ e \in Regular
       /\ e \notin held' \cup pruned' \cup rejected' \cup failed'
  BY DEF Lost
<1>8. Sharing(k, e) <= PageLimit
  <2> HIDE DEF S, T
  <2> QED BY <1>4, <1>5, <1>6, <1>7, Constants
<1> QED BY <1>7, <1>8 DEF Lost

LEMMA LostSame ==
  ASSUME Typed, UNCHANGED <<created, at>>, NEW k \in Relay, NEW e \in Event, Lost(k, e)',
         held \cup pruned \cup rejected \cup failed
           \subseteq held' \cup pruned' \cup rejected' \cup failed'
  PROVE  Lost(k, e)
<1>1. Sharing(k, e)' = Sharing(k, e)
  BY DEF Sharing
<1> QED BY <1>1 DEF Lost

----------------------------------------------------------------------------
(* What is sent. *)

(* Item c of the items now sent comes behind a delivery of e.              *)
Carries(items, k, e, c) == \E j \in 1 .. Len(items) : j < c /\ items[j] = Deliver(k, e)

LEMMA SentOn ==
  ASSUME chan \in Seq(Items), NEW items \in Seq(Items), Send(items), NEW k
  PROVE  /\ \A e, i : Sent(k, e, i) => Sent(k, e, i)'
         /\ \A e : \A i \in Nat : i > Len(chan) /\ Reached(k, e) => Sent(k, e, i)'
         /\ \A e : \A i \in Nat : i > Len(chan) /\ Carries(items, k, e, i - Len(chan))
              => Sent(k, e, i)'
         /\ \A e : Reached(k, e) => Reached(k, e)'
         /\ \A e : Carries(items, k, e, Len(items) + 1) => Reached(k, e)'
<1>1. /\ chan' \in Seq(Items) /\ Len(chan') = Len(chan) + Len(items)
      /\ Len(chan) \in Nat /\ Len(items) \in Nat
      /\ \A i \in 1 .. Len(chan) : chan'[i] = chan[i]
      /\ \A i \in 1 .. Len(items) : chan'[Len(chan) + i] = items[i]
  BY Appended
<1>2. \A j \in 1 .. Len(chan) : j \in 1 .. Len(chan')
  BY <1>1
<1>3. \A j \in 1 .. Len(items) : Len(chan) + j \in 1 .. Len(chan')
  BY <1>1
<1>4. ASSUME NEW e, NEW i, Sent(k, e, i) PROVE Sent(k, e, i)'
  BY <1>1, <1>2, <1>4 DEF Sent
<1>5. ASSUME NEW e, NEW i \in Nat, i > Len(chan), Reached(k, e) PROVE Sent(k, e, i)'
  <2>1. PICK j \in 1 .. Len(chan) : chan[j] = Deliver(k, e)
    BY <1>5 DEF Reached, Sent
  <2>2. j < i /\ chan'[j] = Deliver(k, e)
    BY <1>1, <1>5, <2>1
  <2> QED BY <1>2, <2>2 DEF Sent
<1>6. ASSUME NEW e, NEW i \in Nat, i > Len(chan), Carries(items, k, e, i - Len(chan))
      PROVE  Sent(k, e, i)'
  <2>1. PICK j \in 1 .. Len(items) : j < i - Len(chan) /\ items[j] = Deliver(k, e)
    BY <1>6 DEF Carries
  <2>2. Len(chan) + j < i /\ chan'[Len(chan) + j] = Deliver(k, e)
    BY <1>1, <2>1
  <2> QED BY <1>3, <2>1, <2>2 DEF Sent
<1>n. PICK n : n = Len(chan) + Len(items) + 1
  OBVIOUS
<1>7. n \in Nat /\ n > Len(chan) /\ n - Len(chan) = Len(items) + 1
  BY <1>1, <1>n
<1>8. \A e : Reached(k, e)' <=> Sent(k, e, n)'
  BY <1>1, <1>n DEF Reached
<1> QED BY <1>4, <1>5, <1>6, <1>7, <1>8

LEMMA KnownOn ==
  ASSUME chan \in Seq(Items), NEW items \in Seq(Items), Send(items), NEW k,
         NEW n, n = Len(chan), progress'[k].caughtUp = progress[k].caughtUp
  PROVE  /\ \A i \in 1 .. Len(chan) : Known(k, i) => Known(k, i)'
         /\ \A c \in 1 .. Len(items) + 1 :
              /\ Known(k, Len(chan) + 1)
              /\ \A j \in 1 .. Len(items) : j < c => ~Ended(k, items[j])
              => Known(k, n + c)'
<1>1. /\ chan' \in Seq(Items) /\ Len(chan') = Len(chan) + Len(items)
      /\ Len(chan) \in Nat /\ Len(items) \in Nat
      /\ \A i \in 1 .. Len(chan) : chan'[i] = chan[i]
      /\ \A i \in 1 .. Len(chan') : i \notin 1 .. Len(chan)
           => i - Len(chan) \in 1 .. Len(items) /\ chan'[i] = items[i - Len(chan)]
  BY Appended
<1>2. \A j \in 1 .. Len(chan) : j \in 1 .. Len(chan')
  BY <1>1
<1>3. \A i \in 1 .. Len(chan) : \A j \in 1 .. Len(chan') : j < i => j \in 1 .. Len(chan)
  BY <1>1
<1>4. ASSUME NEW i \in 1 .. Len(chan), Known(k, i) PROVE Known(k, i)'
  <2>1. CASE progress[k].caughtUp /\ \A j \in 1 .. Len(chan) : j < i => ~Ended(k, chan[j])
    <3>1. \A j \in 1 .. Len(chan') : j < i => ~Ended(k, chan'[j])
      BY <1>1, <1>3, <2>1
    <3> QED BY <2>1, <3>1 DEF Known, Ended
  <2>2. ASSUME NEW c \in 1 .. Len(chan), c < i, chan[c] = Note("caughtUp", k),
               \A j \in 1 .. Len(chan) : c < j /\ j < i => ~Ended(k, chan[j])
        PROVE  Known(k, i)'
    <3>1. \A j \in 1 .. Len(chan') : c < j /\ j < i => ~Ended(k, chan'[j])
      BY <1>1, <1>3, <2>2
    <3>2. c \in 1 .. Len(chan') /\ chan'[c] = Note("caughtUp", k)
      BY <1>1, <1>2, <2>2
    <3> QED BY <2>2, <3>1, <3>2 DEF Known, Ended
  <2> QED BY <1>4, <2>1, <2>2 DEF Known
<1>5. ASSUME NEW c \in 1 .. Len(items) + 1, Known(k, Len(chan) + 1),
             \A j \in 1 .. Len(items) : j < c => ~Ended(k, items[j])
      PROVE  Known(k, n + c)'
  <2> DEFINE i == n + c
  <2>1. i \in Nat /\ i > Len(chan)
    BY <1>1
  <2>2. \A j \in 1 .. Len(chan') : j < i /\ j \notin 1 .. Len(chan) => ~Ended(k, chan'[j])
    <3> TAKE j \in 1 .. Len(chan')
    <3> HAVE j < i /\ j \notin 1 .. Len(chan)
    <3>1. j - Len(chan) \in 1 .. Len(items) /\ chan'[j] = items[j - Len(chan)]
      BY <1>1
    <3>2. j - Len(chan) < c
      BY <1>1
    <3> QED BY <1>5, <3>1, <3>2
  <2>3. CASE progress[k].caughtUp /\ \A j \in 1 .. Len(chan) : j < Len(chan) + 1 => ~Ended(k, chan[j])
    <3>1. \A j \in 1 .. Len(chan') : j < i => ~Ended(k, chan'[j])
      BY <1>1, <2>2, <2>3
    <3> HIDE DEF i
    <3>2. Known(k, i)'
      BY <2>3, <3>1 DEF Known, Ended
    <3> QED BY <3>2 DEF i
  <2>4. ASSUME NEW x \in 1 .. Len(chan), chan[x] = Note("caughtUp", k),
               \A j \in 1 .. Len(chan) : x < j /\ j < Len(chan) + 1 => ~Ended(k, chan[j])
        PROVE  Known(k, n + c)'
    <3>1. \A j \in 1 .. Len(chan') : x < j /\ j < i => ~Ended(k, chan'[j])
      BY <1>1, <2>2, <2>4
    <3>2. x \in 1 .. Len(chan') /\ chan'[x] = Note("caughtUp", k) /\ x < i
      BY <1>1, <1>2, <2>4
    <3> HIDE DEF i
    <3>3. Known(k, i)'
      BY <3>1, <3>2 DEF Known, Ended
    <3> QED BY <3>3 DEF i
  <2> QED BY <1>5, <2>3, <2>4 DEF Known
<1> QED BY <1>4, <1>5

(* The state of relay k's cursor does not change, and nothing goes stale.  *)
Steady(k) ==
  /\ cursor'[k] = cursor[k] /\ anchor'[k] = anchor[k] /\ gen'[k] = gen[k]
  /\ progress'[k].caughtUp = progress[k].caughtUp
  /\ \A e \in Event : Stale(k, e)' => Stale(k, e) /\ created'[e] = created[e]

(* Commits among the items now sent come behind what they speak for.       *)
Behind(items, k, e, c) == Reached(k, e) \/ Carries(items, k, e, c)

SoundCommit(k, items, c) ==
  /\ \A e \in Event : Stale(k, e) /\ Anchored(k, e) => Behind(items, k, e, c)
  /\ \/ /\ Known(k, Len(chan) + 1)
        /\ \A j \in 1 .. Len(items) : j < c => ~Ended(k, items[j])
     \/ /\ Rooted(k, items[c].floor)
        /\ \A e \in Event : Stale(k, e) /\ created[e] >= items[c].floor => Behind(items, k, e, c)

SoundCommits(k, items) ==
  \A c \in 1 .. Len(items) : IsCommit(k, items[c]) => SoundCommit(k, items, c)

(* Regular events among them come in a generation that is not live.        *)
SoundEvents(k, items) ==
  gen[k].live =>
    \A c \in 1 .. Len(items) : \A d \in Regular : items[c] = Deliver(k, d) =>
      \/ Begun(k, Len(chan) + 1)
      \/ \E j \in 1 .. Len(items) : j < c /\ items[j] = Begin(k, "regular")
      \/ \A e \in Event : Stale(k, e) /\ Anchored(k, e) => Reached(k, e)

LEMMA BegunOn ==
  ASSUME chan \in Seq(Items), NEW items \in Seq(Items), Send(items), NEW k
  PROVE  /\ \A i : Begun(k, i) => Begun(k, i)'
         /\ \A i \in Nat : i > Len(chan) /\ Begun(k, Len(chan) + 1) => Begun(k, i)'
         /\ \A i \in Nat : \A j \in 1 .. Len(items) :
              Len(chan) + j < i /\ items[j] = Begin(k, "regular") => Begun(k, i)'
<1>1. /\ chan' \in Seq(Items) /\ Len(chan') = Len(chan) + Len(items)
      /\ Len(chan) \in Nat /\ Len(items) \in Nat
      /\ \A i \in 1 .. Len(chan) : chan'[i] = chan[i]
      /\ \A i \in 1 .. Len(items) : chan'[Len(chan) + i] = items[i]
  BY Appended
<1>2. \A j \in 1 .. Len(chan) : j \in 1 .. Len(chan')
  BY <1>1
<1>3. \A j \in 1 .. Len(items) : Len(chan) + j \in 1 .. Len(chan')
  BY <1>1
<1>4. ASSUME NEW i, Begun(k, i) PROVE Begun(k, i)'
  BY <1>1, <1>2, <1>4 DEF Begun, Begin
<1>5. ASSUME NEW i \in Nat, i > Len(chan), Begun(k, Len(chan) + 1) PROVE Begun(k, i)'
  <2>1. PICK j \in 1 .. Len(chan) : chan[j] = Begin(k, "regular")
    BY <1>5 DEF Begun
  <2>2. j < i /\ chan'[j] = Begin(k, "regular") /\ j \in 1 .. Len(chan')
    BY <1>1, <1>2, <1>5, <2>1
  <2> QED BY <2>2 DEF Begun, Begin
<1>6. ASSUME NEW i \in Nat, NEW j \in 1 .. Len(items), Len(chan) + j < i,
             items[j] = Begin(k, "regular")
      PROVE  Begun(k, i)'
  <2>1. chan'[Len(chan) + j] = Begin(k, "regular") /\ Len(chan) + j \in 1 .. Len(chan')
    BY <1>1, <1>3, <1>6
  <2> QED BY <1>6, <2>1 DEF Begun, Begin
<1> QED BY <1>4, <1>5, <1>6

LEMMA CommitsOn ==
  ASSUME Typed, NEW k \in Relay, NEW items \in Seq(Items), Send(items), Steady(k),
         Commits(k), SoundCommits(k, items)
  PROVE  Commits(k)'
<1>0. chan \in Seq(Items)
  BY DEF Typed
<1>1. /\ chan' \in Seq(Items) /\ Len(chan') = Len(chan) + Len(items)
      /\ Len(chan) \in Nat /\ Len(items) \in Nat
      /\ \A i \in 1 .. Len(chan) : chan'[i] = chan[i]
      /\ \A i \in 1 .. Len(chan') : i \notin 1 .. Len(chan)
           => i - Len(chan) \in 1 .. Len(items) /\ chan'[i] = items[i - Len(chan)]
  BY <1>0, Appended
<1>2. /\ \A e \in Event : Stale(k, e)' => Stale(k, e) /\ created'[e] = created[e]
      /\ \A e \in Event : Stale(k, e)' /\ Anchored(k, e)' => Stale(k, e) /\ Anchored(k, e)
      /\ \A f : Rooted(k, f) => Rooted(k, f)'
      /\ progress'[k].caughtUp = progress[k].caughtUp
  BY DEF Steady, Anchored, Rooted
<1>3. SUFFICES ASSUME NEW i \in 1 .. Len(chan'), IsCommit(k, chan'[i])
               PROVE  CommitOf(k, i)'
  BY DEF Commits, IsCommit
<1>4. CASE i \in 1 .. Len(chan)
  <2>1. chan'[i] = chan[i] /\ CommitOf(k, i)
    BY <1>1, <1>3, <1>4 DEF Commits
  <2>2. \A e : Sent(k, e, i) => Sent(k, e, i)'
    BY <1>0, SentOn
  <2>3. Known(k, i) => Known(k, i)'
    BY <1>0, <1>2, <1>4, KnownOn
  <2>4. /\ \A e \in Event : Stale(k, e) /\ Anchored(k, e) => Sent(k, e, i)
        /\ \/ Known(k, i)
           \/ /\ Rooted(k, chan[i].floor)
              /\ \A e \in Event : Stale(k, e) /\ created[e] >= chan[i].floor => Sent(k, e, i)
    BY <2>1 DEF CommitOf
  <2>5. \A e \in Event : Stale(k, e)' /\ Anchored(k, e)' => Sent(k, e, i)'
    BY <1>2, <2>2, <2>4
  <2>6. \/ Known(k, i)'
        \/ /\ Rooted(k, chan[i].floor)
           /\ \A e \in Event : Stale(k, e)' /\ created'[e] >= chan[i].floor => Sent(k, e, i)'
    BY <1>2, <2>2, <2>3, <2>4
  <2>7. PICK fl : fl = chan[i].floor
    OBVIOUS
  <2>8. Rooted(k, chan[i].floor) => Rooted(k, fl)'
    BY <1>2, <2>7
  <2>9. chan'[i].floor = fl
    BY <2>1, <2>7
  <2> QED BY <2>5, <2>6, <2>7, <2>8, <2>9 DEF CommitOf, Rooted
<1>5. CASE i \notin 1 .. Len(chan)
  <2>n. PICK n : n = Len(chan)
    OBVIOUS
  <2>c. PICK c : c = i - n
    OBVIOUS
  <2>1. c \in 1 .. Len(items) /\ chan'[i] = items[c] /\ i = n + c /\ i > Len(chan) /\ i \in Nat
    BY <1>1, <1>5, <2>n, <2>c
  <2>2. SoundCommit(k, items, c)
    BY <1>3, <2>1 DEF SoundCommits
  <2>3. \A e : Behind(items, k, e, c) => Sent(k, e, i)'
    <3>1. \A e : Reached(k, e) => Sent(k, e, i)'
      BY <1>0, <2>1, SentOn
    <3>2. c = i - Len(chan)
      BY <2>n, <2>c
    <3>3. \A e : Carries(items, k, e, c) => Sent(k, e, i)'
      BY <1>0, <2>1, <3>2, SentOn
    <3> QED BY <3>1, <3>3 DEF Behind
  <2>4. /\ Known(k, Len(chan) + 1)
        /\ \A j \in 1 .. Len(items) : j < c => ~Ended(k, items[j])
        => Known(k, i)'
    <3>1. c \in 1 .. Len(items) + 1
      BY <1>1, <2>1
    <3> QED BY <1>0, <1>2, <2>1, <2>n, <3>1, KnownOn
  <2>5. \A e \in Event : Stale(k, e)' /\ Anchored(k, e)' => Sent(k, e, i)'
    BY <1>2, <2>2, <2>3 DEF SoundCommit
  <2>6. \/ Known(k, i)'
        \/ /\ Rooted(k, items[c].floor)
           /\ \A e \in Event : Stale(k, e)' /\ created'[e] >= items[c].floor => Sent(k, e, i)'
    BY <1>2, <2>2, <2>3, <2>4 DEF SoundCommit
  <2>7. PICK fl : fl = items[c].floor
    OBVIOUS
  <2>8. Rooted(k, fl) => Rooted(k, fl)'
    BY <1>2
  <2>9. chan'[i].floor = fl
    BY <2>1, <2>7
  <2> QED BY <2>5, <2>6, <2>7, <2>8, <2>9 DEF CommitOf, Rooted
<1> QED BY <1>4, <1>5

LEMMA ObservedOn ==
  ASSUME Typed, NEW k \in Relay, NEW items \in Seq(Items), Send(items), Steady(k),
         Observed(k), SoundEvents(k, items)
  PROVE  Observed(k)'
<1>0. chan \in Seq(Items)
  BY DEF Typed
<1>1. /\ chan' \in Seq(Items) /\ Len(chan') = Len(chan) + Len(items)
      /\ Len(chan) \in Nat /\ Len(items) \in Nat
      /\ \A i \in 1 .. Len(chan) : chan'[i] = chan[i]
      /\ \A i \in 1 .. Len(chan') : i \notin 1 .. Len(chan)
           => i - Len(chan) \in 1 .. Len(items) /\ chan'[i] = items[i - Len(chan)]
  BY <1>0, Appended
<1>2. SUFFICES ASSUME gen'[k].live, NEW i \in 1 .. Len(chan'), NEW d \in Regular,
                      chan'[i] = Deliver(k, d), ~Begun(k, i)',
                      NEW e \in Event, Stale(k, e)', Anchored(k, e)'
               PROVE  Sent(k, e, i)'
  BY DEF Observed, Deliver
<1>3. gen[k].live /\ Stale(k, e) /\ Anchored(k, e)
  BY <1>2 DEF Steady, Anchored
<1>4. CASE i \in 1 .. Len(chan)
  <2>1. chan[i] = Deliver(k, d)
    BY <1>1, <1>2, <1>4
  <2>2. ~Begun(k, i)
    BY <1>0, <1>2, BegunOn
  <2>3. Sent(k, e, i)
    BY <1>3, <1>4, <2>1, <2>2 DEF Observed
  <2> QED BY <1>0, <2>3, SentOn
<1>5. CASE i \notin 1 .. Len(chan)
  <2>c. PICK c : c = i - Len(chan)
    OBVIOUS
  <2>1. /\ c \in 1 .. Len(items) /\ items[c] = Deliver(k, d)
        /\ i = Len(chan) + c /\ i > Len(chan) /\ i \in Nat
    BY <1>1, <1>2, <1>5, <2>c
  <2>2. ~Begun(k, Len(chan) + 1)
    BY <1>0, <1>2, <2>1, BegunOn
  <2>3. ~ \E j \in 1 .. Len(items) : j < c /\ items[j] = Begin(k, "regular")
    <3> SUFFICES ASSUME NEW j \in 1 .. Len(items), j < c, items[j] = Begin(k, "regular")
                 PROVE  FALSE
      OBVIOUS
    <3>1. Len(chan) + j < i
      BY <1>1, <2>1
    <3> QED BY <1>0, <1>2, <2>1, <3>1, BegunOn
  <2>4. Reached(k, e)
    BY <1>3, <2>1, <2>2, <2>3 DEF SoundEvents
  <2> QED BY <1>0, <2>1, <2>4, SentOn
<1> QED BY <1>4, <1>5

(* A relay keeps a window reopened while no regular commit is sent.        *)
LEMMA ReopenedOn ==
  ASSUME Typed, NEW k \in Relay, NEW items \in Seq(Items), Send(items), gen'[k] = gen[k],
         \/ /\ Reopened(k)
            /\ \A c \in 1 .. Len(items) : ~IsCommit(k, items[c])
         \/ \E b \in 1 .. Len(items) :
              /\ items[b] = Begin(k, "regular")
              /\ \A c \in 1 .. Len(items) : b < c => ~IsCommit(k, items[c])
  PROVE  Reopened(k)'
<1>0. chan \in Seq(Items)
  BY DEF Typed
<1>1. /\ chan' \in Seq(Items) /\ Len(chan') = Len(chan) + Len(items)
      /\ Len(chan) \in Nat /\ Len(items) \in Nat
      /\ \A i \in 1 .. Len(chan) : chan'[i] = chan[i]
      /\ \A i \in 1 .. Len(items) : chan'[Len(chan) + i] = items[i]
      /\ \A i \in 1 .. Len(chan') : i \notin 1 .. Len(chan)
           => i - Len(chan) \in 1 .. Len(items) /\ chan'[i] = items[i - Len(chan)]
  BY <1>0, Appended
<1>n. PICK n : n = Len(chan) + Len(items) + 1
  OBVIOUS
<1>2. n \in Nat /\ n > Len(chan) /\ n = Len(chan') + 1
  BY <1>1, <1>n
<1>3. Begun(k, n)' => Begun(k, Len(chan) + 1)'
  BY <1>2
<1>4. CASE /\ Reopened(k)
           /\ \A c \in 1 .. Len(items) : ~IsCommit(k, items[c])
  <2>1. gen'[k].live => Begun(k, Len(chan) + 1)'
    BY <1>0, <1>2, <1>3, <1>4, BegunOn DEF Reopened
  <2>2. ASSUME NEW i \in 1 .. Len(chan'), IsCommit(k, chan'[i])
        PROVE  \E j \in 1 .. Len(chan') : i < j /\ chan'[j] = Begin(k, "regular")
    <3>1. i \in 1 .. Len(chan) /\ IsCommit(k, chan[i])
      BY <1>1, <1>4, <2>2
    <3>2. PICK j \in 1 .. Len(chan) : i < j /\ chan[j] = Begin(k, "regular")
      BY <1>4, <3>1 DEF Reopened
    <3>3. j \in 1 .. Len(chan') /\ chan'[j] = Begin(k, "regular")
      BY <1>1, <3>2
    <3> QED BY <3>2, <3>3
  <2> QED BY <2>1, <2>2 DEF Reopened, IsCommit, Begin
<1>5. ASSUME NEW b \in 1 .. Len(items), items[b] = Begin(k, "regular"),
             \A c \in 1 .. Len(items) : b < c => ~IsCommit(k, items[c])
      PROVE  Reopened(k)'
  <2>p. PICK p : p = Len(chan) + b
    OBVIOUS
  <2>1. p \in 1 .. Len(chan') /\ chan'[p] = Begin(k, "regular") /\ p < n
    BY <1>1, <1>n, <1>5, <2>p
  <2>2. Begun(k, n)'
    BY <2>1 DEF Begun, Begin
  <2>3. ASSUME NEW i \in 1 .. Len(chan'), IsCommit(k, chan'[i])
        PROVE  i < p
    <3>1. CASE i \in 1 .. Len(chan)
      BY <1>1, <2>p, <3>1
    <3>2. CASE i \notin 1 .. Len(chan)
      <4>1. i - Len(chan) \in 1 .. Len(items) /\ chan'[i] = items[i - Len(chan)]
        BY <1>1, <3>2
      <4>2. ~(b < i - Len(chan))
        BY <1>5, <2>3, <4>1
      <4>3. items[b] # items[i - Len(chan)]
        BY <1>5, <2>3, <4>1 DEF IsCommit, Begin
      <4>4. b # i - Len(chan)
        BY <4>3
      <4> QED BY <1>1, <2>p, <4>1, <4>2, <4>4
    <3> QED BY <3>1, <3>2
  <2>4. \A i \in 1 .. Len(chan') : IsCommit(k, chan'[i]) =>
          \E j \in 1 .. Len(chan') : i < j /\ chan'[j] = Begin(k, "regular")
    BY <2>1, <2>3
  <2> QED BY <1>3, <2>2, <2>4 DEF Reopened, IsCommit, Begin
<1> QED BY <1>4, <1>5

----------------------------------------------------------------------------
(* Steps that leave relay k's worker alone. *)

AtEnd(k) == Known(k, Len(chan) + 1)

LEMMA FollowsOn ==
  ASSUME NEW k \in Relay, Follows(k), worker'[k] = worker[k], active'[k] = active[k],
         clock' - lag' = clock - lag,
         cursor[k] > 0 => cursor'[k] > 0,
         \A e \in Event : Stale(k, e)' => Stale(k, e) /\ created'[e] = created[e],
         \A e \in Event : Stale(k, e)' /\ Anchored(k, e)' => Anchored(k, e),
         \A e \in Event : Lost(k, e)' /\ (Fresh(e)' \/ Anchored(k, e)') =>
           \/ Lost(k, e) /\ (Fresh(e) \/ Anchored(k, e))
           \/ worker[k].pc = "live" /\ "regular" \in active[k] => Reached(k, e)',
         \A e \in Event : Lost(k, e)' /\ Reached(k, e) => Reached(k, e)',
         AtEnd(k) => AtEnd(k)',
         Reopened(k) => Reopened(k)'
  PROVE  Follows(k)'
<1>w. PICK w : w = worker[k]
  OBVIOUS
<1>1. worker'[k] = w /\ (CatchingUp(k)' <=> CatchingUp(k))
  BY <1>w DEF CatchingUp
<1>2. \A e \in Event : Stale(k, e)' => Lost(k, e)'
  BY DEF Stale
<1>3. CatchingUp(k)' => w.filter \in active'[k] /\ w.start <= clock' - lag' + Lag
  BY <1>w, <1>1 DEF Follows
<1>4. w.pc # "stopped" => active'[k] # {}
  BY <1>w DEF Follows
<1>5. ASSUME w.pc \in {"page", "widen"}, w.filter = "regular" PROVE Window(k)'
  <2>1. Window(k)
    BY <1>w, <1>5 DEF Follows
  <2>2. Reopened(k) /\ Rooted(k, w.since)
    BY <1>w, <2>1 DEF Window
  <2>3. Rooted(k, w.since)'
    BY <1>w, <2>2 DEF Rooted
  <2>4. \A e \in Event : Stale(k, e)' /\ Anchored(k, e)' => created'[e] >= w.since
    BY <1>w, <2>1 DEF Window
  <2>5. ASSUME NEW e \in Event, Stale(k, e)', created'[e] >= w.since,
               w.pc = "widen" \/ (w.until # 0 /\ created'[e] > w.until)
        PROVE  Reached(k, e)'
    <3>1. Stale(k, e) /\ created'[e] = created[e]
      BY <2>5
    <3>2. Reached(k, e)
      BY <1>w, <2>1, <2>5, <3>1 DEF Window
    <3> QED BY <1>2, <2>5, <3>2
  <2> QED BY <1>1, <2>2, <2>3, <2>4, <2>5 DEF Window, Rooted
<1>6. ASSUME w.pc = "open", "regular" \in active[k]
      PROVE  /\ AtEnd(k)'
             /\ \A e \in Event : Stale(k, e)' /\ Anchored(k, e)' => Reached(k, e)'
  <2>1. /\ AtEnd(k)
        /\ \A e \in Event : Stale(k, e) /\ Anchored(k, e) => Reached(k, e)
    BY <1>w, <1>6 DEF Follows, AtEnd
  <2> QED BY <1>2, <2>1
<1>7. ASSUME w.pc = "live", "regular" \in active[k],
             NEW e \in Event, Lost(k, e)', Fresh(e)' \/ Anchored(k, e)'
      PROVE  Reached(k, e)'
  <2>1. Lost(k, e) /\ (Fresh(e) \/ Anchored(k, e)) => Reached(k, e)
    BY <1>w, <1>7 DEF Follows
  <2> QED BY <1>w, <1>7, <2>1
<1> QED BY <1>1, <1>3, <1>4, <1>5, <1>6, <1>7 DEF Follows, AtEnd

(* The worker of another relay moves, or an event arrives: items that are  *)
(* not of relay k, or deliveries from its live REQ, are sent.              *)
LEMMA GapAside ==
  ASSUME Typed, Typed', NEW k \in Relay, GapOf(k), Steady(k),
         worker'[k] = worker[k], active'[k] = active[k], UNCHANGED <<clock, lag>>,
         NEW items \in Seq(Items), Send(items),
         \A i \in 1 .. Len(items) : items[i].relay # k \/ items[i].op = "event",
         SoundEvents(k, items),
         \A e \in Event : Lost(k, e)' =>
           \/ Lost(k, e) /\ created'[e] = created[e]
           \/ /\ created'[e] >= clock - Tolerance
              /\ worker[k].pc = "live" /\ "regular" \in active[k] => Reached(k, e)'
  PROVE  GapOf(k)'
<1>0. chan \in Seq(Items)
  BY DEF Typed
<1>1. /\ chan' \in Seq(Items) /\ Len(chan') = Len(chan) + Len(items)
      /\ Len(chan) \in Nat /\ Len(items) \in Nat
  BY <1>0, Appended
<1>2. \A c \in 1 .. Len(items) :
        /\ ~IsCommit(k, items[c]) /\ ~Ended(k, items[c])
        /\ items[c] # Begin(k, "regular")
  <2>1. /\ Note("failed", k).relay = k /\ Note("failed", k).op = "failed"
        /\ Note("gaveUp", k).relay = k /\ Note("gaveUp", k).op = "gaveUp"
        /\ Begin(k, "regular").relay = k /\ Begin(k, "regular").op = "begin"
    BY ItemRelays
  <2> QED BY <2>1 DEF IsCommit, Ended
<1>3. /\ cursor'[k] = cursor[k] /\ anchor'[k] = anchor[k] /\ gen'[k] = gen[k]
      /\ progress'[k].caughtUp = progress[k].caughtUp
      /\ \A e \in Event : Stale(k, e)' => Stale(k, e) /\ created'[e] = created[e]
  BY DEF Steady
<1>4. CursorOf(k)'
  <2>1. cursor[k] \in Nat /\ clock \in Nat /\ cursor[k] <= clock
    BY DEF Typed, GapOf, CursorOf
  <2>2. ASSUME NEW e \in Event, Lost(k, e)', Anchored(k, e)'
        PROVE  created'[e] >= cursor[k] - Overlap
    <3>1. CASE Lost(k, e) /\ created'[e] = created[e]
      BY <1>3, <2>2, <3>1 DEF GapOf, CursorOf, Anchored
    <3>2. CASE created'[e] >= clock - Tolerance
      <4>1. created'[e] \in Int
        BY DEF Typed
      <4> QED BY <2>1, <3>2, <4>1, Constants DEF Tolerance
    <3> QED BY <2>2, <3>1, <3>2
  <2> QED BY <1>3, <2>2 DEF GapOf, CursorOf, Rooted
<1>5. Commits(k)'
  BY <1>2, CommitsOn DEF GapOf, SoundCommits
<1>6. Observed(k)'
  BY ObservedOn DEF GapOf
<1>7. Follows(k)'
  <2>1. \A e : Reached(k, e) => Reached(k, e)'
    BY <1>0, SentOn
  <2>2. AtEnd(k) => AtEnd(k)'
    <3>n. PICK n : n = Len(chan)
      OBVIOUS
    <3>1. Len(items) + 1 \in 1 .. Len(items) + 1 /\ Len(chan') + 1 = n + (Len(items) + 1)
      BY <1>1, <3>n
    <3>2. AtEnd(k) => Known(k, n + (Len(items) + 1))'
      BY <1>0, <1>2, <1>3, <3>1, <3>n, KnownOn DEF AtEnd
    <3> QED BY <3>1, <3>2 DEF AtEnd
  <2>3. Reopened(k) => Reopened(k)'
    BY <1>2, <1>3, ReopenedOn
  <2>4. \A e \in Event : Stale(k, e)' /\ Anchored(k, e)' => Anchored(k, e)
    BY <1>3 DEF Anchored
  <2>5. \A e \in Event : Lost(k, e)' /\ (Fresh(e)' \/ Anchored(k, e)') =>
          \/ Lost(k, e) /\ (Fresh(e) \/ Anchored(k, e))
          \/ worker[k].pc = "live" /\ "regular" \in active[k] => Reached(k, e)'
    BY <1>3 DEF Fresh, Anchored
  <2>6. Follows(k) /\ clock' - lag' = clock - lag
    BY DEF GapOf
  <2> QED BY <1>3, <2>1, <2>2, <2>3, <2>4, <2>5, <2>6, FollowsOn
<1> QED BY <1>4, <1>5, <1>6, <1>7 DEF GapOf

----------------------------------------------------------------------------
(* Time, arrivals and restarts. *)

LEMMA TickGap ==
  ASSUME Typed, Tick, GapInv
  PROVE  GapInv'
<1>1. /\ clock' = clock + 1 /\ (Quiet \/ lag < Lag)
      /\ lag' = IF Quiet THEN 0 ELSE lag + 1
      /\ UNCHANGED <<created, at, held, cursor, worker, active, chan, gen, progress>>
      /\ UNCHANGED <<pruned, rejected, failed, anchor>>
  BY DEF Tick, workers, history
<1>2. lag \in Nat /\ lag <= Lag /\ clock \in Nat /\ Lag \in Nat
  BY Constants DEF GapInv, Typed
<1>3. lag' \in 0 .. Lag
  BY <1>1, <1>2
<1>4. ASSUME NEW k \in Relay PROVE GapOf(k)'
  <2>1. GapOf(k) /\ cursor[k] \in Nat
    BY DEF GapInv, Typed
  <2>2. \A e : /\ Lost(k, e)' <=> Lost(k, e)
               /\ Anchored(k, e)' <=> Anchored(k, e)
               /\ Reached(k, e)' <=> Reached(k, e)
    BY <1>1 DEF Lost, Sharing, Anchored, Reached, Sent
  <2>3. CursorOf(k)'
    <3>1. cursor[k] <= clock
      BY <2>1 DEF GapOf, CursorOf
    <3>2. cursor'[k] <= clock'
      BY <1>1, <1>2, <2>1, <3>1
    <3> QED BY <1>1, <2>1, <2>2, <3>2 DEF GapOf, CursorOf, Rooted
  <2>4. CASE ~Quiet
    <3>1. clock' - lag' = clock - lag
      BY <1>1, <1>2, <2>4
    <3>2. \A e : (Fresh(e)' <=> Fresh(e)) /\ (Stale(k, e)' <=> Stale(k, e))
      BY <1>1, <2>2, <3>1 DEF Fresh, Stale
    <3>3. Commits(k)' /\ Observed(k)'
      <4>1. \A e, i : Sent(k, e, i)' <=> Sent(k, e, i)
        BY <1>1 DEF Sent
      <4>2. \A i : (Known(k, i)' <=> Known(k, i)) /\ (Begun(k, i)' <=> Begun(k, i))
        BY <1>1 DEF Known, Begun
      <4>3. \A i : CommitOf(k, i) => CommitOf(k, i)'
        BY <1>1, <2>2, <3>2, <4>1, <4>2 DEF CommitOf, Rooted
      <4> QED BY <1>1, <2>1, <2>2, <3>2, <4>1, <4>2, <4>3 DEF GapOf, Commits, Observed
    <3>4. Follows(k)'
      <4>1. Follows(k)
        BY <2>1 DEF GapOf
      <4>2. (AtEnd(k) => AtEnd(k)') /\ (Reopened(k) => Reopened(k)')
        BY <1>1 DEF AtEnd, Known, Reopened, Begun
      <4> QED BY <1>1, <2>2, <3>1, <3>2, <4>1, <4>2, FollowsOn
    <3> QED BY <2>3, <3>3, <3>4 DEF GapOf
  <2>5. CASE Quiet
    <3>1. chan = << >> /\ chan' = << >> /\ Len(<< >>) = 0 /\ ~CatchingUp(k)
      BY <1>1, <2>5 DEF Quiet
    <3>2. \A i \in 1 .. Len(chan') : FALSE
      BY <3>1
    <3>3. Commits(k)' /\ Observed(k)'
      BY <3>2 DEF Commits, Observed
    <3>4. ~CatchingUp(k)' /\ worker'[k] = worker[k] /\ active'[k] = active[k]
      BY <1>1, <3>1 DEF CatchingUp
    <3>5. ASSUME worker[k].pc = "live", "regular" \in active[k], NEW e \in Event, Lost(k, e)',
                 Fresh(e)' \/ Anchored(k, e)'
          PROVE  Reached(k, e)'
      <4>1. created[e] \in Nat
        BY DEF Typed
      <4>2. Fresh(e)' => Fresh(e)
        BY <1>1, <1>2, <2>5, <4>1, Constants DEF Fresh, Tolerance
      <4> QED BY <2>1, <2>2, <3>5, <4>2 DEF GapOf, Follows
    <3>6. worker[k].pc # "stopped" => active[k] # {}
      BY <2>1 DEF GapOf, Follows
    <3>7. worker[k].pc \notin {"page", "widen", "open"}
      BY <3>1 DEF CatchingUp
    <3>8. Follows(k)'
      BY <3>4, <3>5, <3>6, <3>7 DEF Follows
    <3> QED BY <2>3, <3>3, <3>8 DEF GapOf
  <2> QED BY <2>4, <2>5
<1> QED BY <1>3, <1>4 DEF GapInv

LEMMA ArriveGap ==
  ASSUME Typed, Typed', GapInv, NEW j \in Relay, NEW e \in Event, Arrive(j, e)
  PROVE  GapInv'
<1> DEFINE t     == IF created[e] = 0 THEN clock + Offset[e] ELSE created[e]
           items == IF Following(j, FilterOf(e)) THEN <<Deliver(j, e)>> ELSE << >>
<1>1. /\ e \notin at[j] /\ t >= clock - Tolerance /\ created' = [created EXCEPT ![e] = t]
      /\ at' = [at EXCEPT ![j] = @ \cup {e}] /\ Send(items)
      /\ UNCHANGED <<clock, lag, held, cursor, worker, active, gen, progress>>
      /\ UNCHANGED <<pruned, rejected, failed, anchor>>
  BY DEF Arrive, workers, history
<1>2. Deliver(j, e) \in Items /\ Deliver(j, e).relay = j /\ Deliver(j, e).op = "event"
      /\ Deliver(j, e).ev = e
  BY ItemTypes, ItemRelays
<1>3. /\ items \in Seq(Items) /\ \A i \in 1 .. Len(items) : items[i] = Deliver(j, e) /\ i = 1
      /\ Following(j, FilterOf(e)) => Len(items) = 1 /\ items[1] = Deliver(j, e)
      /\ ~Following(j, FilterOf(e)) => Len(items) = 0
  <2>1. /\ <<Deliver(j, e)>> \in Seq(Items) /\ Len(<<Deliver(j, e)>>) = 1
        /\ <<Deliver(j, e)>>[1] = Deliver(j, e)
        /\ << >> \in Seq(Items) /\ Len(<< >>) = 0
    BY <1>2
  <2> HIDE DEF Deliver
  <2> QED BY <2>1
<1>4. created'[e] = t /\ \A d \in Event : d # e => created'[d] = created[d]
  BY <1>1 DEF Typed
<1>5. /\ at'[j] = at[j] \cup {e} /\ \A k \in Relay : k # j => at'[k] = at[k]
  BY <1>1 DEF Typed
<1>6. ASSUME NEW k \in Relay, NEW d \in at[k] PROVE created'[d] = created[d]
  <2>1. created[d] > 0 /\ d \in Event /\ created[d] \in Nat
    BY DEF Typed
  <2>2. CASE d = e
    BY <1>4, <2>1, <2>2 DEF t
  <2> QED BY <1>4, <2>1, <2>2
<1> HIDE DEF t
<1>7. PICK sent \in Seq(Items) :
        /\ Send(sent) /\ \A i \in 1 .. Len(sent) : sent[i] = Deliver(j, e) /\ i = 1
        /\ Following(j, FilterOf(e)) => Len(sent) = 1 /\ sent[1] = Deliver(j, e)
        /\ ~Following(j, FilterOf(e)) => Len(sent) = 0
  <2> HIDE DEF items
  <2> QED BY <1>1, <1>3
<1> HIDE DEF items
<1>8. ASSUME NEW k \in Relay PROVE GapOf(k)'
  <2>1. GapOf(k) /\ lag \in Nat /\ clock \in Nat
    BY Constants DEF GapInv, Typed
  <2>2. ASSUME NEW x \in Event, Lost(k, x)'
        PROVE  (Lost(k, x) /\ created'[x] = created[x]) \/ (x = e /\ k = j)
    <3>1. CASE x \in at[k]
      <4>1. at[k] \subseteq at'[k]
        BY <1>5
      <4> QED BY <1>1, <1>6, <2>2, <3>1, <4>1, LostBefore
    <3>2. CASE x \notin at[k]
      <4>1. x \in at'[k]
        BY <2>2 DEF Lost
      <4> QED BY <1>5, <3>2, <4>1
    <3> QED BY <3>1, <3>2
  <2>3. Fresh(e)' /\ created'[e] >= clock - Tolerance
    <3>1. created'[e] >= clock - Tolerance
      BY <1>1, <1>4
    <3>2. created'[e] \in Nat
      BY DEF Typed
    <3> QED BY <1>1, <2>1, <3>1, <3>2, Constants DEF Fresh, Tolerance
  <2>4. Steady(k)
    <3>1. ASSUME NEW x \in Event, Stale(k, x)' PROVE Stale(k, x) /\ created'[x] = created[x]
      <4>1. x # e \/ k # j
        BY <2>3, <3>1 DEF Stale
      <4>2. Lost(k, x) /\ created'[x] = created[x]
        BY <2>2, <3>1, <4>1 DEF Stale
      <4> QED BY <1>1, <3>1, <4>2 DEF Stale, Fresh
    <3> QED BY <1>1, <3>1 DEF Steady
  <2>5. k # j => \A i \in 1 .. Len(sent) : \A d : sent[i] # Deliver(k, d)
    <3>1. \A d : Deliver(k, d).relay = k
      BY ItemRelays
    <3> QED BY <1>2, <1>7, <3>1
  <2>6. SoundEvents(k, sent)
    <3> SUFFICES ASSUME NEW c \in 1 .. Len(sent), NEW d \in Regular, sent[c] = Deliver(k, d),
                        NEW x \in Event, Stale(k, x), Anchored(k, x)
                 PROVE  Reached(k, x)
      BY DEF SoundEvents
    <3>1. k = j
      BY <2>5
    <3>2. Deliver(k, d).ev = d
      BY ItemRelays
    <3>3. d = e
      BY <1>2, <1>7, <3>1, <3>2
    <3>4. Following(j, FilterOf(e))
      BY <1>7
    <3>5. worker[k].pc = "live" /\ "regular" \in active[k]
      BY <3>1, <3>3, <3>4 DEF Following, FilterOf
    <3> QED BY <2>1, <3>5 DEF GapOf, Follows, Stale
  <2>7. ASSUME worker[j].pc = "live", "regular" \in active[j], Lost(j, e)'
        PROVE  Reached(j, e)'
    <3>1. Following(j, FilterOf(e))
      BY <2>7 DEF Following, FilterOf, Lost
    <3>2. Carries(sent, j, e, Len(sent) + 1)
      <4>1. Len(sent) = 1 /\ sent[1] = Deliver(j, e)
        BY <1>7, <3>1
      <4>2. 1 \in 1 .. Len(sent) /\ 1 < Len(sent) + 1
        BY <4>1
      <4> QED BY <4>1, <4>2 DEF Carries
    <3> QED BY <1>7, <3>2, SentOn DEF Typed
  <2>8. \A i \in 1 .. Len(sent) : sent[i].relay # k \/ sent[i].op = "event"
    BY <1>2, <1>7
  <2>9. \A x \in Event : Lost(k, x)' =>
           \/ Lost(k, x) /\ created'[x] = created[x]
           \/ /\ created'[x] >= clock - Tolerance
              /\ worker[k].pc = "live" /\ "regular" \in active[k] => Reached(k, x)'
    BY <2>2, <2>3, <2>7
  <2>10. worker'[k] = worker[k] /\ active'[k] = active[k] /\ UNCHANGED <<clock, lag>>
    BY <1>1
  <2> QED BY <1>7, <2>1, <2>4, <2>6, <2>8, <2>9, <2>10, GapAside
<1> QED BY <1>1, <1>8 DEF GapInv

LEMMA CrashGap ==
  ASSUME Typed, Crash, GapInv
  PROVE  GapInv'
<1>1. /\ UNCHANGED <<clock, lag, created, at, cursor, rejected, failed, anchor>>
      /\ chan' = << >> /\ worker' = [k \in Relay |-> NoWorker]
      /\ active' = [k \in Relay |-> Filter]
  BY DEF Crash, relays
<1>2. held \cup pruned \subseteq held' \cup pruned'
  <2>1. PICK stored \in SUBSET Storing : Prune(held \cup stored)
    BY DEF Crash
  <2> QED BY <2>1, PruneGate
<1>3. ASSUME NEW k \in Relay PROVE GapOf(k)'
  <2>1. CursorOf(k)
    BY DEF GapInv, GapOf
  <2>2. \A e \in Event : Lost(k, e)' => Lost(k, e)
    BY <1>1, <1>2, LostSame
  <2>3. CursorOf(k)'
    BY <1>1, <2>1, <2>2 DEF CursorOf, Anchored, Rooted
  <2>4. worker'[k].pc = "down" /\ active'[k] # {}
    BY <1>1, FilterIs DEF NoWorker
  <2>5. \A i \in 1 .. Len(chan') : FALSE
    BY <1>1
  <2>6. Commits(k)' /\ Observed(k)'
    BY <2>5 DEF Commits, Observed
  <2>7. Follows(k)'
    BY <2>4 DEF Follows, CatchingUp
  <2> QED BY <2>3, <2>6, <2>7 DEF GapOf
<1> QED BY <1>1, <1>3 DEF GapInv

LEMMA RestartGap ==
  ASSUME Typed, Typed', Restart, GapInv
  PROVE  GapInv'
<1>1. /\ UNCHANGED <<clock, lag, created, at, cursor, rejected, failed, anchor>>
      /\ UNCHANGED <<chan, worker, active, gen, progress>>
      /\ chan = << >> /\ \A k \in Relay : worker[k] = NoWorker
  BY DEF Restart, relays, workers
<1>2. held \cup pruned \subseteq held' \cup pruned'
  BY PruneGate DEF Restart
<1>3. ASSUME NEW k \in Relay PROVE GapOf(k)'
  <2>1. CursorOf(k) /\ Follows(k)
    BY DEF GapInv, GapOf
  <2>2. \A e \in Event : Lost(k, e)' => Lost(k, e)
    BY <1>1, <1>2, LostSame
  <2>3. CursorOf(k)'
    BY <1>1, <2>1, <2>2 DEF CursorOf, Anchored, Rooted
  <2>4. worker'[k].pc = "down" /\ active'[k] # {}
    BY <1>1, <2>1 DEF NoWorker, Follows
  <2>5. \A i \in 1 .. Len(chan') : FALSE
    BY <1>1
  <2>6. Commits(k)' /\ Observed(k)'
    BY <2>5 DEF Commits, Observed
  <2>7. Follows(k)'
    BY <2>4 DEF Follows, CatchingUp
  <2> QED BY <2>3, <2>6, <2>7 DEF GapOf
<1> QED BY <1>1, <1>3 DEF GapInv

LEMMA GapInit == Init => GapInv
<1> SUFFICES ASSUME Init PROVE GapInv
  OBVIOUS
<1>1. lag \in 0 .. Lag
  BY Constants DEF Init
<1>2. ASSUME NEW k \in Relay PROVE GapOf(k)
  <2>1. CursorOf(k)
    BY Constants DEF Init, CursorOf, Lost
  <2>2. \A i \in 1 .. Len(chan) : FALSE
    BY DEF Init
  <2>3. Commits(k) /\ Observed(k)
    BY <2>2 DEF Commits, Observed
  <2>4. worker[k].pc = "down" /\ active[k] # {}
    BY FilterIs DEF Init, NoWorker
  <2>5. Follows(k)
    BY <2>4 DEF Follows, CatchingUp
  <2> QED BY <2>1, <2>3, <2>5 DEF GapOf
<1> QED BY <1>1, <1>2 DEF GapInv

----------------------------------------------------------------------------
(* The consumer takes an item. *)

Taken == chan # << >> /\ chan' = Tail(chan) /\ UNCHANGED <<clock, lag, created, at, worker, active>>

LEMMA Shifted ==
  ASSUME Typed, Taken
  PROVE  /\ Len(chan') + 1 = Len(chan) /\ Len(chan') \in Nat /\ chan' \in Seq(Items)
         /\ \A i \in 1 .. Len(chan') : i + 1 \in 1 .. Len(chan) /\ chan'[i] = chan[i + 1]
         /\ \A j \in 1 .. Len(chan) : j # 1 =>
              j - 1 \in 1 .. Len(chan') /\ chan'[j - 1] = chan[j]
         /\ chan[1] \in Items /\ 1 \in 1 .. Len(chan)
<1>1. chan \in Seq(Items) /\ chan # << >> /\ chan' = Tail(chan)
  BY DEF Typed, Taken
<1>2. Len(chan') = Len(chan) - 1 /\ Len(chan) \in Nat /\ Len(chan) > 0 /\ chan' \in Seq(Items)
  BY <1>1
<1>3. \A i \in 1 .. Len(chan') : chan'[i] = chan[i + 1]
  BY <1>1, <1>2
<1>4. \A i \in 1 .. Len(chan') : i + 1 \in 1 .. Len(chan)
  BY <1>2
<1>5. ASSUME NEW j \in 1 .. Len(chan), j # 1
      PROVE  j - 1 \in 1 .. Len(chan') /\ chan'[j - 1] = chan[j]
  <2>1. j - 1 \in 1 .. Len(chan') /\ (j - 1) + 1 = j
    BY <1>2, <1>5
  <2> QED BY <1>3, <2>1
<1>6. 1 \in 1 .. Len(chan) /\ chan[1] \in Items
  BY <1>1, <1>2
<1> QED BY <1>2, <1>3, <1>4, <1>5, <1>6

LEMMA ShiftsSent ==
  ASSUME Typed, Taken, NEW k, NEW e, chan[1] # Deliver(k, e)
  PROVE  /\ \A i \in Nat : Sent(k, e, i + 1) => Sent(k, e, i)'
         /\ Reached(k, e) => Reached(k, e)'
<1>1. ASSUME NEW i \in Nat, Sent(k, e, i + 1) PROVE Sent(k, e, i)'
  <2>1. PICK j \in 1 .. Len(chan) : j < i + 1 /\ chan[j] = Deliver(k, e)
    BY <1>1 DEF Sent
  <2>2. j - 1 \in 1 .. Len(chan') /\ chan'[j - 1] = Deliver(k, e)
    BY <2>1, Shifted
  <2>3. j - 1 < i
    BY <2>1, Shifted
  <2> QED BY <2>2, <2>3 DEF Sent, Deliver
<1>n. PICK n : n = Len(chan') + 1
  OBVIOUS
<1>2. n \in Nat /\ n + 1 = Len(chan) + 1
  BY <1>n, Shifted
<1>3. Reached(k, e) => Sent(k, e, n)'
  BY <1>1, <1>2 DEF Reached
<1> QED BY <1>1, <1>3, <1>n DEF Reached

LEMMA ShiftsKnown ==
  ASSUME Typed, Taken, NEW k,
         progress[k].caughtUp /\ ~Ended(k, chan[1]) => progress'[k].caughtUp,
         chan[1] = Note("caughtUp", k) => progress'[k].caughtUp
  PROVE  /\ \A i \in Nat : i > 0 /\ Known(k, i + 1) => Known(k, i)'
         /\ AtEnd(k) => AtEnd(k)'
<1>1. ASSUME NEW i \in Nat, i > 0, Known(k, i + 1) PROVE Known(k, i)'
  <2>1. CASE progress[k].caughtUp /\ \A j \in 1 .. Len(chan) : j < i + 1 => ~Ended(k, chan[j])
    <3>1. 1 \in 1 .. Len(chan) /\ 1 < i + 1
      BY <1>1, Shifted
    <3>2. progress'[k].caughtUp
      BY <2>1, <3>1
    <3>3. \A j \in 1 .. Len(chan') : j < i => ~Ended(k, chan'[j])
      <4> TAKE j \in 1 .. Len(chan')
      <4> HAVE j < i
      <4>1. j + 1 \in 1 .. Len(chan) /\ chan'[j] = chan[j + 1]
        BY Shifted
      <4>2. j + 1 < i + 1
        BY Shifted
      <4> QED BY <2>1, <4>1, <4>2
    <3> QED BY <3>2, <3>3 DEF Known, Ended
  <2>2. ASSUME NEW c \in 1 .. Len(chan), c < i + 1, chan[c] = Note("caughtUp", k),
               \A j \in 1 .. Len(chan) : c < j /\ j < i + 1 => ~Ended(k, chan[j])
        PROVE  Known(k, i)'
    <3>1. \A j \in 1 .. Len(chan') : c < j + 1 /\ j < i => ~Ended(k, chan'[j])
      <4> TAKE j \in 1 .. Len(chan')
      <4> HAVE c < j + 1 /\ j < i
      <4>1. j + 1 \in 1 .. Len(chan) /\ chan'[j] = chan[j + 1]
        BY Shifted
      <4>2. j + 1 < i + 1
        BY Shifted
      <4> QED BY <2>2, <4>1, <4>2
    <3>2. CASE c = 1
      <4>1. progress'[k].caughtUp
        BY <2>2, <3>2
      <4>2. \A j \in 1 .. Len(chan') : c < j + 1
        BY <3>2, Shifted
      <4>3. \A j \in 1 .. Len(chan') : j < i => ~Ended(k, chan'[j])
        BY <3>1, <4>2
      <4> QED BY <4>1, <4>3 DEF Known, Ended
    <3>3. CASE c # 1
      <4>1. c - 1 \in 1 .. Len(chan') /\ chan'[c - 1] = Note("caughtUp", k)
        BY <2>2, <3>3, Shifted
      <4>2. c - 1 < i
        BY <2>2, Shifted
      <4>3. \A j \in 1 .. Len(chan') : c - 1 < j => c < j + 1
        BY Shifted
      <4>4. \A j \in 1 .. Len(chan') : c - 1 < j /\ j < i => ~Ended(k, chan'[j])
        BY <3>1, <4>3
      <4> QED BY <4>1, <4>2, <4>4 DEF Known, Ended
    <3> QED BY <3>2, <3>3
  <2> QED BY <1>1, <2>1, <2>2 DEF Known
<1>n. PICK n : n = Len(chan') + 1
  OBVIOUS
<1>2. n \in Nat /\ n > 0 /\ n + 1 = Len(chan) + 1
  BY <1>n, Shifted
<1>3. AtEnd(k) => Known(k, n)'
  BY <1>1, <1>2 DEF AtEnd
<1> QED BY <1>1, <1>3, <1>n DEF AtEnd

(* What relay k's invariant asks of an item taken.                         *)
Kept(k) ==
  /\ \A e \in Event : Lost(k, e)' => Lost(k, e) /\ chan[1] # Deliver(k, e)
  /\ \A e \in Event : Stale(k, e)' /\ Anchored(k, e)' => Anchored(k, e)
  /\ cursor[k] > 0 => cursor'[k] > 0
  /\ progress[k].caughtUp /\ ~Ended(k, chan[1]) => progress'[k].caughtUp
  /\ chan[1] = Note("caughtUp", k) => progress'[k].caughtUp
  /\ gen'[k].live =>
       \/ gen[k].live /\ chan[1] # Begin(k, "regular")
       \/ IsCommit(k, chan[1]) /\ \A e \in Event : ~(Stale(k, e)' /\ Anchored(k, e)')

LEMMA TakenCommits ==
  ASSUME Typed, Taken, NEW k \in Relay, Commits(k), Kept(k)
  PROVE  Commits(k)'
<1>1. SUFFICES ASSUME NEW i \in 1 .. Len(chan'), IsCommit(k, chan'[i])
               PROVE  CommitOf(k, i)'
  BY DEF Commits, IsCommit
<1>2. i + 1 \in 1 .. Len(chan) /\ chan'[i] = chan[i + 1] /\ i \in Nat /\ i > 0
  BY Shifted
<1>3. CommitOf(k, i + 1)
  BY <1>1, <1>2 DEF Commits
<1>4. \A e \in Event : Stale(k, e)' => Stale(k, e) /\ chan[1] # Deliver(k, e) /\ created'[e] = created[e]
  BY DEF Kept, Stale, Fresh, Taken
<1>5. \A e \in Event : Stale(k, e)' /\ Sent(k, e, i + 1) => Sent(k, e, i)'
  BY <1>2, <1>4, ShiftsSent
<1>6. Known(k, i + 1) => Known(k, i)'
  BY <1>2, ShiftsKnown DEF Kept
<1>7. PICK fl : fl = chan'[i].floor
  OBVIOUS
<1>8. Rooted(k, fl) => Rooted(k, fl)'
  BY DEF Kept, Rooted
<1>9. \A e \in Event : Stale(k, e)' /\ Anchored(k, e)' => Sent(k, e, i)'
  BY <1>3, <1>4, <1>5 DEF CommitOf, Kept
<1>10. \/ Known(k, i)'
       \/ /\ Rooted(k, fl)
          /\ \A e \in Event : Stale(k, e)' /\ created'[e] >= fl => Sent(k, e, i)'
  BY <1>2, <1>3, <1>4, <1>5, <1>6, <1>7 DEF CommitOf
<1> QED BY <1>7, <1>8, <1>9, <1>10 DEF CommitOf, Rooted

LEMMA TakenObserved ==
  ASSUME Typed, Taken, NEW k \in Relay, Observed(k), Kept(k)
  PROVE  Observed(k)'
<1>1. SUFFICES ASSUME gen'[k].live, NEW i \in 1 .. Len(chan'), NEW d \in Regular,
                      chan'[i] = Deliver(k, d), ~Begun(k, i)',
                      NEW e \in Event, Stale(k, e)', Anchored(k, e)'
               PROVE  Sent(k, e, i)'
  BY DEF Observed, Deliver
<1>2. i + 1 \in 1 .. Len(chan) /\ chan'[i] = chan[i + 1] /\ i \in Nat
  BY Shifted
<1>3. gen[k].live /\ chan[1] # Begin(k, "regular")
  BY <1>1 DEF Kept
<1>4. ~Begun(k, i + 1)
  <2> SUFFICES ASSUME NEW j \in 1 .. Len(chan), j < i + 1, chan[j] = Begin(k, "regular")
               PROVE  FALSE
    BY DEF Begun
  <2>1. j - 1 \in 1 .. Len(chan') /\ chan'[j - 1] = Begin(k, "regular")
    BY <1>3, Shifted
  <2>2. j - 1 < i
    BY <1>2, <2>1, Shifted
  <2> QED BY <1>1, <2>1, <2>2 DEF Begun, Begin
<1>5. Stale(k, e) /\ Anchored(k, e) /\ chan[1] # Deliver(k, e)
  BY <1>1 DEF Kept, Stale, Fresh, Taken
<1>6. Sent(k, e, i + 1)
  BY <1>1, <1>2, <1>3, <1>4, <1>5 DEF Observed
<1> QED BY <1>2, <1>5, <1>6, ShiftsSent

LEMMA TakenFollows ==
  ASSUME Typed, Taken, NEW k \in Relay, Follows(k), Kept(k)
  PROVE  Follows(k)'
<1>1. /\ worker'[k] = worker[k] /\ active'[k] = active[k] /\ clock' - lag' = clock - lag
      /\ \A e : Fresh(e)' <=> Fresh(e)
  BY DEF Taken, Fresh
<1>2. \A e \in Event : Lost(k, e)' => Lost(k, e) /\ chan[1] # Deliver(k, e)
  BY DEF Kept
<1>3. \A e \in Event : Stale(k, e)' => Stale(k, e) /\ created'[e] = created[e]
  BY <1>1, <1>2 DEF Stale, Taken
<1>4. \A e \in Event : Stale(k, e)' /\ Anchored(k, e)' => Anchored(k, e)
  BY DEF Kept
<1>5. \A e \in Event : Lost(k, e)' /\ (Fresh(e)' \/ Anchored(k, e)') =>
        Lost(k, e) /\ (Fresh(e) \/ Anchored(k, e))
  BY <1>1, <1>2, <1>4 DEF Stale
<1>6. \A e \in Event : Lost(k, e)' /\ Reached(k, e) => Reached(k, e)'
  BY <1>2, ShiftsSent
<1>7. AtEnd(k) => AtEnd(k)'
  BY ShiftsKnown DEF Kept
<1>8. ASSUME Reopened(k) PROVE Reopened(k)'
  <2>n. PICK n : n = Len(chan') + 1
    OBVIOUS
  <2>1. n \in Nat /\ n = Len(chan)
    BY <2>n, Shifted
  <2>2. ASSUME NEW j \in 1 .. Len(chan), j # 1, chan[j] = Begin(k, "regular")
        PROVE  Begun(k, n)'
    <3>1. j - 1 \in 1 .. Len(chan') /\ chan'[j - 1] = Begin(k, "regular")
      BY <2>2, Shifted
    <3>2. j - 1 < n
      BY <2>1, <3>1
    <3> QED BY <3>1, <3>2 DEF Begun, Begin
  <2>3. ASSUME gen'[k].live PROVE Begun(k, n)'
    <3>1. CASE gen[k].live /\ chan[1] # Begin(k, "regular")
      <4>1. PICK j \in 1 .. Len(chan) : chan[j] = Begin(k, "regular")
        BY <1>8, <3>1 DEF Reopened, Begun
      <4> QED BY <2>2, <3>1, <4>1
    <3>2. CASE IsCommit(k, chan[1])
      <4>1. PICK j \in 1 .. Len(chan) : 1 < j /\ chan[j] = Begin(k, "regular")
        BY <1>8, <3>2, Shifted DEF Reopened
      <4> QED BY <2>2, <4>1
    <3> QED BY <2>3, <3>1, <3>2 DEF Kept
  <2>4. ASSUME NEW i \in 1 .. Len(chan'), IsCommit(k, chan'[i])
        PROVE  \E j \in 1 .. Len(chan') : i < j /\ chan'[j] = Begin(k, "regular")
    <3>1. i + 1 \in 1 .. Len(chan) /\ IsCommit(k, chan[i + 1])
      BY <2>4, Shifted
    <3>2. PICK j \in 1 .. Len(chan) : i + 1 < j /\ chan[j] = Begin(k, "regular")
      BY <1>8, <3>1 DEF Reopened
    <3>3. j # 1 /\ i < j - 1
      BY <3>1, <3>2
    <3>4. j - 1 \in 1 .. Len(chan') /\ chan'[j - 1] = Begin(k, "regular")
      BY <3>2, <3>3, Shifted
    <3> QED BY <3>3, <3>4
  <2> QED BY <2>3, <2>4, <2>n DEF Reopened, IsCommit, Begin
<1>9. cursor[k] > 0 => cursor'[k] > 0
  BY DEF Kept
<1> QED BY <1>1, <1>3, <1>4, <1>5, <1>6, <1>7, <1>8, <1>9, FollowsOn

LEMMA CursorKept ==
  ASSUME NEW k \in Relay, CursorOf(k), UNCHANGED <<clock, created>>,
         cursor'[k] = cursor[k], anchor'[k] = anchor[k],
         \A e \in Event : Lost(k, e)' => Lost(k, e)
  PROVE  CursorOf(k)'
BY DEF CursorOf, Anchored, Rooted

(* The cursor moves to an instant of the past once nothing stale is left   *)
(* behind it.                                                              *)
LEMMA CursorMoved ==
  ASSUME Typed, NEW k \in Relay, CursorOf(k), lag \in 0 .. Lag, UNCHANGED <<clock, created>>,
         cursor'[k] \in Nat, cursor'[k] <= clock,
         anchor'[k] = -1 \/ (anchor'[k] \in Nat /\ Rooted(k, 0)'),
         \A e \in Event : Lost(k, e)' /\ Anchored(k, e)' => Fresh(e)
  PROVE  CursorOf(k)'
<1>1. ASSUME NEW e \in Event, Lost(k, e)', Anchored(k, e)'
      PROVE  created[e] >= cursor'[k] - Overlap
  <2>1. Fresh(e) /\ created[e] \in Nat /\ clock \in Nat
    BY <1>1 DEF Typed
  <2> QED BY <2>1, Constants DEF Fresh, Tolerance
<1> QED BY <1>1 DEF CursorOf, Rooted

LEMMA NoteGap ==
  ASSUME Typed, Taken, NEW k \in Relay, GapOf(k), Kept(k),
         cursor'[k] = cursor[k], anchor'[k] = anchor[k]
  PROVE  GapOf(k)'
<1>1. CursorOf(k)'
  BY CursorKept DEF GapOf, Kept, Taken
<1> QED BY <1>1, TakenCommits, TakenObserved, TakenFollows DEF GapOf

LEMMA ClampBound ==
  ASSUME Typed, NEW t \in Nat
  PROVE  ClampToClock(t) \in Nat /\ ClampToClock(t) <= clock /\ (t > 0 => ClampToClock(t) > 0)
<1>1. clock \in Nat /\ clock > 0
  BY Constants DEF Typed
<1>2. Min({t, clock}) = IF t <= clock THEN t ELSE clock
  BY <1>1, MinOfTwo
<1> QED BY <1>1, <1>2 DEF ClampToClock

(* A write of the cursor fails, or moves it to c, not back.                *)
Moves(r, c) == c \in Nat /\ c <= clock /\ c >= cursor[r] /\ cursor' = [cursor EXCEPT ![r] = c]

LEMMA AdvanceMoves ==
  ASSUME Typed, NEW r \in Relay, CursorOf(r), NEW to \in Nat, to <= clock, Advance(r, to)
  PROVE  \/ UNCHANGED cursor /\ Fault
         \/ UNCHANGED faults /\ \E c : Moves(r, c) /\ c >= to
<1>1. clock \in Nat /\ cursor[r] \in Nat /\ cursor[r] <= clock
  BY DEF Typed, CursorOf
<1>2. CASE cursor' = [cursor EXCEPT ![r] = Max({@, to})] /\ UNCHANGED faults
  <2>1. PICK c : c = Max({cursor[r], to})
    OBVIOUS
  <2>2. Max({cursor[r], to}) = IF cursor[r] >= to THEN cursor[r] ELSE to
    BY <1>1, MaxOfTwo
  <2>3. c \in Nat /\ c <= clock /\ c >= cursor[r] /\ c >= to
    BY <1>1, <2>1, <2>2
  <2>4. cursor' = [cursor EXCEPT ![r] = c]
    BY <1>2, <2>1
  <2> QED BY <1>2, <2>3, <2>4 DEF Moves
<1> QED BY <1>2 DEF Advance

LEMMA ObserveMoves ==
  ASSUME Typed, NEW r \in Relay, CursorOf(r), NEW e \in Event, Observe(r, e)
  PROVE  /\ \A k \in Relay : gen'[k].live = gen[k].live
         /\ cursor' = cursor \/ (e \in Regular /\ gen[r].live /\ \E c : Moves(r, c))
<1> DEFINE to == ClampToClock(created[e])
<1>1. to \in Nat /\ to <= clock
  BY ClampBound DEF Typed
<1>2. gen \in [Relay -> GenRecord]
  BY DEF Typed
<1>3. CASE UNCHANGED <<gen, cursor, faults>>
  BY <1>3
<1>4. CASE gen' = [gen EXCEPT ![r].newest = Max({@, to})] /\ UNCHANGED cursor
  <2>1. \A k \in Relay : gen'[k].live = gen[k].live
    <3>1. PICK m : m = Max({gen[r].newest, to})
      OBVIOUS
    <3>2. gen' = [gen EXCEPT ![r].newest = m]
      BY <1>4, <3>1
    <3> QED BY <1>2, <3>2 DEF GenRecord
  <2> QED BY <1>4, <2>1
<1>5. CASE e \in Regular /\ gen[r].live /\ UNCHANGED gen /\ Advance(r, to)
  <2> HIDE DEF to
  <2> QED BY <1>1, <1>5, AdvanceMoves
<1> QED BY <1>3, <1>4, <1>5 DEF Observe

(* An event is taken: the store has it now, or refused it, or failed it.   *)
LEMMA EventGap ==
  ASSUME Typed, lag \in 0 .. Lag, Receive("event"),
         UNCHANGED <<clock, lag, created, at, worker, active, anchor>>,
         held \cup pruned \cup rejected \cup failed
           \subseteq held' \cup pruned' \cup rejected' \cup failed',
         Item.ev \in held' \cup pruned' \cup rejected' \cup failed',
         \A j \in Relay : progress'[j].caughtUp = progress[j].caughtUp,
         \A j \in Relay : gen'[j].live = gen[j].live,
         cursor' = cursor \/ (Item.ev \in Regular /\ gen[Item.relay].live /\ \E c : Moves(Item.relay, c)),
         NEW k \in Relay, GapOf(k)
  PROVE  GapOf(k)'
<1>1. PICK r \in Relay : chan[1].relay = r
  BY TakesItem
<1>2. /\ Taken /\ Item = chan[1] /\ chan[1] \in Items /\ chan[1].op = "event"
  BY TakesItem DEF Taken
<1>3. PICK d \in Event : chan[1] = Deliver(r, d) /\ Item.ev = d
  BY <1>1, <1>2, ItemForms
<1>4. \A e : chan[1] = Deliver(k, e) => e = d
  <2>1. \A e : Deliver(k, e).ev = e
    BY ItemRelays
  <2>2. chan[1].ev = d
    BY <1>2, <1>3
  <2> QED BY <2>1, <2>2
<1>5. chan[1] # Note("caughtUp", k) /\ chan[1] # Begin(k, "regular") /\ ~Ended(k, chan[1])
  <2>1. /\ Note("caughtUp", k).op = "caughtUp" /\ Note("failed", k).op = "failed"
        /\ Note("gaveUp", k).op = "gaveUp" /\ Begin(k, "regular").op = "begin"
    BY ItemRelays
  <2> QED BY <1>2, <2>1 DEF Ended
<1>6. cursor[k] \in Nat /\ (cursor[k] > 0 => cursor'[k] > 0) /\ (k # r => cursor'[k] = cursor[k])
  <2>1. cursor \in [Relay -> Nat] /\ Item.relay = r
    BY <1>1, <1>2 DEF Typed
  <2> QED BY <2>1 DEF Moves
<1>7. \A e \in Event : Lost(k, e)' => Lost(k, e) /\ chan[1] # Deliver(k, e)
  <2> SUFFICES ASSUME NEW e \in Event, Lost(k, e)' PROVE Lost(k, e) /\ chan[1] # Deliver(k, e)
    OBVIOUS
  <2>1. Lost(k, e)
    BY LostSame
  <2>2. e # d
    BY <1>3 DEF Lost
  <2> QED BY <1>4, <2>1, <2>2
<1>8. Kept(k)
  BY <1>5, <1>6, <1>7 DEF Kept, Anchored
<1>9. CASE cursor'[k] = cursor[k]
  BY <1>2, <1>8, <1>9, NoteGap
<1>10. CASE cursor'[k] # cursor[k]
  <2>1. k = r /\ d \in Regular /\ gen[k].live /\ \E c : Moves(k, c)
    BY <1>1, <1>2, <1>3, <1>6, <1>10
  <2>2. cursor'[k] \in Nat /\ cursor'[k] <= clock
    BY <2>1 DEF Moves, Typed
  <2>3. \A e \in Event : Lost(k, e)' /\ Anchored(k, e)' => Fresh(e)
    <3> SUFFICES ASSUME NEW e \in Event, Lost(k, e)', Anchored(k, e)', ~Fresh(e) PROVE FALSE
      OBVIOUS
    <3>1. Stale(k, e) /\ Anchored(k, e)
      BY <1>7 DEF Stale, Anchored
    <3>2. 1 \in 1 .. Len(chan)
      BY <1>2, Shifted
    <3>3. ~Begun(k, 1) /\ ~Sent(k, e, 1)
      BY DEF Begun, Sent
    <3> QED BY <1>3, <2>1, <3>1, <3>2, <3>3 DEF GapOf, Observed
  <2>4. anchor'[k] = -1 \/ (anchor'[k] \in Nat /\ Rooted(k, 0)')
    BY <1>6 DEF GapOf, CursorOf, Rooted
  <2>5. CursorOf(k)'
    BY <2>2, <2>3, <2>4, CursorMoved DEF GapOf
  <2> QED BY <1>2, <1>8, <2>5, TakenCommits, TakenObserved, TakenFollows DEF GapOf
<1> QED BY <1>9, <1>10

(* Any item but an event or a regular commit is taken.                     *)
LEMMA OtherGap ==
  ASSUME Typed, NEW op, op # "event", Receive(op),
         UNCHANGED <<clock, lag, created, at, worker, active, cursor, anchor, rejected, failed>>,
         held \cup pruned \subseteq held' \cup pruned',
         NEW k \in Relay, GapOf(k),
         gen'[k].live => gen[k].live /\ chan[1] # Begin(k, "regular"),
         progress[k].caughtUp /\ ~Ended(k, chan[1]) => progress'[k].caughtUp,
         chan[1] = Note("caughtUp", k) => progress'[k].caughtUp
  PROVE  GapOf(k)'
<1>1. Taken /\ chan[1].op = op
  BY TakesItem DEF Taken
<1>2. \A e \in Event : chan[1] # Deliver(k, e)
  <2>1. \A e : Deliver(k, e).op = "event"
    BY ItemRelays
  <2> QED BY <1>1, <2>1
<1>3. \A e \in Event : Lost(k, e)' => Lost(k, e)
  BY LostSame
<1>4. Kept(k)
  BY <1>2, <1>3 DEF Kept, Anchored
<1> QED BY <1>1, <1>4, NoteGap

LEMMA EventsGap ==
  ASSUME Typed, lag \in 0 .. Lag, ConsumeRejected \/ ConsumeFailed \/ ConsumeDuplicate \/ ConsumeNew,
         \A k \in Relay : GapOf(k)
  PROVE  \A k \in Relay : GapOf(k)'
<1>1. Receive("event")
  BY DEF ConsumeRejected, ConsumeFailed, ConsumeDuplicate, ConsumeNew
<1>2. Item.relay \in Relay /\ Item.ev \in Event
  BY <1>1, TakesItem, ItemForms
<1>3. CursorOf(Item.relay)
  BY <1>2 DEF GapOf
<1>4. CASE ConsumeRejected
  <2>1. /\ UNCHANGED <<clock, lag, created, at, worker, active, anchor, held, cursor, gen, progress>>
        /\ UNCHANGED <<pruned, failed>> /\ rejected' = rejected \cup {Item.ev}
    BY <1>4 DEF ConsumeRejected, relays, workers
  <2> QED BY <1>1, <2>1, EventGap
<1>5. CASE ConsumeFailed
  <2>1. /\ UNCHANGED <<clock, lag, created, at, worker, active, anchor, held, cursor, rejected, pruned>>
        /\ failed' = failed \cup {Item.ev}
        /\ \/ gen' = [gen EXCEPT ![Item.relay].dirty = TRUE] /\ UNCHANGED progress
           \/ /\ progress' = [progress EXCEPT ![Item.relay] =
                                [progress[Item.relay] EXCEPT !.dirty = TRUE, !.ready = FALSE]]
              /\ UNCHANGED gen
    BY <1>5 DEF ConsumeFailed, relays, workers, SetProgress
  <2>2. \A j \in Relay : gen'[j].live = gen[j].live
    <3>1. gen \in [Relay -> GenRecord]
      BY DEF Typed
    <3> QED BY <2>1, <3>1 DEF GenRecord
  <2>3. \A j \in Relay : progress'[j].caughtUp = progress[j].caughtUp
    <3>1. progress \in [Relay -> ProgressRecord]
      BY DEF Typed
    <3> DEFINE p == progress[Item.relay]
               q == [p EXCEPT !.dirty = TRUE, !.ready = FALSE]
    <3>2. q.caughtUp = p.caughtUp
      <4>1. p \in ProgressRecord
        BY <1>2, <3>1
      <4> HIDE DEF p
      <4> QED BY <4>1 DEF ProgressRecord
    <3>3. progress' = progress \/ progress' = [progress EXCEPT ![Item.relay] = q]
      BY <2>1
    <3> HIDE DEF q
    <3> QED BY <3>1, <3>2, <3>3
  <2> QED BY <1>1, <2>1, <2>2, <2>3, EventGap
<1>6. CASE ConsumeDuplicate
  <2>1. /\ UNCHANGED <<clock, lag, created, at, worker, active, anchor, held, progress>>
        /\ UNCHANGED <<pruned, rejected, failed>>
        /\ Observe(Item.relay, Item.ev) /\ Item.ev \in held
    BY <1>6 DEF ConsumeDuplicate, relays, workers, history
  <2>2. /\ \A j \in Relay : gen'[j].live = gen[j].live
        /\ cursor' = cursor \/ (Item.ev \in Regular /\ gen[Item.relay].live /\ \E c : Moves(Item.relay, c))
    BY <1>2, <1>3, <2>1, ObserveMoves
  <2> QED BY <1>1, <2>1, <2>2, EventGap
<1>7. CASE ConsumeNew
  <2>1. /\ UNCHANGED <<clock, lag, created, at, worker, active, anchor, progress>>
        /\ UNCHANGED <<pruned, rejected, failed>>
        /\ Observe(Item.relay, Item.ev) /\ held' = held \cup {Item.ev}
    BY <1>7 DEF ConsumeNew, relays, workers
  <2>2. /\ \A j \in Relay : gen'[j].live = gen[j].live
        /\ cursor' = cursor \/ (Item.ev \in Regular /\ gen[Item.relay].live /\ \E c : Moves(Item.relay, c))
    BY <1>2, <1>3, <2>1, ObserveMoves
  <2> QED BY <1>1, <2>1, <2>2, EventGap
<1> QED BY <1>4, <1>5, <1>6, <1>7

LEMMA BeginGap ==
  ASSUME Typed, ConsumeBegin, NEW k \in Relay, GapOf(k)
  PROVE  GapOf(k)'
<1>1. PICK r \in Relay : chan[1].relay = r
  BY TakesItem DEF ConsumeBegin
<1>2. Receive("begin") /\ Item = chan[1] /\ chan[1] \in Items /\ chan[1].op = "begin"
  BY TakesItem DEF ConsumeBegin
<1>3. /\ UNCHANGED <<clock, lag, created, at, worker, active, cursor, anchor, rejected, failed, held, pruned>>
      /\ gen' = IF chan[1].filter = "regular" THEN [gen EXCEPT ![r] = NoGen] ELSE gen
      /\ \/ progress' = [progress EXCEPT ![r] = [progress[r] EXCEPT !.live = "begun", !.ready = FALSE]]
         \/ UNCHANGED progress
  BY <1>1, <1>2 DEF ConsumeBegin, SetProgress, relays, workers, history
<1>4. progress'[k].caughtUp = progress[k].caughtUp
  <2>1. progress \in [Relay -> ProgressRecord]
    BY DEF Typed
  <2> DEFINE p == progress[r]
             q == [p EXCEPT !.live = "begun", !.ready = FALSE]
  <2>2. q.caughtUp = p.caughtUp
    <3>1. p \in ProgressRecord
      BY <2>1
    <3> HIDE DEF p
    <3> QED BY <3>1 DEF ProgressRecord
  <2>3. progress' = progress \/ progress' = [progress EXCEPT ![r] = q]
    BY <1>3
  <2> HIDE DEF q
  <2> QED BY <2>1, <2>2, <2>3
<1>5. gen'[k].live => gen[k].live /\ chan[1] # Begin(k, "regular")
  <2>1. gen \in [Relay -> GenRecord]
    BY DEF Typed
  <2>2. Begin(k, "regular").relay = k /\ Begin(k, "regular").filter = "regular"
    BY DEF Begin
  <2> QED BY <1>1, <1>3, <2>1, <2>2 DEF NoGen
<1>6. chan[1] # Note("caughtUp", k)
  <2>1. Note("caughtUp", k).op = "caughtUp"
    BY ItemRelays
  <2> QED BY <1>2, <2>1
<1>7. "begin" # "event"
  OBVIOUS
<1> QED BY <1>2, <1>3, <1>4, <1>5, <1>6, <1>7, OtherGap

LEMMA CommitStatusGap ==
  ASSUME Typed, ConsumeCommitStatus, NEW k \in Relay, GapOf(k)
  PROVE  GapOf(k)'
<1>1. PICK r \in Relay : chan[1].relay = r
  BY TakesItem DEF ConsumeCommitStatus
<1>2. Receive("commit") /\ Item = chan[1] /\ chan[1] \in Items /\ chan[1].op = "commit"
  BY TakesItem DEF ConsumeCommitStatus
<1>3. /\ UNCHANGED <<clock, lag, created, at, worker, active, cursor, anchor, rejected, failed, held, pruned>>
      /\ UNCHANGED gen
      /\ \/ progress' = [progress EXCEPT ![r] =
                           [progress[r] EXCEPT !.live = "answered", !.ready = ~progress[r].dirty]]
         \/ UNCHANGED progress
  BY <1>1, <1>2 DEF ConsumeCommitStatus, SetProgress, relays, workers, history
<1>4. progress'[k].caughtUp = progress[k].caughtUp
  <2>1. progress \in [Relay -> ProgressRecord]
    BY DEF Typed
  <2> DEFINE p == progress[r]
             q == [p EXCEPT !.live = "answered", !.ready = ~p.dirty]
  <2>2. q.caughtUp = p.caughtUp
    <3>1. p \in ProgressRecord
      BY <2>1
    <3> HIDE DEF p
    <3> QED BY <3>1 DEF ProgressRecord
  <2>3. progress' = progress \/ progress' = [progress EXCEPT ![r] = q]
    BY <1>3
  <2> HIDE DEF q
  <2> QED BY <2>1, <2>2, <2>3
<1>5. chan[1] # Note("caughtUp", k) /\ chan[1] # Begin(k, "regular")
  <2>1. Note("caughtUp", k).op = "caughtUp" /\ Begin(k, "regular").op = "begin"
    BY ItemRelays
  <2> QED BY <1>2, <2>1
<1>6. "commit" # "event"
  OBVIOUS
<1> QED BY <1>2, <1>3, <1>4, <1>5, <1>6, OtherGap

(* The other notes: what is known of the relay becomes p.                  *)
LEMMA NotesGap ==
  ASSUME Typed, NEW op \in {"caughtUp", "failed", "gaveUp"}, Receive(op),
         UNCHANGED <<clock, lag, created, at, worker, active, cursor, anchor, rejected, failed, gen>>,
         held \cup pruned \subseteq held' \cup pruned',
         NEW p, progress' = [progress EXCEPT ![Item.relay] = p], op = "caughtUp" => p.caughtUp,
         NEW k \in Relay, GapOf(k)
  PROVE  GapOf(k)'
<1>1. PICK r \in Relay : chan[1].relay = r
  BY TakesItem
<1>2. Item = chan[1] /\ chan[1] \in Items /\ chan[1].op = op /\ chan[1] = Note(op, r)
  <2>1. Item = chan[1] /\ chan[1] \in Items /\ chan[1].op = op
    BY TakesItem
  <2> QED BY <1>1, <2>1, ItemForms
<1>3. /\ \A j, o : Note(o, j).relay = j /\ Note(o, j).op = o
      /\ Begin(k, "regular").op = "begin"
  BY ItemRelays
<1>4. chan[1] # Begin(k, "regular") /\ op # "event"
  BY <1>2, <1>3
<1>5. /\ k = r => progress'[k] = p
      /\ k # r => progress'[k] = progress[k]
  BY <1>1, <1>2 DEF Typed
<1>6. chan[1] = Note("caughtUp", k) => k = r /\ op = "caughtUp"
  BY <1>1, <1>2, <1>3
<1>7. k = r /\ op # "caughtUp" => Ended(k, chan[1])
  <2>1. op # "caughtUp" => op = "failed" \/ op = "gaveUp"
    OBVIOUS
  <2> QED BY <1>2, <2>1 DEF Ended
<1> QED BY <1>4, <1>5, <1>6, <1>7, OtherGap

LEMMA LastNotesGap ==
  ASSUME Typed, ConsumeCaughtUp \/ ConsumeRelayFailed \/ ConsumeGaveUp, NEW k \in Relay, GapOf(k)
  PROVE  GapOf(k)'
<1>0. /\ "caughtUp" \in {"caughtUp", "failed", "gaveUp"} /\ "failed" \in {"caughtUp", "failed", "gaveUp"}
      /\ "gaveUp" \in {"caughtUp", "failed", "gaveUp"} /\ "failed" # "caughtUp" /\ "gaveUp" # "caughtUp"
  OBVIOUS
<1>1. CASE ConsumeCaughtUp
  <2>0. Receive("caughtUp")
    BY <1>1 DEF ConsumeCaughtUp
  <2>1. PICK q : q = [progress[Item.relay] EXCEPT !.caughtUp = TRUE, !.failed = FALSE,
                                                  !.live = "none", !.ready = FALSE]
    OBVIOUS
  <2>2. /\ UNCHANGED <<clock, lag, created, at, worker, active, cursor, anchor, rejected, failed, gen>>
        /\ progress' = [progress EXCEPT ![Item.relay] = q]
        /\ Prune(held) \/ UNCHANGED <<held, pruned>>
    BY <1>1, <2>1 DEF ConsumeCaughtUp, SetProgress, relays, workers
  <2>3. held \cup pruned \subseteq held' \cup pruned'
    BY <2>2, PruneGate
  <2>4. q.caughtUp
    <3>1. progress[Item.relay] \in ProgressRecord
      BY <2>0, TakesItem DEF Typed
    <3> DEFINE p == progress[Item.relay]
    <3>2. p \in ProgressRecord
      BY <3>1
    <3>3. q = [p EXCEPT !.caughtUp = TRUE, !.failed = FALSE, !.live = "none", !.ready = FALSE]
      BY <2>1
    <3> HIDE DEF p
    <3> QED BY <3>2, <3>3 DEF ProgressRecord
  <2> QED BY <1>0, <2>0, <2>2, <2>3, <2>4, NotesGap
<1>2. CASE ConsumeRelayFailed
  <2>1. PICK q : q = [NoProgress EXCEPT !.failed = TRUE, !.gaveUp = progress[Item.relay].gaveUp]
    OBVIOUS
  <2>2. /\ UNCHANGED <<clock, lag, created, at, worker, active, cursor, anchor, rejected, failed, gen>>
        /\ progress' = [progress EXCEPT ![Item.relay] = q] /\ Receive("failed")
        /\ UNCHANGED <<held, pruned>>
    BY <1>2, <2>1 DEF ConsumeRelayFailed, SetProgress, relays, workers, history
  <2> QED BY <1>0, <2>2, NotesGap
<1>3. CASE ConsumeGaveUp
  <2>1. PICK q : q = [progress[Item.relay] EXCEPT !.failed = TRUE, !.gaveUp = TRUE,
                                                  !.caughtUp = FALSE, !.ready = FALSE]
    OBVIOUS
  <2>2. /\ UNCHANGED <<clock, lag, created, at, worker, active, cursor, anchor, rejected, failed, gen>>
        /\ progress' = [progress EXCEPT ![Item.relay] = q] /\ Receive("gaveUp")
        /\ UNCHANGED <<held, pruned>>
    BY <1>3, <2>1 DEF ConsumeGaveUp, SetProgress, relays, workers, history
  <2> QED BY <1>0, <2>2, NotesGap
<1> QED BY <1>1, <1>2, <1>3

(* Faults are counted, and every relay has an anchor or none yet.          *)
Counted == faults \in Nat /\ DOMAIN anchor = Relay

LEMMA CommitRegularGap ==
  ASSUME Typed, lag \in 0 .. Lag, Counted, ConsumeCommitRegular, NEW k \in Relay, GapOf(k)
  PROVE  GapOf(k)'
<1>0. Receive("commit")
  BY DEF ConsumeCommitRegular
<1>1. PICK r \in Relay : chan[1].relay = r
  BY <1>0, TakesItem
<1>f. PICK fl \in Nat : chan[1].floor = fl
  BY <1>0, TakesItem, ItemForms
<1>2. /\ Item = chan[1] /\ chan[1].op = "commit" /\ chan[1].filter = "regular"
      /\ IsCommit(r, chan[1])
  BY <1>0, <1>1, TakesItem DEF ConsumeCommitRegular, IsCommit
<1>3. PICK to : to = ClampToClock(Max({gen[r].newest, chan[1].floor}))
  OBVIOUS
<1>4. /\ UNCHANGED <<clock, lag, created, at, worker, active, progress, held, pruned, rejected, failed>>
      /\ gen' = [gen EXCEPT ![r].live = TRUE]
      /\ \/ UNCHANGED <<cursor, anchor>>
         \/ /\ Advance(r, to)
            /\ anchor' = IF faults' = faults /\ anchor[r] = -1 /\ ~progress[r].caughtUp
                         THEN [anchor EXCEPT ![r] = fl] ELSE anchor
  BY <1>1, <1>2, <1>3, <1>f DEF ConsumeCommitRegular, relays, workers
<1>5. Taken /\ 1 \in 1 .. Len(chan)
  <2>1. Taken
    BY <1>0, <1>4, TakesItem DEF Taken
  <2> QED BY <2>1, Shifted
<1>6. /\ \A j, e : chan[1] # Deliver(j, e)
      /\ chan[1] # Note("caughtUp", k) /\ chan[1] # Begin(k, "regular")
  <2>1. \A j, e : Deliver(j, e).op = "event"
    BY ItemRelays
  <2>2. Note("caughtUp", k).op = "caughtUp" /\ Begin(k, "regular").op = "begin"
    BY ItemRelays
  <2> QED BY <1>2, <2>1, <2>2
<1>7. \A e \in Event : (Lost(k, e)' => Lost(k, e)) /\ (Stale(k, e)' => Stale(k, e))
  <2>1. \A e \in Event : Lost(k, e)' => Lost(k, e)
    BY <1>4, LostSame
  <2> QED BY <1>4, <2>1 DEF Stale, Fresh
<1>8. /\ k # r => gen'[k] = gen[k] /\ cursor'[k] = cursor[k] /\ anchor'[k] = anchor[k]
  <2>1. k # r => gen'[k] = gen[k]
    BY <1>4 DEF Typed
  <2>2. k # r => cursor'[k] = cursor[k]
    BY <1>4 DEF Typed, Advance
  <2>3. k # r => anchor'[k] = anchor[k]
    BY <1>4 DEF Counted
  <2> QED BY <2>1, <2>2, <2>3
<1>9. CASE k # r
  <2>1. Kept(k)
    BY <1>4, <1>6, <1>7, <1>8, <1>9 DEF Kept, Anchored
  <2> QED BY <1>5, <1>8, <1>9, <2>1, NoteGap
<1>10. CASE k = r
  <2>1. CommitOf(k, 1)
    BY <1>2, <1>5, <1>10 DEF GapOf, Commits
  <2>2. \A e : ~Sent(k, e, 1)
    BY DEF Sent
  <2>3. \A e \in Event : ~(Stale(k, e) /\ Anchored(k, e))
    BY <2>1, <2>2 DEF CommitOf
  <2>4. CASE cursor'[k] = cursor[k] /\ anchor'[k] = anchor[k]
    <3>1. \A e \in Event : ~(Stale(k, e)' /\ Anchored(k, e)')
      BY <1>4, <1>7, <2>3, <2>4 DEF Anchored
    <3>2. Kept(k)
      BY <1>2, <1>4, <1>6, <1>7, <1>10, <2>4, <3>1 DEF Kept
    <3> QED BY <1>5, <2>4, <3>2, NoteGap
  <2>5. CASE /\ Advance(k, to)
             /\ anchor' = IF faults' = faults /\ anchor[k] = -1 /\ ~progress[k].caughtUp
                          THEN [anchor EXCEPT ![k] = fl] ELSE anchor
    <3>1. to \in Nat /\ to <= clock /\ (fl > 0 => to > 0)
      <4> DEFINE a == gen[r].newest
                 m == Max({a, fl})
      <4>1. a \in Nat
        BY DEF Typed, GenRecord
      <4>2. m = IF a >= fl THEN a ELSE fl
        <5> HIDE DEF a
        <5> QED BY <4>1, MaxOfTwo
      <4>3. m \in Nat /\ (fl > 0 => m > 0)
        <5> HIDE DEF a, m
        <5> QED BY <4>1, <4>2
      <4>4. to = ClampToClock(m)
        BY <1>3, <1>f
      <4> HIDE DEF m
      <4> QED BY <4>3, <4>4, ClampBound
    <3>2. CASE UNCHANGED cursor /\ Fault
      <4>1. faults' # faults
        BY <3>2 DEF Fault, Counted
      <4> QED BY <2>4, <2>5, <3>2, <4>1
    <3>3. ASSUME UNCHANGED faults, NEW c, Moves(k, c), c >= to PROVE GapOf(k)'
      <4>1. /\ cursor'[k] = c /\ c \in Nat /\ c <= clock /\ c >= cursor[k] /\ cursor[k] \in Nat
        BY <3>3 DEF Moves, Typed
      <4>2. cursor[k] > 0 => cursor'[k] > 0
        BY <4>1
      <4>3. CASE anchor'[k] = anchor[k]
        <5>1. \A e \in Event : ~(Stale(k, e)' /\ Anchored(k, e)')
          BY <1>4, <1>7, <2>3, <4>3 DEF Anchored
        <5>2. anchor'[k] = -1 \/ (anchor'[k] \in Nat /\ Rooted(k, 0)')
          BY <4>2, <4>3 DEF GapOf, CursorOf, Rooted
        <5> QED BY <1>2, <1>4, <1>5, <1>6, <1>7, <1>10, <4>1, <4>2, <5>1, <5>2, CursorMoved,
                   TakenCommits, TakenObserved, TakenFollows DEF GapOf, Kept, Stale, Fresh
      <4>4. CASE anchor'[k] # anchor[k]
        <5>1. ~progress[k].caughtUp /\ anchor' = [anchor EXCEPT ![k] = fl]
          BY <2>5, <4>4
        <5>2. ~Known(k, 1)
          BY <5>1 DEF Known
        <5>3. Rooted(k, fl) /\ \A e \in Event : ~(Stale(k, e) /\ created[e] >= fl)
          BY <1>f, <2>1, <2>2, <5>2 DEF CommitOf
        <5>4. anchor'[k] = fl \/ anchor'[k] = anchor[k]
          BY <5>1
        <5>5. anchor'[k] = fl
          BY <4>4, <5>4
        <5>6. \A e \in Event : ~(Stale(k, e)' /\ Anchored(k, e)')
          BY <1>4, <1>7, <5>3, <5>5 DEF Anchored
        <5>7. Rooted(k, 0)'
          BY <3>1, <3>3, <4>1, <4>2, <5>3 DEF Rooted
        <5> QED BY <1>2, <1>4, <1>5, <1>6, <1>7, <1>10, <4>1, <4>2, <5>5, <5>6, <5>7, CursorMoved,
                   TakenCommits, TakenObserved, TakenFollows DEF GapOf, Kept, Stale, Fresh
      <4> QED BY <4>3, <4>4
    <3>4. CursorOf(k)
      BY DEF GapOf
    <3> QED BY <2>5, <3>1, <3>2, <3>3, <3>4, AdvanceMoves
  <2> QED BY <1>4, <1>10, <2>4, <2>5
<1> QED BY <1>9, <1>10

----------------------------------------------------------------------------
(* A worker's steps. *)

LEMMA MovesSteady ==
  ASSUME Typed, NEW j \in Relay, NEW items, NEW w, NEW a, WorkerMoves(j, items, w, a), NEW k \in Relay
  PROVE  /\ Steady(k) /\ Typed' /\ UNCHANGED <<clock, lag, created>> /\ items \in Seq(Items) /\ Send(items)
         /\ \A e \in Event : /\ Lost(k, e)' <=> Lost(k, e)
                             /\ Stale(k, e)' <=> Stale(k, e)
                             /\ Anchored(k, e)' <=> Anchored(k, e)
                             /\ Fresh(e)' <=> Fresh(e)
         /\ UNCHANGED <<cursor, gen>>
         /\ k # j => worker'[k] = worker[k] /\ active'[k] = active[k]
<1>1. /\ UNCHANGED <<clock, lag, created, at, held, cursor, gen, progress, pruned, rejected, failed, anchor>>
      /\ worker' = [worker EXCEPT ![j] = w] /\ active' = [active EXCEPT ![j] = a]
      /\ items \in Seq(Items) /\ Send(items)
  BY DEF WorkerMoves, OnlyWorker, OfRelay, relays, history
<1>2. \A e \in Event : /\ Lost(k, e)' <=> Lost(k, e)
                       /\ Anchored(k, e)' <=> Anchored(k, e)
                       /\ Fresh(e)' <=> Fresh(e)
  BY <1>1 DEF Lost, Anchored, Fresh, Sharing
<1>3. \A e \in Event : Stale(k, e)' <=> Stale(k, e)
  BY <1>2 DEF Stale
<1>4. Steady(k)
  BY <1>1, <1>3 DEF Steady
<1>5. k # j => worker'[k] = worker[k] /\ active'[k] = active[k]
  BY <1>1 DEF Typed
<1> QED BY <1>1, <1>2, <1>3, <1>4, <1>5, MovesTyped

LEMMA OthersGap ==
  ASSUME Typed, NEW j \in Relay, NEW items, NEW w, NEW a, WorkerMoves(j, items, w, a),
         NEW k \in Relay, k # j, GapOf(k)
  PROVE  GapOf(k)'
<1>1. \A i \in 1 .. Len(items) : items[i].relay # k
  BY DEF WorkerMoves, OfRelay
<1>2. SoundEvents(k, items)
  <2>1. \A d : Deliver(k, d).relay = k
    BY ItemRelays
  <2> QED BY <1>1, <2>1 DEF SoundEvents
<1>3. \A e \in Event : Lost(k, e)' => Lost(k, e) /\ created'[e] = created[e]
  BY MovesSteady
<1> QED BY <1>1, <1>2, <1>3, MovesSteady, GapAside

LEMMA MovesGap ==
  ASSUME Typed, NEW k \in Relay, GapOf(k), NEW items, NEW w, NEW a, WorkerMoves(k, items, w, a),
         SoundCommits(k, items), SoundEvents(k, items), Follows(k)'
  PROVE  GapOf(k)'
<1>1. /\ Steady(k) /\ items \in Seq(Items) /\ Send(items) /\ UNCHANGED <<clock, created>>
      /\ \A e \in Event : Lost(k, e)' => Lost(k, e)
  BY MovesSteady
<1>2. CursorOf(k)'
  BY <1>1, CursorKept DEF GapOf, Steady
<1> QED BY <1>1, <1>2, CommitsOn, ObservedOn DEF GapOf

(* What follows the worker's step, in terms of the state before it.        *)
LEMMA MovesFollows ==
  ASSUME Typed, NEW k \in Relay, NEW items, NEW w, NEW a, WorkerMoves(k, items, w, a),
         w.pc # "stopped" => a # {},
         w.pc \in {"negentropy", "page", "widen", "open"} =>
           w.filter \in a /\ w.start <= clock - lag + Lag,
         w.pc \in {"page", "widen"} /\ w.filter = "regular" =>
           /\ Reopened(k)' /\ Rooted(k, w.since)
           /\ \A e \in Event : Stale(k, e) /\ Anchored(k, e) => created[e] >= w.since
           /\ \A e \in Event : /\ Stale(k, e) /\ created[e] >= w.since
                               /\ w.pc = "widen" \/ (w.until # 0 /\ created[e] > w.until)
                               => Behind(items, k, e, Len(items) + 1),
         w.pc = "open" /\ "regular" \in a =>
           /\ AtEnd(k)'
           /\ \A e \in Event : Stale(k, e) /\ Anchored(k, e) => Behind(items, k, e, Len(items) + 1),
         w.pc = "live" /\ "regular" \in a =>
           \A e \in Event : Lost(k, e) /\ (Fresh(e) \/ Anchored(k, e))
             => Behind(items, k, e, Len(items) + 1)
  PROVE  Follows(k)'
<1>1. /\ UNCHANGED <<clock, lag, created, cursor>> /\ items \in Seq(Items) /\ Send(items)
      /\ \A e \in Event : /\ Lost(k, e)' <=> Lost(k, e)
                          /\ Stale(k, e)' <=> Stale(k, e)
                          /\ Anchored(k, e)' <=> Anchored(k, e)
                          /\ Fresh(e)' <=> Fresh(e)
  BY MovesSteady
<1>2. worker'[k] = w /\ active'[k] = a
  BY MovesTyped
<1>3. \A e : Behind(items, k, e, Len(items) + 1) => Reached(k, e)'
  <2>1. chan \in Seq(Items)
    BY DEF Typed
  <2> QED BY <1>1, <2>1, SentOn DEF Behind
<1>4. CatchingUp(k)' => w.filter \in a /\ w.start <= clock' - lag' + Lag
  BY <1>1, <1>2 DEF CatchingUp
<1>5. ASSUME w.pc \in {"page", "widen"}, w.filter = "regular" PROVE Window(k)'
  <2>1. Rooted(k, w.since)'
    BY <1>1, <1>5 DEF Rooted
  <2>2. \A e \in Event : Stale(k, e)' /\ Anchored(k, e)' => created'[e] >= w.since
    BY <1>1, <1>5
  <2>3. \A e \in Event : /\ Stale(k, e)' /\ created'[e] >= w.since
                         /\ w.pc = "widen" \/ (w.until # 0 /\ created'[e] > w.until)
                         => Reached(k, e)'
    BY <1>1, <1>3, <1>5
  <2> QED BY <1>2, <1>5, <2>1, <2>2, <2>3 DEF Window, Rooted
<1>6. ASSUME w.pc = "open", "regular" \in a
      PROVE  AtEnd(k)' /\ \A e \in Event : Stale(k, e)' /\ Anchored(k, e)' => Reached(k, e)'
  BY <1>1, <1>3, <1>6
<1>7. ASSUME w.pc = "live", "regular" \in a
      PROVE  \A e \in Event : Lost(k, e)' /\ (Fresh(e)' \/ Anchored(k, e)') => Reached(k, e)'
  BY <1>1, <1>3, <1>7
<1> QED BY <1>2, <1>4, <1>5, <1>6, <1>7 DEF Follows, AtEnd

(* Where a regular catch-up resumes: at a fixed instant, with everything   *)
(* stale the anchor covers still ahead.                                    *)
LEMMA Resumes ==
  ASSUME Typed, NEW k \in Relay, CursorOf(k), NEW start \in Nat, start >= Start
  PROVE  LET since == ResumeSince(cursor[k], start) IN
         /\ since \in Nat /\ Rooted(k, since)
         /\ \A e \in Event : Lost(k, e) /\ Anchored(k, e) => created[e] >= since
<1> DEFINE since == ResumeSince(cursor[k], start)
<1>1. cursor[k] \in Nat /\ Overlap \in Nat /\ Lookback \in Nat /\ start > Lookback
  BY Constants DEF Typed, Start
<1>2. /\ since \in Nat
      /\ cursor[k] > 0 => since = IF cursor[k] > Overlap THEN cursor[k] - Overlap ELSE 0
  BY <1>1, ResumeType
<1>3. CASE cursor[k] > 0
  <2>1. \A e \in Event : Lost(k, e) /\ Anchored(k, e) => created[e] >= since
    <3> SUFFICES ASSUME NEW e \in Event, Lost(k, e), Anchored(k, e) PROVE created[e] >= since
      OBVIOUS
    <3>1. created[e] \in Nat /\ created[e] >= cursor[k] - Overlap
      BY Sizes DEF CursorOf
    <3> HIDE DEF since
    <3> QED BY <1>1, <1>2, <1>3, <3>1
  <2> QED BY <1>2, <1>3, <2>1 DEF Rooted
<1>4. CASE ~(cursor[k] > 0)
  <2>1. since = IF Lookback = 0 THEN 0 ELSE Max({0, start - Lookback})
    BY <1>4 DEF ResumeSince
  <2>2. Max({0, start - Lookback}) = IF 0 >= start - Lookback THEN 0 ELSE start - Lookback
    BY <1>1, MaxOfTwo
  <2>3. Rooted(k, since)
    <3> HIDE DEF since
    <3> QED BY <1>1, <2>1, <2>2 DEF Rooted
  <2>4. \A e \in Event : Lost(k, e) /\ Anchored(k, e) => created[e] >= since
    <3> SUFFICES ASSUME NEW e \in Event, Lost(k, e), Anchored(k, e) PROVE created[e] >= since
      OBVIOUS
    <3>1. Lookback = 0
      BY <1>4 DEF CursorOf, Anchored, Rooted
    <3>2. since = 0 /\ created[e] \in Nat
      BY <2>1, <3>1, Sizes
    <3> QED BY <3>2
  <2> QED BY <1>2, <2>3, <2>4
<1> QED BY <1>3, <1>4

(* Items that commit nothing, with regular events in a generation that is  *)
(* not live.                                                               *)
Harmless(k, items) ==
  \A c \in 1 .. Len(items) :
    /\ items[c].op # "commit"
    /\ \A d \in Regular : items[c] = Deliver(k, d) /\ gen[k].live =>
         Begun(k, Len(chan) + 1) \/ (1 < c /\ items[1] = Begin(k, "regular"))

LEMMA HarmlessSound ==
  ASSUME NEW k, NEW items \in Seq(Items), Harmless(k, items)
  PROVE  SoundCommits(k, items) /\ SoundEvents(k, items)
<1>1. SoundCommits(k, items)
  BY DEF SoundCommits, IsCommit, Harmless
<1>2. ASSUME gen[k].live, NEW c \in 1 .. Len(items), NEW d \in Regular, items[c] = Deliver(k, d)
      PROVE  \/ Begun(k, Len(chan) + 1)
             \/ \E j \in 1 .. Len(items) : j < c /\ items[j] = Begin(k, "regular")
  <2>1. Begun(k, Len(chan) + 1) \/ (1 < c /\ items[1] = Begin(k, "regular"))
    BY <1>2 DEF Harmless
  <2>2. 1 < c => 1 \in 1 .. Len(items)
    BY <1>2
  <2> QED BY <2>1, <2>2
<1> QED BY <1>1, <1>2 DEF SoundEvents

(* u is s with a behind it, or before it.                                  *)
Ending(k, s, a, u) ==
  /\ OfRelay(k, u) /\ Len(u) = Len(s) + 1 /\ Len(s) \in Nat /\ u[Len(s) + 1] = a
  /\ \A i \in 1 .. Len(s) : u[i] = s[i]
  /\ \A i \in 1 .. Len(u) : i \in 1 .. Len(s) \/ i = Len(s) + 1

Heading(k, a, s, u) ==
  /\ OfRelay(k, u) /\ Len(u) = Len(s) + 1 /\ Len(s) \in Nat /\ u[1] = a
  /\ \A i \in 1 .. Len(s) : i + 1 \in 1 .. Len(u) /\ u[i + 1] = s[i]
  /\ \A i \in 1 .. Len(u) : i = 1 \/ (i - 1 \in 1 .. Len(s) /\ u[i] = s[i - 1])

LEMMA EndsWith ==
  ASSUME NEW k \in Relay, NEW a \in Items, a.relay = k, NEW s, OfRelay(k, s),
         NEW one, one = <<a>>, NEW u, u = s \o one
  PROVE  Ending(k, s, a, u)
<1>1. OfRelay(k, one) /\ Len(one) = 1 /\ one[1] = a /\ 1 \in 1 .. Len(one)
  BY OneItem
<1>2. OfRelay(k, u) /\ Joining(s, one, u)
  BY <1>1, Joins, Zenon
<1>3. /\ Len(u) = Len(s) + Len(one) /\ Len(s) \in Nat
      /\ \A i \in 1 .. Len(s) : u[i] = s[i]
      /\ \A i \in 1 .. Len(one) : u[Len(s) + i] = one[i]
  BY <1>2, Zenon DEF Joining
<1>4. Len(u) = Len(s) + 1 /\ \A i \in 1 .. Len(u) : i \in 1 .. Len(s) \/ i = Len(s) + 1
  BY <1>1, <1>3
<1>5. u[Len(s) + 1] = a
  BY <1>1, <1>3
<1> QED BY <1>2, <1>3, <1>4, <1>5 DEF Ending

LEMMA StartsWith ==
  ASSUME NEW k \in Relay, NEW a \in Items, a.relay = k, NEW s, OfRelay(k, s),
         NEW one, one = <<a>>, NEW u, u = one \o s
  PROVE  Heading(k, a, s, u)
<1>1. OfRelay(k, one) /\ Len(one) = 1 /\ one[1] = a /\ 1 \in 1 .. Len(one)
  BY OneItem
<1>2. OfRelay(k, u) /\ Joining(one, s, u)
  BY <1>1, Joins, Zenon
<1>3. /\ Len(u) = Len(one) + Len(s) /\ Len(s) \in Nat
      /\ \A i \in 1 .. Len(one) : u[i] = one[i]
      /\ \A i \in 1 .. Len(s) : u[Len(one) + i] = s[i]
  BY <1>2, Zenon DEF Joining
<1>4. Len(u) = Len(s) + 1 /\ u[1] = a
  BY <1>1, <1>3
<1>5. \A i \in 1 .. Len(s) : i + 1 \in 1 .. Len(u) /\ 1 + i = i + 1
  BY <1>3, <1>4
<1>6. \A i \in 1 .. Len(s) : u[i + 1] = s[i]
  <2> TAKE i \in 1 .. Len(s)
  <2>1. u[1 + i] = s[i]
    BY <1>1, <1>3
  <2> QED BY <1>5, <2>1
<1>7. ASSUME NEW i \in 1 .. Len(u), i # 1
      PROVE  i - 1 \in 1 .. Len(s) /\ u[i] = s[i - 1]
  <2>1. i - 1 \in 1 .. Len(s) /\ (i - 1) + 1 = i
    BY <1>3, <1>4, <1>7
  <2>2. u[(i - 1) + 1] = s[i - 1]
    BY <1>6, <2>1
  <2> QED BY <2>1, <2>2
<1> QED BY <1>2, <1>3, <1>4, <1>5, <1>6, <1>7 DEF Heading

LEMMA HarmlessEnd ==
  ASSUME NEW k \in Relay, NEW a \in Items, a.relay = k, a.op \notin {"commit", "event"},
         NEW s, OfRelay(k, s), Harmless(k, s), NEW one, one = <<a>>, NEW u, u = s \o one
  PROVE  OfRelay(k, u) /\ Harmless(k, u)
<1>0. Ending(k, s, a, u)
  BY EndsWith, Zenon
<1>1. /\ OfRelay(k, u) /\ Len(u) = Len(s) + 1 /\ Len(s) \in Nat /\ u[Len(s) + 1] = a
      /\ \A i \in 1 .. Len(s) : u[i] = s[i]
      /\ \A i \in 1 .. Len(u) : i \in 1 .. Len(s) \/ i = Len(s) + 1
  BY <1>0, Zenon DEF Ending
<1>2. SUFFICES ASSUME NEW c \in 1 .. Len(u)
               PROVE  /\ u[c].op # "commit"
                      /\ \A d \in Regular : u[c] = Deliver(k, d) /\ gen[k].live =>
                           Begun(k, Len(chan) + 1) \/ (1 < c /\ u[1] = Begin(k, "regular"))
  BY <1>1 DEF Harmless
<1>3. CASE c \in 1 .. Len(s)
  <2>1. u[c] = s[c] /\ u[1] = s[1]
    BY <1>1, <1>3
  <2> QED BY <1>3, <2>1 DEF Harmless
<1>4. CASE c = Len(s) + 1
  <2>1. \A d : Deliver(k, d).op = "event"
    BY ItemRelays
  <2> QED BY <1>1, <1>4, <2>1
<1> QED BY <1>1, <1>3, <1>4

(* The worker's session ends: what it sent commits nothing.                *)
LEMMA EndsGap ==
  ASSUME Typed, NEW k \in Relay, GapOf(k), NEW items, NEW w, NEW a, WorkerMoves(k, items, w, a),
         Harmless(k, items), w.pc \in {"down", "stopped"}, w.pc = "down" => a # {}
  PROVE  GapOf(k)'
<1>1. items \in Seq(Items)
  BY DEF WorkerMoves, OfRelay
<1>2. /\ w.pc \notin {"negentropy", "page", "widen", "open"} /\ w.pc \notin {"page", "widen"}
      /\ w.pc # "open" /\ w.pc # "live" /\ (w.pc # "stopped" => a # {})
  <2>1. CASE w.pc = "down"
    BY <2>1
  <2>2. CASE w.pc = "stopped"
    BY <2>2
  <2> QED BY <2>1, <2>2
<1>3. Follows(k)'
  BY <1>2, MovesFollows
<1> QED BY <1>1, <1>3, HarmlessSound, MovesGap

LEMMA EndSessionGap ==
  ASSUME Typed, NEW k \in Relay, GapOf(k), worker[k].pc # "stopped",
         NEW items, OfRelay(k, items), Harmless(k, items), EndSession(k, items),
         UNCHANGED active, OnlyWorker
  PROVE  GapOf(k)'
<1>1. PICK note : note = Note("failed", k)
  OBVIOUS
<1>2. PICK one : one = <<note>>
  OBVIOUS
<1>3. PICK sent : sent = items \o one
  OBVIOUS
<1>4. note \in Items /\ note.relay = k /\ note.op \notin {"commit", "event"}
  <2>1. "failed" \in {"caughtUp", "failed", "gaveUp"}
    OBVIOUS
  <2>2. note \in Items /\ note.relay = k /\ note.op = "failed"
    BY <1>1, <2>1, ItemTypes, ItemRelays
  <2> QED BY <2>2
<1>5. OfRelay(k, sent) /\ Harmless(k, sent)
  BY <1>2, <1>3, <1>4, HarmlessEnd
<1>6. WorkerOK(NoWorker, clock) /\ NoWorker.pc = "down"
  BY DEF WorkerOK, NoWorker, Idle, Paging
<1>7. Send(sent) /\ worker' = [worker EXCEPT ![k] = NoWorker]
  BY <1>1, <1>2, <1>3 DEF EndSession, SetWorker
<1>8. WorkerMoves(k, sent, NoWorker, active[k])
  BY <1>5, <1>6, <1>7 DEF WorkerMoves, Typed
<1>9. active[k] # {}
  BY DEF GapOf, Follows
<1> QED BY <1>5, <1>6, <1>8, <1>9, EndsGap

(* What a REQ for a filter delivers, during the catch-up on it.            *)
LEMMA AskedHarmless ==
  ASSUME Typed, NEW k \in Relay, Follows(k), worker[k].pc \in {"negentropy", "page", "widen"},
         NEW S \in SUBSET Event, \A e \in S : FilterOf(e) = worker[k].filter,
         NEW items \in Deliveries(k, S)
  PROVE  Events(k, items) /\ Harmless(k, items)
<1>1. Events(k, items) /\ \A i \in 1 .. Len(items) : \E e \in S : items[i] = Deliver(k, e)
  BY DeliveriesAre, DeliveriesForm
<1>2. \A e : Deliver(k, e).op = "event" /\ Deliver(k, e).ev = e
  BY ItemRelays
<1>3. \A i \in 1 .. Len(items) : items[i].op # "commit"
  BY <1>1, <1>2
<1>4. ASSUME NEW c \in 1 .. Len(items), NEW d \in Regular, items[c] = Deliver(k, d), gen[k].live
      PROVE  Begun(k, Len(chan) + 1)
  <2>1. PICK e \in S : items[c] = Deliver(k, e)
    BY <1>1
  <2>2. e = d
    BY <1>2, <1>4, <2>1
  <2>3. worker[k].filter = "regular"
    BY <2>2 DEF FilterOf
  <2>4. worker[k].pc \in {"page", "widen"}
    <3>1. WorkerOK(worker[k], clock)
      BY DEF Typed
    <3> QED BY <2>3, <3>1 DEF WorkerOK, Idle, Asking, Paging, Opening
  <2> QED BY <1>4, <2>3, <2>4 DEF Follows, Window, Reopened
<1> QED BY <1>1, <1>3, <1>4 DEF Harmless

(* The answer of a live REQ comes behind its begin.                        *)
LEMMA OpenHarmless ==
  ASSUME Typed, NEW k \in Relay, worker[k].pc = "open", NEW items \in LiveAnswer(k),
         NEW begin, begin = Begin(k, worker[k].filter), NEW u, Heading(k, begin, items, u)
  PROVE  Harmless(k, u)
<1> DEFINE f == worker[k].filter
           S == Matching(k, f, ResumeSince(worker[k].start, worker[k].start), 0)
<1>1. /\ Len(u) = Len(items) + 1 /\ Len(items) \in Nat /\ u[1] = begin
      /\ \A i \in 1 .. Len(u) : i = 1 \/ (i - 1 \in 1 .. Len(items) /\ u[i] = items[i - 1])
  BY DEF Heading
<1>2. \A e \in S : FilterOf(e) = f
  BY DEF Matching
<1>3. S \in SUBSET Event
  BY DEF Matching, Typed
<1>4. items \in Deliveries(k, S)
  BY DEF LiveAnswer
<1> HIDE DEF S
<1>5. \A i \in 1 .. Len(items) : \E e \in S : items[i] = Deliver(k, e)
  BY <1>3, <1>4, DeliveriesAre
<1>6. /\ \A e : Deliver(k, e).op = "event" /\ Deliver(k, e).ev = e
      /\ begin.op = "begin"
  BY ItemRelays
<1>7. SUFFICES ASSUME NEW c \in 1 .. Len(u)
               PROVE  /\ u[c].op # "commit"
                      /\ \A d \in Regular : u[c] = Deliver(k, d) =>
                           1 < c /\ u[1] = Begin(k, "regular")
  BY DEF Harmless
<1>8. CASE c = 1
  BY <1>1, <1>6, <1>8
<1>9. CASE c # 1
  <2>1. PICK e \in S : u[c] = Deliver(k, e)
    BY <1>1, <1>5, <1>9
  <2>2. \A d \in Regular : u[c] = Deliver(k, d) => f = "regular"
    <3>0. u[c].ev = e
      BY <1>6, <2>1
    <3>1. \A d : u[c] = Deliver(k, d) => d = e
      BY <1>6, <3>0
    <3>2. FilterOf(e) = f /\ \A d \in Regular : FilterOf(d) = "regular"
      BY <1>2 DEF FilterOf
    <3> HIDE DEF f
    <3> QED BY <3>1, <3>2
  <2>3. 1 < c
    BY <1>1, <1>9
  <2> QED BY <1>1, <1>6, <2>1, <2>2, <2>3
<1> QED BY <1>8, <1>9

LEMMA AnswersHarmless ==
  ASSUME Typed, NEW k \in Relay, Follows(k), NEW answer \in Answers(k)
  PROVE  OfRelay(k, answer) /\ Harmless(k, answer)
<1> DEFINE w == worker[k]
<1>0. OfRelay(k, answer) /\ WorkerOK(w, clock) /\ at[k] \in SUBSET Event
  BY AnswersForm DEF Typed
<1>1. CASE w.pc = "negentropy"
  <2> DEFINE S == Matching(k, "status", 0, 0) \ held
  <2>1. answer \in Deliveries(k, S)
    BY <1>1 DEF Answers
  <2>2. w.filter = "status"
    BY <1>0, <1>1 DEF WorkerOK, Idle, Asking, Paging, Opening
  <2>3. S \in SUBSET Event /\ \A e \in S : FilterOf(e) = w.filter
    BY <1>0, <2>2 DEF Matching
  <2>4. w.pc \in {"negentropy", "page", "widen"}
    BY <1>1
  <2> HIDE DEF S
  <2> QED BY <1>0, <2>1, <2>3, <2>4, AskedHarmless
<1>2. CASE w.pc = "page"
  <2>1. PICK P \in Pages(Matching(k, w.filter, w.since, w.until)) : answer \in Deliveries(k, P)
    BY <1>2 DEF Answers
  <2>2. P \in SUBSET Event /\ P \subseteq Matching(k, w.filter, w.since, w.until)
    BY <1>2, PageFacts
  <2>3. \A e \in P : FilterOf(e) = w.filter
    BY <2>2 DEF Matching
  <2>4. w.pc \in {"negentropy", "page", "widen"}
    BY <1>2
  <2> QED BY <1>0, <2>1, <2>2, <2>3, <2>4, AskedHarmless
<1>3. CASE w.pc = "widen"
  <2> DEFINE S == Matching(k, w.filter, Max({w.since, w.first - BackdateOverlap}), 0)
  <2>1. answer \in Deliveries(k, S)
    BY <1>3 DEF Answers, Recheck
  <2>2. S \in SUBSET Event /\ \A e \in S : FilterOf(e) = w.filter
    BY <1>0 DEF Matching
  <2>3. w.pc \in {"negentropy", "page", "widen"}
    BY <1>3
  <2> HIDE DEF S
  <2> QED BY <1>0, <2>1, <2>2, <2>3, AskedHarmless
<1>4. CASE w.pc = "open"
  <2>1. PICK items \in LiveAnswer(k) : answer = <<Begin(k, w.filter)>> \o items
    BY <1>4 DEF Answers
  <2>2. PICK begin : begin = Begin(k, w.filter)
    OBVIOUS
  <2>3. PICK one : one = <<begin>> /\ answer = one \o items
    BY <2>1, <2>2
  <2>4. w.filter \in Filter
    BY <1>0, <1>4 DEF WorkerOK, Idle, Asking, Paging, Opening
  <2>5. begin \in Items /\ begin.relay = k /\ begin.op = "begin"
    BY <2>2, <2>4, ItemTypes, ItemRelays
  <2>6. Events(k, items) /\ OfRelay(k, items)
    BY <1>4, LiveForm DEF Events
  <2>7. Heading(k, begin, items, answer)
    BY <2>3, <2>5, <2>6, StartsWith, Zenon
  <2>8. Harmless(k, answer)
    BY <1>4, <2>1, <2>2, <2>5, <2>7, OpenHarmless
  <2> QED BY <1>0, <2>8
<1>5. CASE w.pc \notin {"negentropy", "page", "widen", "open"}
  <2>1. answer = << >>
    BY <1>5 DEF Answers
  <2> QED BY <1>0, <2>1 DEF Harmless
<1> QED
  BY <1>1, <1>2, <1>3, <1>4, <1>5

LEMMA PartsHarmless ==
  ASSUME Typed, NEW k \in Relay, GapOf(k), NEW part \in Parts(k)
  PROVE  OfRelay(k, part) /\ Harmless(k, part)
<1>1. OfRelay(k, part) /\ Len(part) \in Nat
  BY PartsForm DEF OfRelay
<1>2. PICK answer \in Answers(k) :
        \A i \in 1 .. Len(part) : part[i] = answer[i] /\ i \in 1 .. Len(answer)
  BY PartsForm
<1>3. Harmless(k, answer)
  BY AnswersHarmless DEF GapOf
<1>4. SUFFICES ASSUME NEW c \in 1 .. Len(part)
               PROVE  /\ part[c].op # "commit"
                      /\ \A d \in Regular : part[c] = Deliver(k, d) /\ gen[k].live =>
                           Begun(k, Len(chan) + 1) \/ (1 < c /\ part[1] = Begin(k, "regular"))
  BY <1>1 DEF Harmless
<1>5. part[c] = answer[c] /\ c \in 1 .. Len(answer) /\ 1 \in 1 .. Len(part)
  BY <1>1, <1>2
<1>6. part[1] = answer[1]
  BY <1>2, <1>5
<1> QED BY <1>3, <1>5, <1>6 DEF Harmless

LEMMA DropGap ==
  ASSUME Typed, NEW k \in Relay, GapOf(k), Drop(k)
  PROVE  GapOf(k)'
<1>1. PICK part \in Parts(k) : EndSession(k, part)
  BY DEF Drop
<1>2. OfRelay(k, part) /\ Harmless(k, part)
  BY PartsHarmless
<1>3. UNCHANGED active /\ OnlyWorker /\ worker[k].pc # "stopped"
  BY DEF Drop
<1> QED BY <1>1, <1>2, <1>3, EndSessionGap

LEMMA ClosedGap ==
  ASSUME Typed, NEW k \in Relay, GapOf(k), Closed(k)
  PROVE  GapOf(k)'
<1>1. PICK left \in SUBSET active[k], part \in Parts(k) :
        /\ active' = [active EXCEPT ![k] = left]
        /\ Send(part \o <<Note("failed", k)>> \o (IF left = {} THEN <<Note("gaveUp", k)>> ELSE << >>))
        /\ SetWorker(k, IF left = {} THEN [pc |-> "stopped"] ELSE NoWorker)
  <2>1. PICK S \in SUBSET Requested(k) \ {{}} : \E v \in [S -> {"retry", "auth", "refused"}] :
          LET over == {f \in S : Terminal(budget[k][f], v[f])}
              left == active[k] \ over
          IN  /\ active' = [active EXCEPT ![k] = left]
              /\ \E part \in Parts(k) :
                   Send(part \o <<Note("failed", k)>> \o (IF left = {} THEN <<Note("gaveUp", k)>> ELSE << >>))
              /\ SetWorker(k, IF left = {} THEN [pc |-> "stopped"] ELSE NoWorker)
    BY DEF Closed
  <2>2. PICK v \in [S -> {"retry", "auth", "refused"}] :
          LET over == {f \in S : Terminal(budget[k][f], v[f])}
              left == active[k] \ over
          IN  /\ active' = [active EXCEPT ![k] = left]
              /\ \E part \in Parts(k) :
                   Send(part \o <<Note("failed", k)>> \o (IF left = {} THEN <<Note("gaveUp", k)>> ELSE << >>))
              /\ SetWorker(k, IF left = {} THEN [pc |-> "stopped"] ELSE NoWorker)
    BY <2>1
  <2> QED BY <2>2
<1>2. PICK cut, gone : cut = Note("failed", k) /\ gone = Note("gaveUp", k)
  OBVIOUS
<1>3. /\ cut \in Items /\ cut.relay = k /\ cut.op \notin {"commit", "event"}
      /\ gone \in Items /\ gone.relay = k /\ gone.op \notin {"commit", "event"}
  <2>1. "failed" \in {"caughtUp", "failed", "gaveUp"} /\ "gaveUp" \in {"caughtUp", "failed", "gaveUp"}
    OBVIOUS
  <2>2. cut \in Items /\ gone \in Items /\ cut.relay = k /\ gone.relay = k
    BY <1>2, <2>1, ItemTypes, ItemRelays
  <2>3. cut.op = "failed" /\ gone.op = "gaveUp"
    BY <1>2, ItemRelays
  <2> QED BY <2>2, <2>3
<1>4. PICK one, two, head : one = <<cut>> /\ two = <<gone>> /\ head = part \o one
  OBVIOUS
<1>5. OfRelay(k, head) /\ Harmless(k, head)
  <2>1. OfRelay(k, part) /\ Harmless(k, part)
    BY PartsHarmless
  <2> QED BY <1>3, <1>4, <2>1, HarmlessEnd, Zenon
<1>6. PICK w : w = IF left = {} THEN [pc |-> "stopped"] ELSE NoWorker
  OBVIOUS
<1>7. WorkerOK(w, clock) /\ w.pc \in {"down", "stopped"} /\ (w.pc = "down" => left # {})
  BY <1>6 DEF WorkerOK, NoWorker, Idle, Paging
<1>8. PICK sent : sent = head \o (IF left = {} THEN two ELSE << >>)
  OBVIOUS
<1>9. OfRelay(k, sent) /\ Harmless(k, sent)
  <2>1. CASE left = {}
    <3>1. sent = head \o two
      BY <1>8, <2>1
    <3> QED BY <1>3, <1>4, <1>5, <3>1, HarmlessEnd, Zenon
  <2>2. CASE left # {}
    <3>1. sent = head \o << >>
      BY <1>8, <2>2
    <3>2. sent = head
      BY <1>5, <3>1 DEF OfRelay
    <3> QED BY <1>5, <3>2
  <2> QED BY <2>1, <2>2
<1>10. Send(sent) /\ worker' = [worker EXCEPT ![k] = w] /\ OnlyWorker /\ left \in SUBSET Filter
  <2>1. Send(sent) /\ worker' = [worker EXCEPT ![k] = w]
    BY <1>1, <1>2, <1>4, <1>6, <1>8 DEF SetWorker
  <2> QED BY <2>1 DEF Closed, Typed
<1>11. WorkerMoves(k, sent, w, left)
  BY <1>1, <1>7, <1>9, <1>10 DEF WorkerMoves
<1> QED BY <1>7, <1>9, <1>11, EndsGap

(* A new regular catch-up begins with the last item sent.                  *)
LEMMA ResumeFollows ==
  ASSUME Typed, NEW k \in Relay, GapOf(k), NEW start \in Nat, start >= Start, start <= clock,
         start <= clock - lag + Lag, "regular" \in active[k],
         NEW items, WorkerMoves(k, items, CatchUp(k, "regular", start), active[k]),
         NEW b, b = Len(items), b > 0, items[b] = Begin(k, "regular")
  PROVE  Follows(k)'
<1>1. PICK w : w = CatchUp(k, "regular", start)
  OBVIOUS
<1>2. PICK since : since = ResumeSince(cursor[k], start)
  OBVIOUS
<1>3. w = [pc |-> "page", filter |-> "regular", start |-> start, since |-> since,
           until |-> 0, paged |-> FALSE, first |-> clock]
  BY <1>1, <1>2 DEF CatchUp
<1>4. /\ w.pc = "page" /\ w.filter = "regular" /\ w.start = start /\ w.since = since /\ w.until = 0
  BY <1>3
<1>5. WorkerMoves(k, items, w, active[k])
  BY <1>1
<1>6. CursorOf(k)
  BY DEF GapOf
<1>7. /\ Rooted(k, since)
      /\ \A e \in Event : Lost(k, e) /\ Anchored(k, e) => created[e] >= since
  BY <1>2, <1>6, Resumes
<1>8. Reopened(k)'
  <2>1. items \in Seq(Items) /\ Send(items) /\ gen'[k] = gen[k]
    BY <1>5, MovesSteady
  <2>2. b \in 1 .. Len(items) /\ \A c \in 1 .. Len(items) : ~(b < c)
    BY <2>1
  <2> QED BY <2>1, <2>2, ReopenedOn
<1>9. \A e \in Event : Stale(k, e) /\ Anchored(k, e) => created[e] >= w.since
  BY <1>4, <1>7 DEF Stale
<1>10. Rooted(k, w.since)
  BY <1>4, <1>7
<1>11. /\ w.pc # "stopped" /\ w.pc # "open" /\ w.pc # "live" /\ w.pc # "widen" /\ active[k] # {}
       /\ w.pc \in {"page", "widen"} /\ w.pc \in {"negentropy", "page", "widen", "open"}
  BY <1>4
<1> QED BY <1>4, <1>5, <1>8, <1>9, <1>10, <1>11, MovesFollows

(* Items that end with a commit and a last item.                           *)
Closing(k, s, a, b, u) ==
  /\ OfRelay(k, u) /\ Len(u) = Len(s) + 2 /\ Len(s) \in Nat
  /\ u[Len(s) + 1] = a /\ u[Len(s) + 2] = b
  /\ \A i \in 1 .. Len(s) : u[i] = s[i]
  /\ \A i \in 1 .. Len(u) : i \in 1 .. Len(s) \/ i = Len(s) + 1 \/ i = Len(s) + 2

LEMMA ClosesWith ==
  ASSUME NEW k \in Relay, NEW a \in Items, a.relay = k, NEW b \in Items, b.relay = k,
         NEW s, OfRelay(k, s), NEW u, u = (s \o <<a>>) \o <<b>>
  PROVE  Closing(k, s, a, b, u)
<1>1. PICK one : one = <<a>>
  OBVIOUS
<1>2. PICK two : two = <<b>>
  OBVIOUS
<1>3. PICK t : t = s \o one
  OBVIOUS
<1>4. u = t \o two
  BY <1>1, <1>2, <1>3
<1>5. Ending(k, s, a, t)
  BY <1>1, <1>3, EndsWith, Zenon
<1>6. OfRelay(k, t)
  BY <1>5 DEF Ending
<1>7. Ending(k, t, b, u)
  BY <1>2, <1>4, <1>6, EndsWith, Zenon
<1>8. /\ Len(t) = Len(s) + 1 /\ Len(s) \in Nat /\ t[Len(s) + 1] = a
      /\ \A i \in 1 .. Len(s) : t[i] = s[i]
      /\ \A i \in 1 .. Len(t) : i \in 1 .. Len(s) \/ i = Len(s) + 1
  BY <1>5, Zenon DEF Ending
<1>9. /\ OfRelay(k, u) /\ Len(u) = Len(t) + 1 /\ u[Len(t) + 1] = b
      /\ \A i \in 1 .. Len(t) : u[i] = t[i]
      /\ \A i \in 1 .. Len(u) : i \in 1 .. Len(t) \/ i = Len(t) + 1
  BY <1>7, Zenon DEF Ending
<1> HIDE <1>1, <1>2, <1>3, <1>4
<1>10. /\ Len(u) = Len(s) + 2 /\ Len(s) + 1 \in 1 .. Len(t) /\ Len(t) + 1 = Len(s) + 2
       /\ \A i \in 1 .. Len(s) : i \in 1 .. Len(t)
  BY <1>8, <1>9
<1>11. u[Len(s) + 1] = a /\ u[Len(s) + 2] = b
  BY <1>8, <1>9, <1>10
<1>12. \A i \in 1 .. Len(s) : u[i] = s[i]
  BY <1>8, <1>9, <1>10
<1>13. \A i \in 1 .. Len(u) : i \in 1 .. Len(s) \/ i = Len(s) + 1 \/ i = Len(s) + 2
  BY <1>8, <1>9, <1>10
<1> QED BY <1>8, <1>9, <1>10, <1>11, <1>12, <1>13 DEF Closing

(* A catch-up is complete: the commit comes behind all that is stale in    *)
(* the window.                                                             *)
LEMMA CaughtGap ==
  ASSUME Typed, NEW k \in Relay, GapOf(k), worker[k].pc \in {"negentropy", "page", "widen"},
         NEW items, Events(k, items), Harmless(k, items), NEW floor \in Nat,
         Caught(k, items, floor),
         worker[k].filter = "regular" =>
           /\ floor = worker[k].since
           /\ \A e \in Event : Stale(k, e) /\ created[e] >= worker[k].since =>
                Behind(items, k, e, Len(items) + 1)
  PROVE  GapOf(k)'
<1>v. PICK v : v = worker[k]
  OBVIOUS
<1>1. /\ v.filter \in Filter /\ v.start \in Nat /\ v.start >= Start /\ v.start <= clock
      /\ v.filter \in active[k] /\ v.start <= clock - lag + Lag
      /\ v.filter = "regular" => v.pc \in {"page", "widen"}
  <2>1. WorkerOK(v, clock)
    BY <1>v DEF Typed
  <2>2. v \notin Idle /\ v \notin Opening
    BY <1>v DEF Idle, Opening
  <2>3. v \in Asking \cup Paging
    BY <2>1, <2>2 DEF WorkerOK
  <2>4. v.filter \in Filter /\ v.start \in Nat /\ (v.filter = "regular" => v.pc \in {"page", "widen"})
    BY <2>3, FilterIs DEF Asking, Paging
  <2>5. v.start >= Start /\ v.start <= clock
    BY <2>1, <2>2 DEF WorkerOK
  <2>6. CatchingUp(k)
    BY DEF CatchingUp
  <2>7. v.filter \in active[k] /\ v.start <= clock - lag + Lag
    BY <1>v, <2>6 DEF GapOf, Follows
  <2> QED BY <2>4, <2>5, <2>7
<1>2. v.filter = "status" \/ v.filter = "regular"
  BY <1>1, FilterIs
<1>3. PICK commit : commit = Commit(k, v.filter, floor)
  OBVIOUS
<1>4. commit \in Items /\ commit.relay = k /\ commit.op = "commit" /\ commit.filter = v.filter
      /\ commit.floor = floor
  BY <1>1, <1>3, ItemTypes DEF Commit
<1>5. PICK last : last = IF HasNext(k, v.filter) THEN Begin(k, "regular") ELSE Note("caughtUp", k)
  OBVIOUS
<1>6. last \in Items /\ last.relay = k /\ last.op \in {"begin", "caughtUp"}
  <2>1. /\ Begin(k, "regular") \in Items /\ Begin(k, "regular").relay = k
        /\ Begin(k, "regular").op = "begin"
    BY FilterIs, ItemTypes, ItemRelays
  <2>2. /\ Note("caughtUp", k) \in Items /\ Note("caughtUp", k).relay = k
        /\ Note("caughtUp", k).op = "caughtUp"
    BY ItemTypes, ItemRelays
  <2> QED BY <1>5, <2>1, <2>2
<1>7. PICK sent : sent = (items \o <<commit>>) \o <<last>>
  OBVIOUS
<1>8. PICK w : w = IF HasNext(k, v.filter) THEN CatchUp(k, "regular", v.start)
                   ELSE [pc |-> "open", filter |-> First(k), start |-> v.start]
  OBVIOUS
<1>9. Send(sent) /\ worker' = [worker EXCEPT ![k] = w] /\ UNCHANGED active /\ OnlyWorker
  BY <1>v, <1>3, <1>5, <1>7, <1>8 DEF Caught, SetWorker
<1>10. OfRelay(k, items)
  BY DEF Events
<1>11. Closing(k, items, commit, last, sent)
  BY <1>4, <1>6, <1>7, <1>10, ClosesWith, Zenon
<1>12. /\ OfRelay(k, sent) /\ Len(sent) = Len(items) + 2 /\ Len(items) \in Nat
       /\ sent[Len(items) + 1] = commit /\ sent[Len(items) + 2] = last
       /\ \A i \in 1 .. Len(items) : sent[i] = items[i]
       /\ \A i \in 1 .. Len(sent) : i \in 1 .. Len(items) \/ i = Len(items) + 1 \/ i = Len(items) + 2
  BY <1>11, Zenon DEF Closing
<1>13. WorkerOK(w, clock)
  <2>1. CASE HasNext(k, v.filter)
    BY <1>1, <1>8, <2>1, CatchUpType, FilterIs
  <2>2. CASE ~HasNext(k, v.filter)
    <3>1. w = [pc |-> "open", filter |-> First(k), start |-> v.start] /\ First(k) \in Filter
      BY <1>8, <2>2, FilterIs DEF First
    <3> QED BY <1>1, <3>1 DEF WorkerOK, Opening, Paging, Idle
  <2> QED BY <2>1, <2>2
<1>14. WorkerMoves(k, sent, w, active[k])
  BY <1>9, <1>12, <1>13 DEF WorkerMoves, Typed
<1>15. ASSUME v.filter = "regular", NEW e \in Event, Stale(k, e), created[e] >= v.since,
              NEW c \in Nat, c > Len(items)
       PROVE  Behind(sent, k, e, c)
  <2>1. Reached(k, e) \/ \E j \in 1 .. Len(items) : items[j] = Deliver(k, e)
    BY <1>v, <1>15 DEF Behind, Carries
  <2>2. ASSUME NEW j \in 1 .. Len(items), items[j] = Deliver(k, e) PROVE Carries(sent, k, e, c)
    <3>1. j \in 1 .. Len(sent) /\ j < c /\ sent[j] = Deliver(k, e)
      BY <1>12, <1>15, <2>2
    <3> QED BY <3>1 DEF Carries
  <2> QED BY <2>1, <2>2 DEF Behind
<1>16. v.filter = "regular" =>
         /\ floor = v.since /\ Rooted(k, v.since)
         /\ \A e \in Event : Stale(k, e) /\ Anchored(k, e) => created[e] >= v.since
  BY <1>v, <1>1 DEF GapOf, Follows, Window
<1>17. SoundCommits(k, sent)
  <2>1. SUFFICES ASSUME NEW c \in 1 .. Len(sent), IsCommit(k, sent[c]) PROVE SoundCommit(k, sent, c)
    BY DEF SoundCommits
  <2>2. c = Len(items) + 1 /\ v.filter = "regular"
    <3>1. \A i \in 1 .. Len(items) : items[i].op # "commit"
      BY DEF Harmless
    <3>2. last.op # "commit"
      BY <1>6
    <3> QED BY <1>4, <1>12, <2>1, <3>1, <3>2 DEF IsCommit
  <2>3. c \in Nat /\ c > Len(items) /\ sent[c].floor = v.since
    BY <1>4, <1>12, <1>16, <2>2
  <2>4. \A e \in Event : Stale(k, e) /\ created[e] >= v.since => Behind(sent, k, e, c)
    BY <1>15, <2>2, <2>3
  <2>5. \A e \in Event : Stale(k, e) /\ Anchored(k, e) => Behind(sent, k, e, c)
    BY <1>16, <2>2, <2>4
  <2>6. Rooted(k, sent[c].floor)
    BY <1>16, <2>2, <2>3
  <2> QED BY <2>3, <2>4, <2>5, <2>6 DEF SoundCommit
<1>18. SoundEvents(k, sent)
  <2>1. SUFFICES ASSUME gen[k].live, NEW c \in 1 .. Len(sent), NEW d \in Regular,
                        sent[c] = Deliver(k, d)
                 PROVE  \/ Begun(k, Len(chan) + 1)
                        \/ \E j \in 1 .. Len(sent) : j < c /\ sent[j] = Begin(k, "regular")
    BY DEF SoundEvents
  <2>2. Deliver(k, d).op = "event"
    BY ItemRelays
  <2>3. c \in 1 .. Len(items) /\ items[c] = Deliver(k, d)
    <3>1. sent[c] # commit /\ sent[c] # last
      BY <1>4, <1>6, <2>1, <2>2
    <3> QED BY <1>12, <2>1, <3>1
  <2>4. Begun(k, Len(chan) + 1) \/ (1 < c /\ items[1] = Begin(k, "regular"))
    BY <2>1, <2>3 DEF Harmless
  <2>5. 1 \in 1 .. Len(items) /\ 1 \in 1 .. Len(sent) /\ sent[1] = items[1]
    BY <1>12, <2>3
  <2> QED BY <2>4, <2>5
<1>19. Follows(k)'
  <2>1. CASE HasNext(k, v.filter)
    <3>1. "regular" \in active[k] /\ last = Begin(k, "regular") /\ w = CatchUp(k, "regular", v.start)
      BY <1>5, <1>8, <2>1 DEF HasNext
    <3>2. WorkerMoves(k, sent, CatchUp(k, "regular", v.start), active[k])
      BY <1>14, <3>1
    <3>3. PICK b : b = Len(sent)
      OBVIOUS
    <3>4. b > 0 /\ sent[b] = Begin(k, "regular")
      BY <1>12, <3>1, <3>3
    <3> QED BY <1>1, <3>1, <3>2, <3>3, <3>4, ResumeFollows
  <2>2. CASE ~HasNext(k, v.filter)
    <3>1. w = [pc |-> "open", filter |-> First(k), start |-> v.start] /\ last = Note("caughtUp", k)
      BY <1>5, <1>8, <2>2
    <3>2. /\ w.pc = "open" /\ w.filter = First(k) /\ w.start = v.start
          /\ w.pc \in {"negentropy", "page", "widen", "open"} /\ w.pc \notin {"page", "widen"}
          /\ w.pc # "live" /\ active[k] # {}
      BY <1>1, <3>1
    <3>3. First(k) \in active[k]
      BY <1>1, <1>2 DEF First
    <3>4. "regular" \in active[k] => v.filter = "regular"
      BY <1>2, <2>2 DEF HasNext
    <3>5. AtEnd(k)'
      <4>1. /\ chan \in Seq(Items) /\ sent \in Seq(Items)
        BY <1>12 DEF OfRelay, Typed
      <4>2. /\ Len(chan') = Len(chan) + Len(sent) /\ Len(chan) \in Nat
            /\ \A i \in 1 .. Len(sent) : chan'[Len(chan) + i] = sent[i]
        BY <1>9, <4>1, Appended
      <4>3. PICK n : n = Len(chan')
        OBVIOUS
      <4>4. n \in 1 .. Len(chan') /\ chan'[n] = Note("caughtUp", k) /\ n < n + 1
        <5>1. Len(sent) \in 1 .. Len(sent) /\ sent[Len(sent)] = Note("caughtUp", k)
          BY <1>12, <3>1
        <5>2. n = Len(chan) + Len(sent) /\ n \in 1 .. n /\ n < n + 1
          BY <1>12, <4>2, <4>3
        <5> QED BY <4>2, <4>3, <5>1, <5>2
      <4>5. \A j \in 1 .. Len(chan') : ~(n < j /\ j < n + 1)
        BY <4>3, <4>4
      <4>6. Known(k, n + 1)'
        BY <4>4, <4>5 DEF Known, Note
      <4> QED BY <4>3, <4>6 DEF AtEnd
    <3>6. ASSUME "regular" \in active[k], NEW e \in Event, Stale(k, e), Anchored(k, e)
          PROVE  Behind(sent, k, e, Len(sent) + 1)
      <4>1. v.filter = "regular" /\ created[e] >= v.since
        BY <1>16, <3>4, <3>6
      <4>2. Len(sent) + 1 \in Nat /\ Len(sent) + 1 > Len(items)
        BY <1>12
      <4> QED BY <1>15, <3>6, <4>1, <4>2
    <3> QED BY <1>1, <1>14, <3>2, <3>3, <3>5, <3>6, MovesFollows
  <2> QED BY <2>1, <2>2
<1> QED BY <1>14, <1>17, <1>18, <1>19, MovesGap

LEMMA ConnectGap ==
  ASSUME Typed, lag \in 0 .. Lag, NEW k \in Relay, GapOf(k), Connect(k)
  PROVE  GapOf(k)'
<1>1. PICK f : f = First(k)
  OBVIOUS
<1>2. /\ worker[k].pc = "down" /\ worker' = [worker EXCEPT ![k] = CatchUp(k, f, clock)]
      /\ Send(<<Begin(k, f)>>) /\ UNCHANGED active /\ OnlyWorker
  BY <1>1 DEF Connect, SetWorker
<1>3. active[k] # {} /\ active[k] \in SUBSET Filter
  BY <1>2 DEF GapOf, Follows, Typed
<1>4. f \in active[k] /\ (f = "status" \/ f = "regular") /\ f \in Filter
  BY <1>1, <1>3, FilterIs DEF First
<1>5. PICK now : now = clock
  OBVIOUS
<1>6. now \in Nat /\ now >= Start /\ now <= clock /\ now <= clock - lag + Lag
  BY <1>5, Constants DEF Typed
<1>7. PICK w : w = CatchUp(k, f, now)
  OBVIOUS
<1>8. /\ WorkerOK(w, clock) /\ w.start = now /\ w.filter = f
      /\ w.pc = IF f = "status" THEN "negentropy" ELSE "page"
  BY <1>4, <1>6, <1>7, CatchUpType
<1>9. PICK sent : sent = <<Begin(k, f)>>
  OBVIOUS
<1>10. Begin(k, f) \in Items /\ Begin(k, f).relay = k /\ Begin(k, f).op = "begin"
  BY <1>4, ItemTypes, ItemRelays
<1>11. OfRelay(k, sent) /\ Len(sent) = 1 /\ sent[1] = Begin(k, f)
  BY <1>9, <1>10, OneItem
<1>12. WorkerMoves(k, sent, w, active[k])
  BY <1>2, <1>3, <1>5, <1>7, <1>8, <1>9, <1>11 DEF WorkerMoves, Typed
<1>13. Harmless(k, sent)
  <2>1. \A d : Deliver(k, d).op = "event"
    BY ItemRelays
  <2> QED BY <1>10, <1>11, <2>1 DEF Harmless
<1>14. Follows(k)'
  <2>1. CASE f = "status"
    <3>1. /\ w.pc = "negentropy" /\ w.pc \in {"negentropy", "page", "widen", "open"}
          /\ w.pc \notin {"page", "widen"} /\ w.pc # "open" /\ w.pc # "live"
      BY <1>8, <2>1
    <3> QED BY <1>3, <1>4, <1>6, <1>8, <1>12, <3>1, MovesFollows
  <2>2. CASE f = "regular"
    <3>1. WorkerMoves(k, sent, CatchUp(k, "regular", now), active[k]) /\ sent[1] = Begin(k, "regular")
      BY <1>7, <1>11, <1>12, <2>2
    <3>2. PICK b : b = Len(sent)
      OBVIOUS
    <3>3. b > 0 /\ sent[b] = Begin(k, "regular") /\ "regular" \in active[k]
      BY <1>4, <1>11, <2>2, <3>1, <3>2
    <3> QED BY <1>6, <3>1, <3>2, <3>3, ResumeFollows
  <2> QED BY <1>4, <2>1, <2>2
<1>15. sent \in Seq(Items)
  BY <1>11 DEF OfRelay
<1> QED BY <1>12, <1>13, <1>14, <1>15, HarmlessSound, MovesGap

LEMMA NegentropyGap ==
  ASSUME Typed, NEW k \in Relay, GapOf(k), Negentropy(k)
  PROVE  GapOf(k)'
<1> DEFINE S == Matching(k, "status", 0, 0) \ held
<1>1. PICK items \in Deliveries(k, S) : Caught(k, items, 0)
  BY DEF Negentropy
<1>2. worker[k].pc = "negentropy" /\ WorkerOK(worker[k], clock)
  BY DEF Negentropy, Typed
<1>3. worker[k].filter = "status"
  BY <1>2 DEF WorkerOK, Idle, Asking, Paging, Opening
<1>4. S \in SUBSET Event /\ \A e \in S : FilterOf(e) = worker[k].filter
  BY <1>3 DEF Matching, Typed
<1>5. worker[k].pc \in {"negentropy", "page", "widen"} /\ worker[k].filter # "regular" /\ 0 \in Nat
  BY <1>2, <1>3
<1> HIDE DEF S
<1>6. Events(k, items) /\ Harmless(k, items)
  BY <1>4, <1>5, AskedHarmless DEF GapOf
<1> QED BY <1>1, <1>5, <1>6, CaughtGap

LEMMA UnavailableGap ==
  ASSUME Typed, NEW k \in Relay, GapOf(k), NegentropyUnavailable(k)
  PROVE  GapOf(k)'
<1>1. PICK st : st = worker[k].start
  OBVIOUS
<1>2. PICK w : w = [pc |-> "page", filter |-> "status", start |-> st,
                    since |-> 0, until |-> 0, paged |-> FALSE, first |-> clock]
  OBVIOUS
<1>3. /\ worker[k].pc = "negentropy" /\ worker' = [worker EXCEPT ![k] = w]
      /\ UNCHANGED <<active, chan>> /\ OnlyWorker
  BY <1>1, <1>2 DEF NegentropyUnavailable, SetWorker
<1>4. st \in Nat /\ st >= Start /\ st <= clock /\ clock \in Nat /\ worker[k].filter = "status"
  BY <1>1, <1>3 DEF Typed, WorkerOK, Idle, Asking, Paging, Opening
<1>5. w \in Paging /\ w.pc = "page" /\ w.filter = "status" /\ w.start = st /\ w.since = 0
  BY <1>2, <1>4, FilterIs DEF Paging
<1>6. WorkerOK(w, clock)
  BY <1>4, <1>5 DEF WorkerOK, Idle
<1>7. OfRelay(k, << >>) /\ Len(<< >>) = 0 /\ Send(<< >>)
  <2>1. chan' = chan \o << >>
    BY <1>3 DEF Typed
  <2> QED BY <2>1 DEF OfRelay, Send
<1>8. PICK none : none = << >>
  OBVIOUS
<1>9. WorkerMoves(k, none, w, active[k]) /\ none \in Seq(Items) /\ Harmless(k, none)
  BY <1>3, <1>6, <1>7, <1>8 DEF WorkerMoves, Typed, Harmless
<1>10. CatchingUp(k)
  BY <1>3 DEF CatchingUp
<1>11. "status" \in active[k] /\ st <= clock - lag + Lag
  BY <1>1, <1>4, <1>10 DEF GapOf, Follows
<1>12. /\ w.pc \in {"negentropy", "page", "widen", "open"} /\ w.pc # "open" /\ w.pc # "live"
       /\ w.filter # "regular" /\ active[k] # {}
  BY <1>5, <1>11
<1>13. Follows(k)'
  BY <1>5, <1>9, <1>11, <1>12, MovesFollows
<1> QED BY <1>9, <1>13, HarmlessSound, MovesGap

(* What is stale in the window and above the next page, once this one is   *)
(* sent, was reached before or is part of this one.  A page within one     *)
(* second leaves out only seconds that more than a page shares.            *)
LEMMA PageReaches ==
  ASSUME Typed, NEW k \in Relay, worker[k].pc = "page", worker[k].filter = "regular", Window(k),
         NEW P \in Pages(Matching(k, worker[k].filter, worker[k].since, worker[k].until)),
         NEW items \in Deliveries(k, P), NEW e \in Event, Stale(k, e), created[e] >= worker[k].since,
         \/ Cardinality(P) < PageLimit
         \/ /\ Cardinality(P) = PageLimit
            /\ created[e] > NextUntil(worker[k], P) \/ NextUntil(worker[k], P) = 0
  PROVE  Behind(items, k, e, Len(items) + 1)
<1>v. PICK v : v = worker[k]
  OBVIOUS
<1> DEFINE M == Matching(k, v.filter, v.since, v.until)
           oldest == Min({created[d] : d \in P})
<1>1. v.until \in Nat /\ v.since \in Nat
  <2>1. WorkerOK(v, clock) /\ v.pc = "page"
    BY <1>v DEF Typed
  <2> QED BY <2>1 DEF WorkerOK, Idle, Asking, Paging, Opening
<1>2. /\ P \in SUBSET Event /\ P \subseteq M
      /\ Cardinality(P) < PageLimit => P = M
      /\ Cardinality(P) = PageLimit =>
           /\ oldest \in Nat /\ oldest > 0
           /\ \A d \in P : oldest <= created[d]
           /\ \A d \in M \ P : created[d] <= oldest
  BY <1>v, PageFacts
<1>3. /\ e \in at[k] /\ FilterOf(e) = "regular" /\ created[e] \in Nat /\ created[e] > 0
      /\ Sharing(k, e) <= PageLimit /\ at[k] \subseteq Event
  BY DEF Stale, Lost, FilterOf, Typed
<1>4. CASE v.until # 0 /\ created[e] > v.until
  BY <1>v, <1>4 DEF Window, Behind
<1>5. CASE e \in P
  <2>1. PICK i \in 1 .. Len(items) : items[i] = Deliver(k, e)
    BY <1>2, <1>5, DeliveriesAre
  <2>2. i < Len(items) + 1
    <3>1. items \in Seq(Items)
      BY <1>2, DeliveriesAre
    <3> QED BY <3>1
  <2> QED BY <2>1, <2>2 DEF Behind, Carries
<1>6. CASE e \notin P /\ ~(v.until # 0 /\ created[e] > v.until)
  <2>1. e \in M
    BY <1>v, <1>1, <1>3, <1>6 DEF Matching
  <2>2. /\ Cardinality(P) = PageLimit
        /\ created[e] > NextUntil(v, P) \/ NextUntil(v, P) = 0
    BY <1>v, <1>2, <1>6, <2>1
  <2>3. created[e] <= oldest /\ oldest \in Nat /\ oldest > 0
    BY <1>2, <1>6, <2>1, <2>2
  <2>4. NextUntil(v, P) = LET next == IF v.until # 0 /\ oldest >= v.until THEN v.until - 1 ELSE oldest
                          IN  IF next <= 0 \/ next < v.since THEN 0 ELSE next
    BY DEF NextUntil
  <2>5. CASE ~(v.until # 0 /\ oldest >= v.until)
    <3>1. NextUntil(v, P) = IF oldest <= 0 \/ oldest < v.since THEN 0 ELSE oldest
      BY <2>4, <2>5
    <3> HIDE DEF oldest
    <3>2. created[e] >= v.since
      BY <1>v
    <3> QED BY <1>1, <1>3, <2>2, <2>3, <3>1, <3>2
  <2>6. CASE v.until # 0 /\ oldest >= v.until
    <3>1. \A d \in P : created[d] = v.until /\ FilterOf(d) = "regular" /\ d \in at[k]
      <4> TAKE d \in P
      <4>1. /\ d \in at[k] /\ FilterOf(d) = "regular"
            /\ v.until = 0 \/ created[d] <= v.until
        BY <1>v, <1>2 DEF Matching
      <4>2. oldest <= created[d] /\ created[d] \in Nat
        BY <1>2, <2>2, <4>1 DEF Typed
      <4> HIDE DEF oldest
      <4> QED BY <1>1, <2>3, <2>6, <4>1, <4>2
    <3>2. created[e] # v.until
      <4> SUFFICES ASSUME created[e] = v.until PROVE FALSE
        OBVIOUS
      <4> DEFINE T == {d \in at[k] : FilterOf(d) = FilterOf(e) /\ created[d] = created[e]}
      <4>1. P \cup {e} \subseteq T
        BY <1>3, <3>1
      <4>2. IsFiniteSet(T) /\ IsFiniteSet(P)
        BY <1>2, <1>3, Constants, FS_Subset
      <4>3. Cardinality(P \cup {e}) = PageLimit + 1
        BY <1>6, <2>2, <4>2, FS_AddElement
      <4>4. Cardinality(P \cup {e}) <= Cardinality(T)
        BY <4>1, <4>2, FS_Subset
      <4>5. Cardinality(T) \in Nat /\ Sharing(k, e) = Cardinality(T)
        BY <4>2, FS_CardinalityType DEF Sharing
      <4> HIDE DEF T
      <4> QED BY <1>3, <4>3, <4>4, <4>5, Constants
    <3>3. created[e] <= v.until - 1 /\ created[e] >= v.since
      BY <1>v, <1>1, <1>3, <1>6, <2>6, <3>2
    <3>4. NextUntil(v, P) = IF v.until - 1 <= 0 \/ v.until - 1 < v.since THEN 0 ELSE v.until - 1
      BY <2>4, <2>6
    <3> HIDE DEF oldest
    <3> QED BY <1>1, <1>3, <2>2, <3>3, <3>4
  <2> QED BY <2>5, <2>6
<1> QED BY <1>4, <1>5, <1>6

(* A page goes out, and the worker goes on with the rest of its window.    *)
LEMMA PagedGap ==
  ASSUME Typed, NEW k \in Relay, GapOf(k), NEW items, Events(k, items), Harmless(k, items),
         Send(items), worker[k].pc = "page", NEW pc \in {"page", "widen"}, NEW until \in Nat,
         NEW paged \in BOOLEAN,
         NEW w, w = [worker[k] EXCEPT !.pc = pc, !.until = until, !.paged = paged],
         SetWorker(k, w), UNCHANGED active, OnlyWorker,
         worker[k].filter = "regular" =>
           \A e \in Event : /\ Stale(k, e) /\ created[e] >= worker[k].since
                            /\ pc = "widen" \/ (until # 0 /\ created[e] > until)
                            => Behind(items, k, e, Len(items) + 1)
  PROVE  GapOf(k)'
<1>v. PICK v : v = worker[k]
  OBVIOUS
<1>1. v \in Paging /\ WorkerOK(v, clock)
  BY <1>v DEF Typed, WorkerOK, Idle, Asking, Opening
<1>2. w = [v EXCEPT !.pc = pc, !.until = until, !.paged = paged]
  BY <1>v
<1>3. /\ w \in Paging /\ w.pc = pc /\ w.until = until /\ w.filter = v.filter
      /\ w.start = v.start /\ w.since = v.since
  BY <1>1, <1>2 DEF Paging
<1>4. WorkerOK(w, clock)
  BY <1>1, <1>3 DEF WorkerOK, Idle, Paging
<1>5. WorkerMoves(k, items, w, active[k])
  BY <1>4 DEF WorkerMoves, Events, SetWorker, Typed
<1>6. items \in Seq(Items) /\ gen'[k] = gen[k]
  BY <1>5, MovesSteady
<1>7. v.filter \in active[k] /\ v.start <= clock - lag + Lag
  <2>1. CatchingUp(k)
    BY DEF CatchingUp
  <2> QED BY <1>v, <2>1 DEF GapOf, Follows
<1>8. ASSUME v.filter = "regular"
      PROVE  /\ Reopened(k)' /\ Rooted(k, v.since)
             /\ \A e \in Event : Stale(k, e) /\ Anchored(k, e) => created[e] >= v.since
  <2>1. Window(k)
    BY <1>v, <1>8 DEF GapOf, Follows
  <2>2. \A c \in 1 .. Len(items) : ~IsCommit(k, items[c])
    BY DEF Harmless, IsCommit
  <2>3. Reopened(k)'
    BY <1>6, <2>1, <2>2, ReopenedOn DEF Window
  <2> QED BY <1>v, <2>1, <2>3 DEF Window
<1>9. pc # "stopped" /\ pc # "open" /\ pc # "live" /\ active[k] # {}
  BY <1>7
<1>10. Follows(k)'
  BY <1>v, <1>3, <1>5, <1>7, <1>8, <1>9, MovesFollows
<1> QED BY <1>5, <1>6, <1>10, HarmlessSound, MovesGap

LEMMA PageGap ==
  ASSUME Typed, NEW k \in Relay, GapOf(k), Page(k)
  PROVE  GapOf(k)'
<1> DEFINE v == worker[k]
<1>1. v.pc = "page"
  BY DEF Page
<1>2. PICK P \in Pages(Matching(k, v.filter, v.since, v.until)) : \E items \in Deliveries(k, P) :
         \/ /\ Cardinality(P) < PageLimit
            /\ \/ ~v.paged /\ Caught(k, items, Floor(v))
               \/ /\ v.paged
                  /\ Send(items) /\ SetWorker(k, [v EXCEPT !.pc = "widen"])
                  /\ OnlyWorker /\ UNCHANGED <<active, budget, faults>>
         \/ /\ Cardinality(P) = PageLimit
            /\ \/ /\ Overfull(v, P) /\ v.filter = "status"
                  /\ EndSession(k, items)
               \/ /\ ~(Overfull(v, P) /\ v.filter = "status")
                  /\ Send(items)
                  /\ SetWorker(k, IF NextUntil(v, P) = 0
                                  THEN [v EXCEPT !.pc = "widen", !.paged = TRUE]
                                  ELSE [v EXCEPT !.until = NextUntil(v, P), !.paged = TRUE])
            /\ OnlyWorker /\ UNCHANGED <<active, budget, faults>>
  BY DEF Page
<1>3. PICK items \in Deliveries(k, P) :
         \/ /\ Cardinality(P) < PageLimit
            /\ \/ ~v.paged /\ Caught(k, items, Floor(v))
               \/ /\ v.paged
                  /\ Send(items) /\ SetWorker(k, [v EXCEPT !.pc = "widen"])
                  /\ OnlyWorker /\ UNCHANGED <<active, budget, faults>>
         \/ /\ Cardinality(P) = PageLimit
            /\ \/ EndSession(k, items)
               \/ /\ Send(items)
                  /\ SetWorker(k, IF NextUntil(v, P) = 0
                                  THEN [v EXCEPT !.pc = "widen", !.paged = TRUE]
                                  ELSE [v EXCEPT !.until = NextUntil(v, P), !.paged = TRUE])
            /\ OnlyWorker /\ UNCHANGED <<active, budget, faults>>
  BY <1>2
<1>4. /\ v \in Paging /\ v.until \in Nat /\ v.paged \in BOOLEAN
      /\ Floor(v) \in Nat /\ (v.filter = "regular" => Floor(v) = v.since)
  <2>1. v \in Paging
    BY <1>1 DEF Typed, WorkerOK, Idle, Asking, Opening
  <2> QED BY <1>1, <2>1 DEF Paging, Floor
<1>5. /\ P \in SUBSET Event /\ P \subseteq Matching(k, v.filter, v.since, v.until)
      /\ Cardinality(P) = PageLimit => NextUntil(v, P) \in Nat
  BY <1>1, PageFacts
<1>6. Events(k, items) /\ Harmless(k, items)
  <2>1. \A e \in P : FilterOf(e) = v.filter
    BY <1>5 DEF Matching
  <2>2. v.pc \in {"negentropy", "page", "widen"} /\ Follows(k)
    BY <1>1 DEF GapOf
  <2> QED BY <1>5, <2>1, <2>2, AskedHarmless
<1>7. ASSUME v.filter = "regular", NEW e \in Event, Stale(k, e), created[e] >= v.since,
             \/ Cardinality(P) < PageLimit
             \/ /\ Cardinality(P) = PageLimit
                /\ created[e] > NextUntil(v, P) \/ NextUntil(v, P) = 0
      PROVE  Behind(items, k, e, Len(items) + 1)
  <2>1. Window(k)
    BY <1>1, <1>7 DEF GapOf, Follows
  <2> QED BY <1>1, <1>7, <2>1, PageReaches
<1>8. CASE Cardinality(P) < PageLimit /\ Caught(k, items, Floor(v))
  <2>1. v.pc \in {"negentropy", "page", "widen"}
    BY <1>1
  <2>2. v.filter = "regular" =>
          /\ Floor(v) = v.since
          /\ \A e \in Event : Stale(k, e) /\ created[e] >= v.since =>
               Behind(items, k, e, Len(items) + 1)
    BY <1>4, <1>7, <1>8
  <2> QED BY <1>4, <1>6, <1>8, <2>1, <2>2, CaughtGap
<1>9. CASE /\ Cardinality(P) < PageLimit /\ Send(items)
           /\ SetWorker(k, [v EXCEPT !.pc = "widen"])
           /\ OnlyWorker /\ UNCHANGED <<active, budget, faults>>
  <2>1. PICK w : w = [v EXCEPT !.pc = "widen", !.until = v.until, !.paged = v.paged]
    OBVIOUS
  <2>2. w = [v EXCEPT !.pc = "widen"]
    <3> HIDE DEF v
    <3> QED BY <1>4, <2>1 DEF Paging
  <2>3. SetWorker(k, w)
    BY <1>9, <2>2
  <2>4. v.filter = "regular" => \A e \in Event : Stale(k, e) /\ created[e] >= v.since =>
          Behind(items, k, e, Len(items) + 1)
    BY <1>7, <1>9
  <2> QED BY <1>1, <1>4, <1>6, <1>9, <2>1, <2>3, <2>4, PagedGap
<1>10. CASE /\ Cardinality(P) = PageLimit /\ EndSession(k, items)
            /\ OnlyWorker /\ UNCHANGED <<active, budget, faults>>
  BY <1>1, <1>6, <1>10, EndSessionGap DEF Events
<1>11. CASE /\ Cardinality(P) = PageLimit
            /\ Send(items)
            /\ SetWorker(k, IF NextUntil(v, P) = 0
                            THEN [v EXCEPT !.pc = "widen", !.paged = TRUE]
                            ELSE [v EXCEPT !.until = NextUntil(v, P), !.paged = TRUE])
            /\ OnlyWorker /\ UNCHANGED <<active, budget, faults>>
  <2>0. PICK n : n = NextUntil(v, P)
    OBVIOUS
  <2>1. n \in Nat
    BY <1>5, <1>11, <2>0
  <2>2. CASE n = 0
    <3>1. PICK w : w = [v EXCEPT !.pc = "widen", !.until = v.until, !.paged = TRUE]
      OBVIOUS
    <3>2. w = [v EXCEPT !.pc = "widen", !.paged = TRUE]
      <4> HIDE DEF v
      <4> QED BY <1>4, <3>1 DEF Paging
    <3>3. SetWorker(k, w)
      BY <1>11, <2>0, <2>2, <3>2
    <3>4. v.filter = "regular" => \A e \in Event : Stale(k, e) /\ created[e] >= v.since =>
            Behind(items, k, e, Len(items) + 1)
      BY <1>7, <1>11, <2>0, <2>2
    <3> QED BY <1>1, <1>4, <1>6, <1>11, <3>1, <3>3, <3>4, PagedGap
  <2>3. CASE n # 0
    <3>1. PICK w : w = [v EXCEPT !.pc = "page", !.until = n, !.paged = TRUE]
      OBVIOUS
    <3>2. w = [v EXCEPT !.until = n, !.paged = TRUE]
      <4>1. v.pc = "page"
        BY <1>1
      <4> HIDE DEF v
      <4> QED BY <1>4, <3>1, <4>1 DEF Paging
    <3>3. SetWorker(k, w)
      BY <1>11, <2>0, <2>3, <3>2
    <3>4. v.filter = "regular" =>
            \A e \in Event : Stale(k, e) /\ created[e] >= v.since /\ created[e] > n =>
              Behind(items, k, e, Len(items) + 1)
      BY <1>7, <1>11, <2>0
    <3> QED BY <1>1, <1>6, <1>11, <2>1, <3>1, <3>3, <3>4, PagedGap
  <2> QED BY <2>2, <2>3
<1> HIDE DEF v
<1> QED
  BY <1>3, <1>8, <1>9, <1>10, <1>11

LEMMA WidenGap ==
  ASSUME Typed, NEW k \in Relay, GapOf(k), Widen(k)
  PROVE  GapOf(k)'
<1> DEFINE v == worker[k]
           S == Matching(k, v.filter, Max({v.since, v.first - BackdateOverlap}), 0)
<1>1. PICK items \in Recheck(k) : Caught(k, items, Floor(v))
  BY DEF Widen
<1>2. v.pc = "widen" /\ v.pc \in {"negentropy", "page", "widen"} /\ v.pc \in {"page", "widen"}
  BY DEF Widen
<1>3. Floor(v) \in Nat /\ (v.filter = "regular" => Floor(v) = v.since)
  <2>1. v \in Paging
    BY <1>2 DEF Typed, WorkerOK, Idle, Asking, Opening
  <2> QED BY <2>1 DEF Paging, Floor
<1>4. S \in SUBSET Event /\ items \in Deliveries(k, S) /\ \A e \in S : FilterOf(e) = v.filter
  BY DEF Matching, Typed, Recheck
<1> HIDE DEF S
<1>5. Events(k, items) /\ Harmless(k, items)
  BY <1>2, <1>4, AskedHarmless DEF GapOf
<1>6. v.filter = "regular" => \A e \in Event : Stale(k, e) /\ created[e] >= v.since =>
        Behind(items, k, e, Len(items) + 1)
  BY <1>2 DEF GapOf, Follows, Window, Behind
<1> QED BY <1>1, <1>2, <1>3, <1>5, <1>6, CaughtGap

(* A live REQ opens: its answer comes behind its begin and before its      *)
(* commit, and reaches what is fresh.                                      *)
LEMMA OpenGap ==
  ASSUME Typed, NEW k \in Relay, GapOf(k), lag \in 0 .. Lag, Open(k)
  PROVE  GapOf(k)'
<1>v. PICK v : v = worker[k]
  OBVIOUS
<1>1. v.pc = "open" /\ WorkerOK(v, clock)
  BY <1>v DEF Open, Typed
<1>2. /\ v \in Opening /\ v.filter \in Filter /\ v.start \in Nat
      /\ v.start >= Start /\ v.start <= clock
  <2>1. v \in Opening /\ v \notin Idle
    BY <1>1 DEF WorkerOK, Idle, Asking, Paging
  <2>2. v.start >= Start /\ v.start <= clock
    BY <1>1, <2>1 DEF WorkerOK
  <2> QED BY <2>1, <2>2 DEF Opening
<1>3. v.filter \in active[k] /\ v.start <= clock - lag + Lag
  <2>1. CatchingUp(k)
    BY <1>v, <1>1 DEF CatchingUp
  <2> QED BY <1>v, <2>1 DEF GapOf, Follows
<1>4. (v.filter = "status" \/ v.filter = "regular") /\ active[k] # {}
  BY <1>2, <1>3, FilterIs
<1>5. "regular" \in active[k] =>
        /\ Known(k, Len(chan) + 1)
        /\ \A e \in Event : Stale(k, e) /\ Anchored(k, e) => Reached(k, e)
  BY <1>v, <1>1 DEF GapOf, Follows
<1>6. PICK begin, commit : begin = Begin(k, v.filter) /\ commit = Commit(k, v.filter, 0)
  OBVIOUS
<1>7. /\ begin \in Items /\ begin.relay = k /\ begin.op = "begin"
      /\ commit \in Items /\ commit.relay = k /\ commit.op = "commit" /\ commit.filter = v.filter
  <2>1. 0 \in Nat
    OBVIOUS
  <2> QED BY <1>2, <1>6, <2>1, ItemTypes, ItemRelays DEF Commit
<1>8. PICK items \in LiveAnswer(k) : Send(<<begin>> \o items \o <<commit>>)
  BY <1>v, <1>6 DEF Open
<1>9. PICK one, two : one = <<begin>> /\ two = <<commit>>
  OBVIOUS
<1>10. PICK head : head = one \o items
  OBVIOUS
<1>11. PICK sent : sent = head \o two
  OBVIOUS
<1>12. Send(sent)
  BY <1>8, <1>9, <1>10, <1>11
<1>13. /\ Events(k, items) /\ OfRelay(k, items)
       /\ \A e \in at[k] : FilterOf(e) = v.filter /\ created[e] >= v.start - Overlap
            => \E i \in 1 .. Len(items) : items[i] = Deliver(k, e)
  BY <1>v, <1>1, LiveForm DEF Events
<1>14. Heading(k, begin, items, head)
  BY <1>7, <1>9, <1>10, <1>13, StartsWith, Zenon
<1>15. Harmless(k, head)
  BY <1>v, <1>1, <1>6, <1>14, OpenHarmless
<1>16. /\ OfRelay(k, head) /\ Len(head) = Len(items) + 1 /\ Len(items) \in Nat /\ head[1] = begin
       /\ \A i \in 1 .. Len(items) : i + 1 \in 1 .. Len(head) /\ head[i + 1] = items[i]
       /\ \A i \in 1 .. Len(head) : i = 1 \/ (i - 1 \in 1 .. Len(items) /\ head[i] = items[i - 1])
  BY <1>14, Zenon DEF Heading
<1>17. Ending(k, head, commit, sent)
  BY <1>7, <1>9, <1>11, <1>16, EndsWith, Zenon
<1>18. /\ OfRelay(k, sent) /\ Len(sent) = Len(head) + 1 /\ Len(head) \in Nat
       /\ sent[Len(head) + 1] = commit
       /\ \A i \in 1 .. Len(head) : sent[i] = head[i]
       /\ \A i \in 1 .. Len(sent) : i \in 1 .. Len(head) \/ i = Len(head) + 1
  BY <1>17, Zenon DEF Ending
<1>19. PICK w : w = IF HasNext(k, v.filter) THEN [v EXCEPT !.filter = "regular"] ELSE [pc |-> "live"]
  OBVIOUS
<1>20. worker' = [worker EXCEPT ![k] = w] /\ UNCHANGED active /\ OnlyWorker
  BY <1>v, <1>19 DEF Open, SetWorker
<1>21. HasNext(k, v.filter) => /\ w \in Opening /\ w.pc = "open" /\ w.filter = "regular"
                               /\ w.start = v.start
  BY <1>2, <1>19, FilterIs DEF Opening
<1>22. ~HasNext(k, v.filter) => w = [pc |-> "live"] /\ w.pc = "live"
  BY <1>19
<1>23. WorkerOK(w, clock)
  <2>1. CASE HasNext(k, v.filter)
    BY <1>2, <1>21, <2>1 DEF WorkerOK, Opening, Idle, Paging
  <2>2. CASE ~HasNext(k, v.filter)
    BY <1>22, <2>2 DEF WorkerOK, Idle, Paging
  <2> QED BY <2>1, <2>2
<1>24. WorkerMoves(k, sent, w, active[k])
  BY <1>12, <1>18, <1>20, <1>23 DEF WorkerMoves, Typed
<1>25. \A i \in 1 .. Len(sent) : ~Ended(k, sent[i])
  <2>1. /\ Note("failed", k).op = "failed" /\ Note("gaveUp", k).op = "gaveUp"
    BY ItemRelays
  <2>2. \A i \in 1 .. Len(items) : items[i].op = "event"
    BY <1>13, ItemRelays DEF Events
  <2>3. \A i \in 1 .. Len(head) : head[i].op = "begin" \/ head[i].op = "event"
    BY <1>7, <1>16, <2>2
  <2>4. \A i \in 1 .. Len(sent) : sent[i].op = "begin" \/ sent[i].op = "event" \/ sent[i].op = "commit"
    BY <1>7, <1>18, <2>3
  <2> QED BY <2>1, <2>4 DEF Ended
<1>26. SoundCommits(k, sent)
  <2>1. SUFFICES ASSUME NEW c \in 1 .. Len(sent), IsCommit(k, sent[c]) PROVE SoundCommit(k, sent, c)
    BY DEF SoundCommits
  <2>2. v.filter = "regular"
    <3>1. \A i \in 1 .. Len(head) : head[i].op # "commit"
      BY <1>15 DEF Harmless
    <3> QED BY <1>7, <1>18, <2>1, <3>1 DEF IsCommit
  <2>3. "regular" \in active[k]
    BY <1>3, <2>2
  <2> QED BY <1>5, <1>25, <2>3 DEF SoundCommit, Behind
<1>27. SoundEvents(k, sent)
  <2>1. SUFFICES ASSUME gen[k].live, NEW c \in 1 .. Len(sent), NEW d \in Regular,
                        sent[c] = Deliver(k, d)
                 PROVE  \/ Begun(k, Len(chan) + 1)
                        \/ \E j \in 1 .. Len(sent) : j < c /\ sent[j] = Begin(k, "regular")
    BY DEF SoundEvents
  <2>2. Deliver(k, d).op = "event"
    BY ItemRelays
  <2>3. c \in 1 .. Len(head) /\ head[c] = Deliver(k, d)
    <3>1. sent[c] # commit
      BY <1>7, <2>1, <2>2
    <3> QED BY <1>18, <2>1, <3>1
  <2>4. Begun(k, Len(chan) + 1) \/ (1 < c /\ head[1] = Begin(k, "regular"))
    BY <1>15, <2>1, <2>3 DEF Harmless
  <2>5. 1 \in 1 .. Len(head) /\ 1 \in 1 .. Len(sent) /\ sent[1] = head[1]
    BY <1>18, <2>3
  <2> QED BY <2>4, <2>5
<1>28. CASE HasNext(k, v.filter)
  <2>1. "regular" \in active[k]
    BY <1>28 DEF HasNext
  <2>2. AtEnd(k)'
    <3>1. chan \in Seq(Items) /\ sent \in Seq(Items) /\ progress'[k].caughtUp = progress[k].caughtUp
      BY <1>18, <1>20 DEF OfRelay, Typed, OnlyWorker
    <3>2. PICK n : n = Len(chan)
      OBVIOUS
    <3>3. Len(chan') = Len(chan) + Len(sent) /\ Len(chan) \in Nat /\ Len(sent) \in Nat
      BY <1>12, <3>1, Appended
    <3>4. Len(sent) + 1 \in 1 .. Len(sent) + 1 /\ Len(chan') + 1 = n + (Len(sent) + 1)
      BY <3>2, <3>3
    <3>5. Known(k, n + (Len(sent) + 1))'
      BY <1>5, <1>12, <1>25, <2>1, <3>1, <3>2, <3>4, KnownOn
    <3> QED BY <3>4, <3>5 DEF AtEnd
  <2>3. \A e \in Event : Stale(k, e) /\ Anchored(k, e) => Behind(sent, k, e, Len(sent) + 1)
    BY <1>5, <2>1 DEF Behind
  <2>4. /\ w.pc = "open" /\ w.filter = "regular" /\ w.start = v.start
        /\ w.pc \notin {"page", "widen"} /\ w.pc # "live"
    BY <1>21, <1>28
  <2>5. Follows(k)'
    BY <1>3, <1>4, <1>24, <2>1, <2>2, <2>3, <2>4, MovesFollows
  <2> QED BY <1>24, <1>26, <1>27, <2>5, MovesGap
<1>29. CASE ~HasNext(k, v.filter)
  <2>1. /\ w.pc = "live" /\ w.pc # "open" /\ w.pc \notin {"page", "widen"}
        /\ w.pc \notin {"negentropy", "page", "widen", "open"}
    BY <1>22, <1>29
  <2>2. ASSUME "regular" \in active[k], NEW e \in Event, Lost(k, e), Fresh(e) \/ Anchored(k, e)
        PROVE  Behind(sent, k, e, Len(sent) + 1)
    <3>1. v.filter = "regular"
      BY <1>4, <1>29, <2>2 DEF HasNext
    <3>2. CASE Fresh(e)
      <4>1. created[e] \in Nat /\ clock \in Nat /\ lag \in Nat /\ Lag \in Nat /\ Overlap \in Nat
        BY Sizes, Constants
      <4>2. created[e] >= clock - lag - (Overlap - Lag)
        BY <3>2 DEF Fresh, Tolerance
      <4>3. created[e] >= v.start - Overlap
        BY <1>2, <1>3, <4>1, <4>2
      <4>4. e \in at[k] /\ FilterOf(e) = "regular"
        BY <2>2 DEF Lost, FilterOf
      <4>5. PICK i \in 1 .. Len(items) : items[i] = Deliver(k, e)
        BY <1>13, <3>1, <4>3, <4>4
      <4>6. i + 1 \in 1 .. Len(head) /\ head[i + 1] = Deliver(k, e)
        BY <1>16, <4>5
      <4>7. i + 1 \in 1 .. Len(sent) /\ sent[i + 1] = Deliver(k, e) /\ i + 1 < Len(sent) + 1
        BY <1>18, <4>6
      <4> QED BY <4>7 DEF Behind, Carries
    <3>3. CASE ~Fresh(e)
      BY <1>5, <2>2, <3>3 DEF Stale, Behind
    <3> QED BY <3>2, <3>3
  <2>3. Follows(k)'
    BY <1>4, <1>24, <2>1, <2>2, MovesFollows
  <2> QED BY <1>24, <1>26, <1>27, <2>3, MovesGap
<1> QED BY <1>28, <1>29

----------------------------------------------------------------------------
(* Every step. *)

LEMMA CountedStep == Counted /\ [Next]_vars => Counted'
<1> SUFFICES ASSUME Counted, [Next]_vars PROVE Counted'
  OBVIOUS
<1> USE DEF Counted
<1>1. CASE Tick
  BY <1>1 DEF Tick, history
<1>2. CASE \E k \in Relay, e \in Event : Arrive(k, e)
  BY <1>2 DEF Arrive, history
<1>3. ASSUME NEW k \in Relay, Work(k) \/ Drop(k) \/ Closed(k) PROVE Counted'
  <2>1. CASE Drop(k) \/ Closed(k)
    BY <2>1 DEF Drop, Closed, Fault, OnlyWorker, history
  <2>2. CASE Connect(k) \/ NegentropyUnavailable(k) \/ Open(k)
    BY <2>2 DEF Connect, NegentropyUnavailable, Open, OnlyWorker, history
  <2>3. CASE Negentropy(k)
    BY <2>3 DEF Negentropy, Caught, OnlyWorker, history
  <2>4. CASE Page(k)
    BY <2>4 DEF Page, Caught, OnlyWorker, history
  <2>5. CASE Widen(k)
    BY <2>5 DEF Widen, Caught, OnlyWorker, history
  <2> QED BY <1>3, <2>1, <2>2, <2>3, <2>4, <2>5 DEF Work
<1>4. CASE Consume
  <2>1. CASE ConsumeRejected \/ ConsumeFailed
    BY <2>1 DEF ConsumeRejected, ConsumeFailed, Fault
  <2>2. CASE ConsumeDuplicate \/ ConsumeNew
    BY <2>2 DEF ConsumeDuplicate, ConsumeNew, Observe, Advance, Fault, history
  <2>3. CASE ConsumeBegin \/ ConsumeCommitStatus
    BY <2>3 DEF ConsumeBegin, ConsumeCommitStatus, history
  <2>4. CASE ConsumeCommitRegular
    <3>1. faults' \in Nat
      BY <2>4 DEF ConsumeCommitRegular, Advance, Fault
    <3>2. \/ UNCHANGED anchor
          \/ \E r, t : anchor' = [anchor EXCEPT ![r] = t]
      BY <2>4 DEF ConsumeCommitRegular
    <3>3. DOMAIN anchor' = DOMAIN anchor
      BY <3>2
    <3> QED BY <3>1, <3>3
  <2>5. CASE ConsumeCaughtUp \/ ConsumeRelayFailed \/ ConsumeGaveUp
    BY <2>5 DEF ConsumeCaughtUp, ConsumeRelayFailed, ConsumeGaveUp, history
  <2> QED BY <1>4, <2>1, <2>2, <2>3, <2>4, <2>5 DEF Consume
<1>5. CASE Crash
  BY <1>5 DEF Crash, Fault
<1>6. CASE UNCHANGED vars
  BY <1>6 DEF vars, history
<1>7. CASE Restart
  BY <1>7 DEF Restart
<1> QED
  BY <1>1, <1>2, <1>3, <1>4, <1>5, <1>6, <1>7 DEF Next

LEMMA WorkerGap ==
  ASSUME Typed, GapInv, NEW j \in Relay, Work(j) \/ Drop(j) \/ Closed(j)
  PROVE  GapInv'
<1>1. PICK sent, w, a : WorkerMoves(j, sent, w, a)
  BY WorkerKeeps DEF Keeps
<1>2. lag \in 0 .. Lag /\ lag' = lag /\ \A k \in Relay : GapOf(k)
  BY <1>1 DEF GapInv, WorkerMoves, OnlyWorker, relays
<1>3. GapOf(j)'
  BY <1>2, ConnectGap, NegentropyGap, UnavailableGap, PageGap, WidenGap, OpenGap,
     DropGap, ClosedGap DEF Work
<1>4. \A k \in Relay : k # j => GapOf(k)'
  BY <1>1, <1>2, OthersGap
<1> QED BY <1>2, <1>3, <1>4 DEF GapInv

LEMMA ConsumeGap ==
  ASSUME Typed, Counted, GapInv, Consume
  PROVE  GapInv'
<1>1. lag \in 0 .. Lag /\ \A k \in Relay : GapOf(k)
  BY DEF GapInv
<1>2. lag' = lag
  BY DEF Consume, ConsumeRejected, ConsumeFailed, ConsumeDuplicate, ConsumeNew, ConsumeBegin,
         ConsumeCommitRegular, ConsumeCommitStatus, ConsumeCaughtUp, ConsumeRelayFailed,
         ConsumeGaveUp, relays
<1>3. CASE ConsumeRejected \/ ConsumeFailed \/ ConsumeDuplicate \/ ConsumeNew
  BY <1>1, <1>2, <1>3, EventsGap DEF GapInv
<1>4. CASE ConsumeBegin
  BY <1>1, <1>2, <1>4, BeginGap DEF GapInv
<1>5. CASE ConsumeCommitRegular
  BY <1>1, <1>2, <1>5, CommitRegularGap DEF GapInv
<1>6. CASE ConsumeCommitStatus
  BY <1>1, <1>2, <1>6, CommitStatusGap DEF GapInv
<1>7. CASE ConsumeCaughtUp \/ ConsumeRelayFailed \/ ConsumeGaveUp
  BY <1>1, <1>2, <1>7, LastNotesGap DEF GapInv
<1> QED BY <1>3, <1>4, <1>5, <1>6, <1>7 DEF Consume

LEMMA GapStep == LoomInv /\ Counted /\ GapInv /\ [Next]_vars => GapInv'
<1> SUFFICES ASSUME LoomInv, Counted, GapInv, [Next]_vars PROVE GapInv'
  OBVIOUS
<1>0. Typed /\ Typed'
  BY LoomStep DEF LoomInv
<1>1. CASE Tick
  BY <1>0, <1>1, TickGap
<1>2. CASE \E k \in Relay, e \in Event : Arrive(k, e)
  BY <1>0, <1>2, ArriveGap
<1>3. CASE \E k \in Relay : Work(k) \/ Drop(k) \/ Closed(k)
  BY <1>0, <1>3, WorkerGap
<1>4. CASE Consume
  BY <1>0, <1>4, ConsumeGap
<1>5. CASE Crash
  BY <1>0, <1>5, CrashGap
<1>6. CASE UNCHANGED vars
  <2>1. /\ UNCHANGED <<clock, lag, created, at, held, cursor, worker, active, chan, gen, progress>>
        /\ UNCHANGED <<pruned, rejected, failed, anchor>>
    BY <1>6 DEF vars, relays, workers, history
  <2>2. \A k, e : /\ Lost(k, e)' <=> Lost(k, e)
                  /\ Anchored(k, e)' <=> Anchored(k, e)
                  /\ Fresh(e)' <=> Fresh(e)
    BY <2>1 DEF Lost, Anchored, Fresh, Sharing
  <2>3. \A k, e : Stale(k, e)' <=> Stale(k, e)
    BY <2>2 DEF Stale
  <2>4. /\ \A k, e, i : Sent(k, e, i)' <=> Sent(k, e, i)
        /\ \A k, i : Known(k, i)' <=> Known(k, i)
        /\ \A k, i : Begun(k, i)' <=> Begun(k, i)
        /\ \A k, f : Rooted(k, f)' <=> Rooted(k, f)
        /\ \A k : CatchingUp(k)' <=> CatchingUp(k)
    BY <2>1 DEF Sent, Known, Begun, Rooted, CatchingUp
  <2>5. \A k, e : Reached(k, e)' <=> Reached(k, e)
    BY <2>1, <2>4 DEF Reached
  <2>6. ASSUME NEW k \in Relay, GapOf(k) PROVE GapOf(k)'
    <3>1. CursorOf(k)'
      BY <2>1, <2>2, <2>4, <2>6 DEF GapOf, CursorOf
    <3>2. Commits(k)'
      BY <2>1, <2>2, <2>3, <2>4, <2>6 DEF GapOf, Commits, CommitOf
    <3>3. Observed(k)'
      BY <2>1, <2>2, <2>3, <2>4, <2>6 DEF GapOf, Observed
    <3>4. Reopened(k)' <=> Reopened(k)
      BY <2>1, <2>4 DEF Reopened
    <3>5. Window(k)' <=> Window(k)
      BY <2>1, <2>2, <2>3, <2>4, <2>5, <3>4 DEF Window
    <3>6. Follows(k)'
      BY <2>1, <2>2, <2>3, <2>4, <2>5, <2>6, <3>5 DEF GapOf, Follows
    <3> QED BY <3>1, <3>2, <3>3, <3>6 DEF GapOf
  <2> QED BY <2>1, <2>6 DEF GapInv
<1>7. CASE Restart
  BY <1>0, <1>7, RestartGap
<1> QED
  BY <1>1, <1>2, <1>3, <1>4, <1>5, <1>6, <1>7 DEF Next

LEMMA GapSuffices == Typed /\ GapInv => NoGap
<1> SUFFICES ASSUME Typed, GapInv, NEW k \in Relay, NEW e \in at[k] \cap Regular,
                    e \notin held \cup pruned \cup rejected \cup failed,
                    anchor[k] # -1, created[e] >= anchor[k], Sharing(k, e) <= PageLimit
             PROVE  created[e] >= ResumeSince(cursor[k], clock)
  BY DEF NoGap
<1>1. e \in Event /\ CursorOf(k) /\ clock \in Nat /\ clock >= Start
  BY DEF Typed, GapInv, GapOf
<1>2. Lost(k, e) /\ Anchored(k, e)
  BY DEF Lost, Anchored
<1> QED BY <1>1, <1>2, Resumes

(* No gap below a cursor: a regular event a relay holds and the store      *)
(* never got is at or after the instant the next resume from that relay    *)
(* starts from (resumeSince), however deliveries, commits of a catch-up,   *)
(* live observations, dropped sessions, failed writes and crashes          *)
(* interleave, for any number of relays and events and any page limit.     *)
THEOREM CursorsLeaveNoGap == Spec => []NoGap
<1>1. Init => LoomInv /\ Counted /\ GapInv
  <2>1. Init => Counted
    BY DEF Init, Counted
  <2> QED BY <2>1, LoomInit, GapInit
<1>2. LoomInv /\ Counted /\ GapInv /\ [Next]_vars => (LoomInv /\ Counted /\ GapInv)'
  BY LoomStep, CountedStep, GapStep
<1>3. LoomInv /\ GapInv => NoGap
  BY GapSuffices DEF LoomInv
<1> QED
  BY <1>1, <1>2, <1>3, PTL DEF Spec
=============================================================================
