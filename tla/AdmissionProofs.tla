-------------------------- MODULE AdmissionProofs --------------------------
(***************************************************************************)
(* Proofs about the outbound admission controller, for every number of     *)
(* relays, publications, operations and opaque calls, all budgets and      *)
(* bounds.                                                                 *)
(***************************************************************************)
EXTENDS Admission, FiniteSetTheorems, SequenceTheorems, TLAPS

(* The buckets of the controller are those the relays would keep, and the  *)
(* bucket of an unknown identity counts as full.                           *)
BucketsMatch ==
  \A r \in Relay, c \in Class :
    /\ allowance[r][c] = wire[r][c]
    /\ r \notin known => wire[r][c] = Wire[c].burst

(* What registered publications and opaque calls hold.                     *)
HoldingsMatch == NothingLeaked /\ HeldIdentitiesKnown /\ NoConcurrentCopy

(* The inductive invariant.                                                *)
Inv == TypeOK /\ HoldingsMatch /\ BucketsMatch /\ LanesReserved

-----------------------------------------------------------------------------
(* Counting.                                                               *)

(* Sets of publications and of opaque calls are finite.                    *)
LEMMA UsersFinite ==
  ASSUME NEW S, S \subseteq Publication \/ S \subseteq Opaque
  PROVE  IsFiniteSet(S) /\ Cardinality(S) \in Nat
BY AdmissionAssumption, FS_Subset, FS_CardinalityType

(* A relay that somebody refers to has a positive reference count.         *)
LEMMA HeldIsReferenced ==
  ASSUME NothingLeaked, NEW r \in Relay,
         UsersOf(r) # {} \/ WaitersOf(r) # {}
  PROVE  refs[r] > 0
<1>1. UsersOf(r) \subseteq Publication /\ WaitersOf(r) \subseteq Opaque
  BY DEF UsersOf, WaitersOf, Registered, Waiting
<1>2. /\ IsFiniteSet(UsersOf(r)) /\ Cardinality(UsersOf(r)) \in Nat
      /\ IsFiniteSet(WaitersOf(r)) /\ Cardinality(WaitersOf(r)) \in Nat
  BY <1>1, UsersFinite
<1>3. Cardinality(UsersOf(r)) # 0 \/ Cardinality(WaitersOf(r)) # 0
  BY <1>2, FS_EmptySet
<1>4. refs[r] = Cardinality(UsersOf(r)) + Cardinality(WaitersOf(r))
  BY DEF NothingLeaked
<1> QED
  BY <1>2, <1>3, <1>4

(* Looking up relays evicts none that is held, and stays within the bound. *)
LEMMA RegistriesKeepHeld ==
  ASSUME TypeOK, NothingLeaked, HeldIdentitiesKnown,
         NEW R \in SUBSET Relay, NEW K \in Registries(R)
  PROVE  /\ K \subseteq Relay /\ R \subseteq K
         /\ Cardinality(K) <= MaxIdentities
         /\ \A p \in Registered : pub[p].relays \subseteq K
         /\ \A c \in Waiting : opaque[c].relays \subseteq K
         /\ \A r \in known \ K : Evictable(r)
<1>1. /\ K \subseteq known \cup R /\ R \subseteq K
      /\ Cardinality(K) = Least(Cardinality(known \cup R), MaxIdentities)
      /\ \A r \in known \ K : Evictable(r)
  BY DEF Registries
<1>2. K \subseteq Relay
  BY <1>1 DEF TypeOK, RegistryTypes
<1>3. Cardinality(K) <= MaxIdentities
  <2>1. IsFiniteSet(known \cup R)
    BY AdmissionAssumption, FS_Subset DEF TypeOK, RegistryTypes
  <2>2. Cardinality(known \cup R) \in Nat
    BY <2>1, FS_CardinalityType
  <2> QED
    BY <1>1, <2>2, AdmissionAssumption DEF Least
<1>4. ASSUME NEW r \in known, refs[r] > 0
      PROVE  r \in K
  BY <1>1, <1>4 DEF Evictable
<1>5. ASSUME NEW p \in Registered
      PROVE  pub[p].relays \subseteq K
  <2>1. SUFFICES ASSUME NEW r \in pub[p].relays
                 PROVE  r \in K
    OBVIOUS
  <2>2. p \in Publication /\ r \in Relay /\ r \in known
    BY <1>5 DEF Registered, TypeOK, PublicationTypes, PublicationRecord, HeldIdentitiesKnown
  <2>3. UsersOf(r) # {}
    BY <1>5 DEF UsersOf
  <2> QED
    BY <1>4, <2>2, <2>3, HeldIsReferenced
<1>6. ASSUME NEW c \in Waiting
      PROVE  opaque[c].relays \subseteq K
  <2>1. SUFFICES ASSUME NEW r \in opaque[c].relays
                 PROVE  r \in K
    OBVIOUS
  <2>2. c \in Opaque /\ r \in Relay /\ r \in known
    BY <1>6 DEF Waiting, TypeOK, OpaqueTypes, HeldIdentitiesKnown
  <2>3. WaitersOf(r) # {}
    BY <1>6 DEF WaitersOf
  <2> QED
    BY <1>4, <2>2, <2>3, HeldIsReferenced
<1> QED
  BY <1>1, <1>2, <1>3, <1>5, <1>6

(* Steps that change neither what is held nor the counts.                  *)
LEMMA HeldKept ==
  ASSUME TypeOK, HoldingsMatch,
         UNCHANGED <<refs, keys, opaques>>,
         \A p \in Publication :
           /\ p \in Registered' <=> p \in Registered
           /\ p \in Registered => /\ pub'[p].event = pub[p].event
                                  /\ pub'[p].relays = pub[p].relays,
         \A p \in Registered : pub[p].relays \subseteq known',
         \A c \in Waiting : opaque[c].relays \subseteq known'
  PROVE  HoldingsMatch'
<1>1. Registered' = Registered
  BY DEF Registered
<1>2. Waiting' = Waiting /\ \A c \in Waiting : opaque'[c] = opaque[c]
  BY DEF Waiting, opaques
<1>3. ASSUME NEW r \in Relay
      PROVE  UsersOf(r)' = UsersOf(r) /\ WaitersOf(r)' = WaitersOf(r)
  <2>1. UsersOf(r)' = {p \in Registered' : r \in pub'[p].relays}
    BY DEF UsersOf
  <2>2. UsersOf(r)' = UsersOf(r)
    BY <1>1, <2>1 DEF UsersOf, Registered
  <2>3. WaitersOf(r)' = WaitersOf(r)
    BY <1>2 DEF WaitersOf, opaques, Waiting
  <2> QED
    BY <2>2, <2>3
<1>4. \A p \in Registered : Keys(pub'[p].event, pub'[p].relays) = Keys(pub[p].event, pub[p].relays)
  BY DEF Registered
<1>5. NothingLeaked'
  <2>1. inflight' = UNION {Keys(pub'[p].event, pub'[p].relays) : p \in Registered'}
    BY <1>1, <1>4 DEF HoldingsMatch, NothingLeaked, keys
  <2> QED
    BY <1>1, <1>2, <1>3, <2>1 DEF HoldingsMatch, NothingLeaked, keys, opaques
<1>6. HeldIdentitiesKnown'
  BY <1>1, <1>2 DEF HeldIdentitiesKnown, Registered
<1>7. NoConcurrentCopy'
  BY <1>1, <1>4 DEF HoldingsMatch, NoConcurrentCopy
<1> QED
  BY <1>5, <1>6, <1>7 DEF HoldingsMatch

(* A publication takes what it holds.                                      *)
LEMMA PublicationRegisters ==
  ASSUME TypeOK, HoldingsMatch,
         NEW p \in Publication, p \notin Registered, p \in Registered',
         NEW event \in Event, NEW R \in SUBSET Relay,
         Registrable(event, R), Register(event, R),
         pub'[p].event = event, pub'[p].relays = R,
         \A q \in Publication \ {p} : pub'[q] = pub[q],
         UNCHANGED opaques
  PROVE  HoldingsMatch'
<1>1. Registered' = Registered \cup {p}
  BY DEF Registered
<1>2. Waiting' = Waiting /\ opaque' = opaque /\ opaqueWaiters' = opaqueWaiters
  BY DEF Waiting, opaques
<1>3. PICK K \in Registries(R) : known' = K
  BY DEF Register
<1>4. /\ R \subseteq K
      /\ \A q \in Registered : pub[q].relays \subseteq K
      /\ \A c \in Waiting : opaque[c].relays \subseteq K
  BY <1>3, RegistriesKeepHeld DEF HoldingsMatch
<1>5. HeldIdentitiesKnown'
  <2>1. ASSUME NEW q \in Registered' PROVE pub'[q].relays \subseteq known'
    BY <1>1, <1>3, <1>4 DEF Registered
  <2>2. ASSUME NEW c \in Waiting' PROVE opaque'[c].relays \subseteq known'
    BY <1>2, <1>3, <1>4
  <2> QED
    BY <2>1, <2>2 DEF HeldIdentitiesKnown
<1>6. ASSUME NEW q \in Registered
      PROVE  /\ q # p
             /\ Keys(pub'[q].event, pub'[q].relays) = Keys(pub[q].event, pub[q].relays)
  BY DEF Registered
<1>7. inflight' = UNION {Keys(pub'[q].event, pub'[q].relays) : q \in Registered'}
  <2>1. inflight' = inflight \cup Keys(event, R)
    BY DEF Register
  <2>2. inflight = UNION {Keys(pub[q].event, pub[q].relays) : q \in Registered}
    BY DEF HoldingsMatch, NothingLeaked
  <2> QED
    BY <1>1, <1>6, <2>1, <2>2
<1>8. NoConcurrentCopy'
  <2>1. \A q \in Registered : Keys(pub[q].event, pub[q].relays) \subseteq inflight
    BY DEF HoldingsMatch, NothingLeaked
  <2>2. \A q \in Registered : Keys(pub[q].event, pub[q].relays) \cap Keys(event, R) = {}
    BY <2>1 DEF Registrable
  <2>3. ASSUME NEW q1 \in Registered', NEW q2 \in Registered', q1 # q2
        PROVE  Keys(pub'[q1].event, pub'[q1].relays)
                 \cap Keys(pub'[q2].event, pub'[q2].relays) = {}
    <3>1. CASE q1 = p
      BY <1>1, <1>6, <2>2, <2>3, <3>1
    <3>2. CASE q2 = p
      BY <1>1, <1>6, <2>2, <2>3, <3>2
    <3>3. CASE q1 # p /\ q2 # p
      BY <1>1, <1>6, <2>3, <3>3 DEF HoldingsMatch, NoConcurrentCopy
    <3> QED
      BY <3>1, <3>2, <3>3
  <2> QED
    BY <2>3 DEF NoConcurrentCopy
<1>9. active' = Cardinality(Registered')
  <2>1. Registered \subseteq Publication
    BY DEF Registered
  <2>2. Cardinality(Registered \cup {p}) = Cardinality(Registered) + 1
    BY <2>1, UsersFinite, FS_AddElement
  <2> QED
    BY <1>1, <2>2 DEF Register, HoldingsMatch, NothingLeaked
<1>10. ASSUME NEW r \in Relay
       PROVE  refs'[r] = Cardinality(UsersOf(r)') + Cardinality(WaitersOf(r)')
  <2>1. WaitersOf(r)' = WaitersOf(r)
    BY <1>2 DEF WaitersOf
  <2>2. UsersOf(r) \subseteq Publication /\ p \notin UsersOf(r)
    BY DEF UsersOf, Registered
  <2>3. UsersOf(r)' = IF r \in R THEN UsersOf(r) \cup {p} ELSE UsersOf(r)
    BY <1>1 DEF UsersOf, Registered
  <2>4. Cardinality(UsersOf(r)') = Cardinality(UsersOf(r)) + (IF r \in R THEN 1 ELSE 0)
    BY <2>2, <2>3, UsersFinite, FS_AddElement
  <2>5. refs[r] = Cardinality(UsersOf(r)) + Cardinality(WaitersOf(r))
    BY DEF HoldingsMatch, NothingLeaked
  <2>6. refs'[r] = refs[r] + (IF r \in R THEN 1 ELSE 0)
    BY DEF Register, Held, TypeOK, RegistryTypes
  <2>7. Cardinality(UsersOf(r)) \in Nat /\ Cardinality(WaitersOf(r)) \in Nat
    BY <2>2, UsersFinite DEF WaitersOf, Waiting
  <2> QED
    BY <2>1, <2>4, <2>5, <2>6, <2>7
<1>11. NothingLeaked'
  BY <1>2, <1>7, <1>9, <1>10 DEF NothingLeaked, HoldingsMatch
<1> QED
  BY <1>5, <1>8, <1>11 DEF HoldingsMatch

(* A publication gives back what it holds.                                 *)
LEMMA PublicationUnregisters ==
  ASSUME TypeOK, HoldingsMatch,
         NEW p \in Publication, p \in Registered, p \notin Registered',
         Unregister(p),
         \A q \in Publication \ {p} : pub'[q] = pub[q],
         UNCHANGED <<known, opaques>>
  PROVE  HoldingsMatch'
<1>1. Registered' = Registered \ {p}
  BY DEF Registered
<1>2. Waiting' = Waiting /\ opaque' = opaque /\ opaqueWaiters' = opaqueWaiters
  BY DEF Waiting, opaques
<1>3. \A q \in Registered' : q \in Registered /\ q # p /\ pub'[q] = pub[q]
  BY <1>1 DEF Registered
<1>4. HeldIdentitiesKnown'
  BY <1>2, <1>3 DEF HeldIdentitiesKnown, HoldingsMatch
<1>5. NoConcurrentCopy'
  BY <1>3 DEF NoConcurrentCopy, HoldingsMatch
<1>6. inflight' = UNION {Keys(pub'[q].event, pub'[q].relays) : q \in Registered'}
  <2>1. inflight' = inflight \ Keys(pub[p].event, pub[p].relays)
    BY DEF Unregister
  <2>2. inflight = UNION {Keys(pub[q].event, pub[q].relays) : q \in Registered}
    BY DEF HoldingsMatch, NothingLeaked
  <2>3. \A q \in Registered' : Keys(pub[q].event, pub[q].relays)
                                 \cap Keys(pub[p].event, pub[p].relays) = {}
    BY <1>3 DEF NoConcurrentCopy, HoldingsMatch
  <2>4. \A q \in Registered : q = p \/ q \in Registered'
    BY <1>1
  <2>5. inflight' = UNION {Keys(pub[q].event, pub[q].relays) : q \in Registered'}
    BY <1>3, <2>1, <2>2, <2>3, <2>4
  <2>6. {Keys(pub'[q].event, pub'[q].relays) : q \in Registered'}
          = {Keys(pub[q].event, pub[q].relays) : q \in Registered'}
    BY <1>3
  <2> QED
    BY <2>5, <2>6
<1>7. active' = Cardinality(Registered')
  <2>1. Registered \subseteq Publication
    BY DEF Registered
  <2>2. Cardinality(Registered \ {p}) = Cardinality(Registered) - 1
    BY <2>1, UsersFinite, FS_RemoveElement
  <2> QED
    BY <1>1, <2>2 DEF Unregister, HoldingsMatch, NothingLeaked
<1>8. ASSUME NEW r \in Relay
      PROVE  refs'[r] = Cardinality(UsersOf(r)') + Cardinality(WaitersOf(r)')
  <2>1. WaitersOf(r)' = WaitersOf(r)
    BY <1>2 DEF WaitersOf
  <2>2. UsersOf(r) \subseteq Publication
    BY DEF UsersOf, Registered
  <2>3. UsersOf(r)' = UsersOf(r) \ {p}
    BY <1>1, <1>3 DEF UsersOf
  <2>4. p \in UsersOf(r) <=> r \in pub[p].relays
    BY DEF UsersOf
  <2>5. Cardinality(UsersOf(r)') = Cardinality(UsersOf(r))
                                     - (IF r \in pub[p].relays THEN 1 ELSE 0)
    BY <2>2, <2>3, <2>4, UsersFinite, FS_RemoveElement
  <2>6. refs[r] = Cardinality(UsersOf(r)) + Cardinality(WaitersOf(r))
    BY DEF HoldingsMatch, NothingLeaked
  <2>7. r \in pub[p].relays => r \in known /\ refs[r] > 0
    BY <2>4, HeldIsReferenced DEF HoldingsMatch, HeldIdentitiesKnown
  <2>8. refs'[r] = refs[r] - (IF r \in pub[p].relays THEN 1 ELSE 0)
    BY <2>7 DEF Unregister, TypeOK, RegistryTypes
  <2>9. Cardinality(UsersOf(r)) \in Nat /\ Cardinality(WaitersOf(r)) \in Nat
    BY <2>2, UsersFinite DEF WaitersOf, Waiting
  <2> QED
    BY <2>1, <2>5, <2>6, <2>8, <2>9
<1>9. NothingLeaked'
  BY <1>2, <1>6, <1>7, <1>8 DEF NothingLeaked, HoldingsMatch
<1> QED
  BY <1>4, <1>5, <1>9 DEF HoldingsMatch

(* An opaque call starts to wait.                                          *)
LEMMA OpaqueRegisters ==
  ASSUME TypeOK, HoldingsMatch,
         NEW c \in Opaque, ~opaque[c].waiting,
         NEW R \in SUBSET Relay, NEW K \in Registries(R), known' = K,
         refs' = Held(R),
         opaque' = [opaque EXCEPT ![c] = [waiting |-> TRUE, relays |-> R]],
         opaqueWaiters' = opaqueWaiters + 1,
         UNCHANGED <<keys, pub>>
  PROVE  HoldingsMatch'
<1>1. Registered' = Registered /\ pub' = pub
  BY DEF Registered
<1>2. /\ Waiting' = Waiting \cup {c} /\ c \notin Waiting
      /\ opaque'[c].relays = R
      /\ \A d \in Waiting : opaque'[d] = opaque[d]
  BY DEF Waiting, TypeOK, OpaqueTypes
<1>3. /\ R \subseteq K
      /\ \A q \in Registered : pub[q].relays \subseteq K
      /\ \A d \in Waiting : opaque[d].relays \subseteq K
  BY RegistriesKeepHeld DEF HoldingsMatch
<1>4. HeldIdentitiesKnown'
  <2>1. ASSUME NEW q \in Registered' PROVE pub'[q].relays \subseteq known'
    BY <1>1, <1>3
  <2>2. ASSUME NEW d \in Waiting' PROVE opaque'[d].relays \subseteq known'
    BY <1>2, <1>3
  <2> QED
    BY <2>1, <2>2 DEF HeldIdentitiesKnown
<1>5. NoConcurrentCopy'
  BY <1>1 DEF NoConcurrentCopy, HoldingsMatch
<1>6. opaqueWaiters' = Cardinality(Waiting')
  <2>1. Waiting \subseteq Opaque
    BY DEF Waiting
  <2>2. Cardinality(Waiting \cup {c}) = Cardinality(Waiting) + 1
    BY <1>2, <2>1, UsersFinite, FS_AddElement
  <2> QED
    BY <1>2, <2>2 DEF HoldingsMatch, NothingLeaked
<1>7. ASSUME NEW r \in Relay
      PROVE  refs'[r] = Cardinality(UsersOf(r)') + Cardinality(WaitersOf(r)')
  <2>1. UsersOf(r)' = UsersOf(r)
    BY <1>1 DEF UsersOf
  <2>2. WaitersOf(r) \subseteq Opaque /\ c \notin WaitersOf(r)
    BY <1>2 DEF WaitersOf, Waiting
  <2>3. WaitersOf(r)' = IF r \in R THEN WaitersOf(r) \cup {c} ELSE WaitersOf(r)
    BY <1>2 DEF WaitersOf
  <2>4. Cardinality(WaitersOf(r)') = Cardinality(WaitersOf(r)) + (IF r \in R THEN 1 ELSE 0)
    BY <2>2, <2>3, UsersFinite, FS_AddElement
  <2>5. refs[r] = Cardinality(UsersOf(r)) + Cardinality(WaitersOf(r))
    BY DEF HoldingsMatch, NothingLeaked
  <2>6. refs'[r] = refs[r] + (IF r \in R THEN 1 ELSE 0)
    BY DEF Held, TypeOK, RegistryTypes
  <2>7. Cardinality(UsersOf(r)) \in Nat /\ Cardinality(WaitersOf(r)) \in Nat
    BY <2>2, UsersFinite DEF UsersOf, Registered
  <2> QED
    BY <2>1, <2>4, <2>5, <2>6, <2>7
<1>8. NothingLeaked'
  BY <1>1, <1>6, <1>7 DEF NothingLeaked, HoldingsMatch, keys
<1> QED
  BY <1>4, <1>5, <1>8 DEF HoldingsMatch

(* An opaque call stops waiting.                                           *)
LEMMA OpaqueUnregisters ==
  ASSUME TypeOK, HoldingsMatch,
         NEW c \in Opaque, opaque[c].waiting, EndOpaque(c),
         UNCHANGED <<known, keys, pub>>
  PROVE  HoldingsMatch'
<1>1. Registered' = Registered /\ pub' = pub
  BY DEF Registered
<1>2. /\ Waiting' = Waiting \ {c} /\ c \in Waiting
      /\ \A d \in Waiting' : opaque'[d] = opaque[d]
  BY DEF Waiting, TypeOK, OpaqueTypes, EndOpaque, NotWaiting
<1>3. HeldIdentitiesKnown'
  BY <1>1, <1>2 DEF HeldIdentitiesKnown, HoldingsMatch
<1>4. NoConcurrentCopy'
  BY <1>1 DEF NoConcurrentCopy, HoldingsMatch
<1>5. opaqueWaiters' = Cardinality(Waiting')
  <2>1. Waiting \subseteq Opaque
    BY DEF Waiting
  <2>2. Cardinality(Waiting \ {c}) = Cardinality(Waiting) - 1
    BY <1>2, <2>1, UsersFinite, FS_RemoveElement
  <2> QED
    BY <1>2, <2>2 DEF HoldingsMatch, NothingLeaked, EndOpaque, Released
<1>6. ASSUME NEW r \in Relay
      PROVE  refs'[r] = Cardinality(UsersOf(r)') + Cardinality(WaitersOf(r)')
  <2>1. UsersOf(r)' = UsersOf(r)
    BY <1>1 DEF UsersOf
  <2>2. WaitersOf(r) \subseteq Opaque
    BY DEF WaitersOf, Waiting
  <2>3. WaitersOf(r)' = WaitersOf(r) \ {c}
    BY <1>2 DEF WaitersOf
  <2>4. c \in WaitersOf(r) <=> r \in opaque[c].relays
    BY <1>2 DEF WaitersOf
  <2>5. Cardinality(WaitersOf(r)') = Cardinality(WaitersOf(r))
                                       - (IF r \in opaque[c].relays THEN 1 ELSE 0)
    BY <2>2, <2>3, <2>4, UsersFinite, FS_RemoveElement
  <2>6. refs[r] = Cardinality(UsersOf(r)) + Cardinality(WaitersOf(r))
    BY DEF HoldingsMatch, NothingLeaked
  <2>7. refs'[r] = refs[r] - (IF r \in opaque[c].relays THEN 1 ELSE 0)
    BY DEF EndOpaque, Released, TypeOK, RegistryTypes
  <2>8. Cardinality(UsersOf(r)) \in Nat /\ Cardinality(WaitersOf(r)) \in Nat
    BY <2>2, UsersFinite DEF UsersOf, Registered
  <2> QED
    BY <2>1, <2>5, <2>6, <2>7, <2>8
<1>7. NothingLeaked'
  BY <1>1, <1>5, <1>6 DEF NothingLeaked, HoldingsMatch, keys
<1> QED
  BY <1>3, <1>4, <1>7 DEF HoldingsMatch

-----------------------------------------------------------------------------
(* Buckets.                                                                *)

(* The types of the variables that budgets are about.                      *)
LEMMA ConstantTypes ==
  /\ Token \in Nat /\ Token > 0
  /\ Aggregate.burst \in Nat /\ Aggregate.rate \in Nat
  /\ \A l \in Purpose : Lane[l].burst \in Nat /\ Lane[l].rate \in Nat
  /\ \A c \in Class : Wire[c].burst \in Nat /\ Wire[c].rate \in Nat
  /\ FullWire \in [Class -> Nat]
BY AdmissionAssumption DEF Budget, FullWire

(* New identities start with full buckets, which is what they had.         *)
LEMMA NewIdentities ==
  ASSUME TypeOK, BucketsMatch, NEW R \in SUBSET Relay, NEW K \in Registries(R)
  PROVE  /\ WireType(WireIn(K))
         /\ WireIn(K) = wire
         /\ \A r \in Relay \ K, c \in Class : wire[r][c] = Wire[c].burst
<1>1. \A r \in known \ K : Evictable(r)
  BY DEF Registries
<1>2. ASSUME NEW r \in Relay, r \notin known
      PROVE  wire[r] = FullWire
  BY <1>2 DEF BucketsMatch, FullWire, TypeOK, RegistryTypes, WireType
<1>3. WireIn(K) = wire
  BY <1>2 DEF WireIn, TypeOK, RegistryTypes, WireType
<1>4. ASSUME NEW r \in Relay \ K, NEW c \in Class
      PROVE  wire[r][c] = Wire[c].burst
  <2>1. CASE r \in known
    BY <1>1, <2>1, ConstantTypes DEF Evictable, TypeOK, RegistryTypes, WireType
  <2>2. CASE r \notin known
    BY <2>2 DEF BucketsMatch
  <2> QED
    BY <2>1, <2>2
<1> QED
  BY <1>3, <1>4 DEF TypeOK, RegistryTypes

(* One frame charged to relays that are known and have a token for it.     *)
LEMMA ChargedMatch ==
  ASSUME TypeOK, BucketsMatch, NEW R \in SUBSET Relay, NEW c \in Class,
         NEW K \in SUBSET Relay, R \subseteq K,
         \A r \in Relay \ K, d \in Class : wire[r][d] = Wire[d].burst,
         \A r \in R : wire[r][c] >= Token,
         known' = K,
         wire' = Charged(wire, R, c), allowance' = Charged(allowance, R, c)
  PROVE  BucketsMatch' /\ WireType(wire') /\ allowance' \in [Relay -> [Class -> Int]]
<1>1. ASSUME NEW r \in Relay
      PROVE  /\ wire'[r] = IF r \in R THEN [wire[r] EXCEPT ![c] = @ - Token] ELSE wire[r]
             /\ allowance'[r] = IF r \in R THEN [allowance[r] EXCEPT ![c] = @ - Token]
                                ELSE allowance[r]
  BY DEF Charged
<1>2. \A r \in Relay, d \in Class : wire[r][d] \in Nat /\ allowance[r][d] \in Int
                                      /\ wire[r][d] <= Wire[d].burst
  BY DEF TypeOK, RegistryTypes, WireType, HistoryTypes
<1>3. ASSUME NEW r \in Relay, NEW d \in Class
      PROVE  /\ wire'[r][d] = IF r \in R /\ d = c THEN wire[r][d] - Token ELSE wire[r][d]
             /\ allowance'[r][d] = IF r \in R /\ d = c THEN allowance[r][d] - Token
                                   ELSE allowance[r][d]
             /\ wire'[r][d] \in Nat /\ wire'[r][d] <= Wire[d].burst
             /\ allowance'[r][d] \in Int
  <2>1. /\ wire'[r][d] = IF r \in R /\ d = c THEN wire[r][d] - Token ELSE wire[r][d]
        /\ allowance'[r][d] = IF r \in R /\ d = c THEN allowance[r][d] - Token
                              ELSE allowance[r][d]
    <3>1. wire[r] \in [Class -> Nat] /\ allowance[r] \in [Class -> Int]
      BY DEF TypeOK, RegistryTypes, WireType, HistoryTypes
    <3>2. CASE r \in R
      <4>1. /\ wire'[r] = [wire[r] EXCEPT ![c] = @ - Token]
            /\ allowance'[r] = [allowance[r] EXCEPT ![c] = @ - Token]
        BY <1>1, <3>2
      <4> QED
        BY <3>1, <3>2, <4>1
    <3>3. CASE r \notin R
      <4>1. wire'[r] = wire[r] /\ allowance'[r] = allowance[r]
        BY <1>1, <3>3
      <4> QED
        BY <3>3, <4>1
    <3> QED
      BY <3>2, <3>3
  <2> QED
    BY <1>2, <2>1, ConstantTypes
<1>4. wire' \in [Relay -> [Class -> Nat]] /\ allowance' \in [Relay -> [Class -> Int]]
  <2>1. \A r \in Relay : wire'[r] \in [Class -> Nat] /\ allowance'[r] \in [Class -> Int]
    BY <1>1, <1>3 DEF TypeOK, RegistryTypes, WireType, HistoryTypes
  <2> QED
    BY <2>1 DEF Charged
<1>5. BucketsMatch'
  BY <1>3 DEF BucketsMatch
<1> QED
  BY <1>3, <1>4, <1>5 DEF WireType

(* A logical event charged to a lane that has a token.                     *)
LEMMA LaneSpent ==
  ASSUME BudgetTypes, NEW l \in Purpose, LaneReady(l), SpendLane(l)
  PROVE  /\ BudgetTypes'
         /\ LanesReserved => LanesReserved'
<1>1. /\ aggregate \in Nat /\ aggregate <= Aggregate.burst
      /\ aggregate >= Token /\ lanes[l] >= Token
      /\ \A m \in Purpose : lanes[m] \in Nat /\ lanes[m] <= Lane[m].burst
  BY ConstantTypes DEF BudgetTypes, LaneReady
<1>2. /\ aggregate' = aggregate - Token
      /\ lanes' = [lanes EXCEPT ![l] = @ - Token]
  BY DEF SpendLane
<1>3. \A m \in Purpose : lanes'[m] = IF m = l THEN lanes[m] - Token ELSE lanes[m]
  BY <1>2 DEF BudgetTypes
<1>4. BudgetTypes'
  BY <1>1, <1>2, <1>3, ConstantTypes DEF BudgetTypes
<1>5. LaneSum' = LaneSum - Token
  BY <1>1, <1>3, ConstantTypes DEF LaneSum, Purpose
<1>6. LaneSum \in Int
  BY <1>1 DEF LaneSum, Purpose
<1>7. LanesReserved => LanesReserved'
  BY <1>1, <1>2, <1>5, <1>6, ConstantTypes DEF LanesReserved, AggregateIsSum
<1> QED
  BY <1>4, <1>7

(* Looking up relays, whatever becomes of the call.                        *)
LEMMA Lookups ==
  ASSUME Inv, NEW R \in SUBSET Relay, NEW K \in Registries(R),
         known' = K, wire' = WireIn(K), UNCHANGED allowance
  PROVE  /\ known' \subseteq Relay /\ Cardinality(known') <= MaxIdentities
         /\ WireType(wire')
         /\ BucketsMatch'
<1>1. K \subseteq Relay /\ Cardinality(K) <= MaxIdentities
  BY RegistriesKeepHeld DEF Inv, HoldingsMatch
<1>2. /\ WireType(WireIn(K)) /\ WireIn(K) = wire
      /\ \A r \in Relay \ K, c \in Class : wire[r][c] = Wire[c].burst
  BY NewIdentities DEF Inv
<1>3. BucketsMatch'
  BY <1>2 DEF Inv, BucketsMatch
<1> QED
  BY <1>1, <1>2, <1>3

(* The reference counts after relays were held are integers.               *)
LEMMA HeldType ==
  ASSUME TypeOK, NEW R \in SUBSET Relay
  PROVE  Held(R) \in [Relay -> Int]
BY DEF TypeOK, RegistryTypes, Held

(* References taken and given back leave the counts as they were.          *)
LEMMA ReleasedHeld ==
  ASSUME TypeOK, NEW R \in SUBSET Relay
  PROVE  Released(Held(R), R) = refs
BY DEF TypeOK, RegistryTypes, Released, Held

(* Lookups of a call that is refused change neither what is held nor what  *)
(* may be sent.                                                            *)
LEMMA RefusedKeeps ==
  ASSUME Inv, NEW R \in SUBSET Relay, RegistryFull(R) \/ LookedUp(R),
         UNCHANGED <<keys, opaques, pub, allowance>>
  PROVE  RegistryTypes' /\ HoldingsMatch' /\ BucketsMatch'
<1>1. PICK P \in SUBSET R : \E K \in Registries(P) :
                              known' = K /\ wire' = WireIn(K) /\ UNCHANGED refs
  BY ReleasedHeld DEF RegistryFull, LookedUp, Inv
<1>2. PICK K \in Registries(P) : known' = K /\ wire' = WireIn(K) /\ UNCHANGED refs
  BY <1>1
<1>3. P \in SUBSET Relay
  OBVIOUS
<1>4. /\ \A p \in Registered : pub[p].relays \subseteq K
      /\ \A c \in Waiting : opaque[c].relays \subseteq K
  BY <1>3, RegistriesKeepHeld DEF Inv, HoldingsMatch
<1>5. HoldingsMatch'
  <2>1. Registered' = Registered
    BY DEF Registered
  <2> QED
    BY <1>2, <1>4, <2>1, HeldKept DEF Inv
<1>6. RegistryTypes' /\ BucketsMatch'
  BY <1>2, <1>3, Lookups DEF RegistryTypes, Inv, TypeOK
<1> QED
  BY <1>5, <1>6

-----------------------------------------------------------------------------
(* Records.                                                                *)

(* What a publication becomes when it is admitted or has to wait.          *)
LEMMA AdmittedType ==
  ASSUME GateTypes, NEW op \in Operation \cup {None}, NEW event \in Event,
         NEW R \in SUBSET Relay
  PROVE  /\ Admitted(op, event, R) \in PublicationRecord
         /\ [Admitted(op, event, R) EXCEPT !.state = "pacing", !.generation = 0]
              \in PublicationRecord
BY DEF GateTypes, Admitted, PublicationRecord

(* What a publication is without a handle.                                 *)
LEMMA NoPublicationType == NoPublication \in PublicationRecord
BY DEF NoPublication, PublicationRecord

(* Updates of one operation.                                               *)
LEMMA OperationUpdates ==
  ASSUME OperationTypes, NEW o
  PROVE  /\ \A caller \in {"idle", "waiting", "leaving", "closing", "holding", "gone"} :
              [ops EXCEPT ![o].caller = caller] \in [Operation -> OperationRecord]
         /\ \A b \in BOOLEAN :
              /\ [ops EXCEPT ![o].busy = b] \in [Operation -> OperationRecord]
              /\ [ops EXCEPT ![o].expired = b] \in [Operation -> OperationRecord]
         /\ \A p \in Publication \cup {None} :
              [ops EXCEPT ![o].outstanding = p] \in [Operation -> OperationRecord]
         /\ \A p \in Publication \cup {None} :
              [ops EXCEPT ![o] = FinishClaim(o, p)] \in [Operation -> OperationRecord]
<1>1. ops \in [Operation -> OperationRecord]
  BY DEF OperationTypes
<1>2. ASSUME NEW caller \in {"idle", "waiting", "leaving", "closing", "holding", "gone"}
      PROVE  [ops EXCEPT ![o].caller = caller] \in [Operation -> OperationRecord]
  BY <1>1 DEF OperationRecord
<1>3. ASSUME NEW b \in BOOLEAN
      PROVE  [ops EXCEPT ![o].busy = b] \in [Operation -> OperationRecord]
  BY <1>1 DEF OperationRecord
<1>4. ASSUME NEW b \in BOOLEAN
      PROVE  [ops EXCEPT ![o].expired = b] \in [Operation -> OperationRecord]
  BY <1>1 DEF OperationRecord
<1>5. ASSUME NEW p \in Publication \cup {None}
      PROVE  [ops EXCEPT ![o].outstanding = p] \in [Operation -> OperationRecord]
  BY <1>1 DEF OperationRecord
<1>6. ASSUME NEW p \in Publication \cup {None}
      PROVE  [ops EXCEPT ![o] = FinishClaim(o, p)] \in [Operation -> OperationRecord]
  <2>1. o \in Operation => FinishClaim(o, p) \in OperationRecord
    <3>1. SUFFICES ASSUME o \in Operation PROVE FinishClaim(o, p) \in OperationRecord
      OBVIOUS
    <3> DEFINE op == ops[o]
    <3>2. op \in OperationRecord
      BY <1>1, <3>1
    <3>3. [op EXCEPT !.busy = FALSE, !.used = op.used + 1, !.outstanding = p]
            \in OperationRecord
      <4> HIDE DEF op
      <4>1. op.used + 1 \in Nat
        BY <3>2 DEF OperationRecord
      <4> QED
        BY <3>2, <4>1 DEF OperationRecord
    <3> QED
      BY <3>3 DEF FinishClaim
  <2> QED
    BY <1>1, <2>1
<1> QED
  BY <1>2, <1>3, <1>4, <1>5, <1>6

(* A step that leaves publications, opaque calls, the registry and the     *)
(* keys alone.                                                             *)
LEMMA Elsewhere ==
  ASSUME Inv, UNCHANGED <<registry, keys, pub, opaques, allowance>>
  PROVE  RegistryTypes' /\ KeyTypes' /\ OpaqueTypes' /\ HoldingsMatch' /\ BucketsMatch'
<1> USE DEF registry, keys, opaques
<1>1. RegistryTypes' /\ KeyTypes' /\ OpaqueTypes'
  BY DEF Inv, TypeOK, RegistryTypes, WireType, KeyTypes, OpaqueTypes
<1>2. BucketsMatch'
  BY DEF Inv, BucketsMatch
<1>3. HoldingsMatch'
  <2>1. Registered' = Registered
    BY DEF Registered
  <2> QED
    BY <2>1, HeldKept DEF Inv, HoldingsMatch, HeldIdentitiesKnown
<1> QED
  BY <1>1, <1>2, <1>3

-----------------------------------------------------------------------------
(* Ordinary publications.                                                  *)

(* Registering keeps the types, the bounds and the buckets.                *)
LEMMA RegisterTypes ==
  ASSUME Inv, NEW event \in Event, NEW R \in SUBSET Relay,
         Registrable(event, R), Register(event, R), UNCHANGED allowance
  PROVE  RegistryTypes' /\ KeyTypes' /\ BucketsMatch'
<1>1. PICK K \in Registries(R) : known' = K /\ wire' = WireIn(K)
  BY DEF Register
<1>2. RegistryTypes' /\ BucketsMatch'
  BY <1>1, Lookups, HeldType DEF Register, RegistryTypes, Inv
<1>3. KeyTypes'
  BY AdmissionAssumption DEF Register, Registrable, KeyTypes, Keys, Inv, TypeOK
<1> QED
  BY <1>2, <1>3

(* Begin admits a publication.                                             *)
LEMMA BeginStep ==
  ASSUME Inv, NEW p \in Publication, NEW event \in Event, NEW R \in SUBSET Relay,
         Begin(p, event, R)
  PROVE  Inv'
<1> DEFINE need == Pending(event, R)
<1>1. need \in SUBSET Relay
  BY DEF Pending
<1>2. /\ pub[p].state = "idle"
      /\ Registrable(event, need) /\ Register(event, need)
      /\ LaneReady(PurposeForEvent[event]) /\ SpendLane(PurposeForEvent[event])
      /\ pub' = [pub EXCEPT ![p] = Admitted(None, event, need)]
      /\ fresh' = fresh \cup {p}
      /\ UNCHANGED <<gates, receipts, flight, operations, opaques, allowance>>
  BY DEF Begin
<1> HIDE DEF need
<1>3. BudgetTypes' /\ LanesReserved'
  BY <1>2, AdmissionAssumption, LaneSpent DEF Inv, TypeOK
<1>4. RegistryTypes' /\ KeyTypes' /\ BucketsMatch'
  BY <1>1, <1>2, RegisterTypes
<1>5. PublicationTypes'
  BY <1>1, <1>2, AdmittedType DEF PublicationTypes, Inv, TypeOK
<1>6. HoldingsMatch'
  <2>1. /\ pub'[p] = Admitted(None, event, need)
        /\ \A q \in Publication \ {p} : pub'[q] = pub[q]
    BY <1>2 DEF PublicationTypes, Inv, TypeOK
  <2>2. p \notin Registered /\ p \in Registered'
    BY <1>2, <2>1 DEF Registered, Admitted
  <2> QED
    BY <1>1, <1>2, <2>1, <2>2, PublicationRegisters DEF Admitted, Inv
<1> QED
  BY <1>2, <1>3, <1>4, <1>5, <1>6
  DEF Inv, TypeOK, GateTypes, OperationTypes, OpaqueTypes, HistoryTypes,
      gates, operations, opaques

(* Begin registers, is refused and rolls back.                             *)
LEMMA BeginRefusedStep ==
  ASSUME Inv, NEW event \in Event, NEW R \in SUBSET Relay, BeginRefused(event, R)
  PROVE  Inv'
<1> DEFINE need == Pending(event, R)
<1>1. need \in SUBSET Relay
  BY DEF Pending
<1>2. UNCHANGED <<gates, budgets, keys, receipts, pubs, operations, opaques, history>>
  BY DEF BeginRefused
<1>3. RegistryFull(need) \/ LookedUp(need)
  BY DEF BeginRefused
<1> HIDE DEF need
<1>4. RegistryTypes' /\ HoldingsMatch' /\ BucketsMatch'
  BY <1>1, <1>2, <1>3, RefusedKeeps DEF pubs, history
<1> QED
  BY <1>2, <1>4
  DEF Inv, TypeOK, GateTypes, BudgetTypes, KeyTypes, PublicationTypes, OperationTypes,
      OpaqueTypes, HistoryTypes, LanesReserved, LaneSum,
      gates, budgets, keys, pubs, operations, opaques, history

(* One frame to a relay the publication refers to.                         *)
LEMMA BeforeAttemptStep ==
  ASSUME Inv, NEW p \in Publication, NEW r \in Relay, BeforeAttempt(p, r)
  PROVE  Inv'
<1> DEFINE class == ClassOf(Purposed(p))
<1>1. class \in Class
  BY DEF ClassOf, Class
<1>2. /\ pub[p].state = "open" /\ r \in pub[p].relays
      /\ wire[r][class] >= Token
      /\ wire' = Charged(wire, {r}, class)
      /\ allowance' = Charged(allowance, {r}, class)
      /\ flight' = [flight EXCEPT ![p] = @ \cup {r}]
      /\ UNCHANGED <<gates, budgets, known, refs, keys, receipts, pub, operations,
                     opaques, fresh>>
  BY DEF BeforeAttempt
<1> HIDE DEF class
<1>3. r \in known
  BY <1>2 DEF Inv, HoldingsMatch, HeldIdentitiesKnown, Registered
<1>4. BucketsMatch' /\ WireType(wire') /\ allowance' \in [Relay -> [Class -> Int]]
  <2>1. known \in SUBSET Relay
    BY DEF Inv, TypeOK, RegistryTypes
  <2>2. \A q \in Relay \ known, d \in Class : wire[q][d] = Wire[d].burst
    BY DEF Inv, BucketsMatch
  <2>3. /\ {r} \in SUBSET Relay /\ {r} \subseteq known
        /\ \A q \in {r} : wire[q][class] >= Token
    BY <1>2, <1>3
  <2>4. known' = known
    BY <1>2
  <2>5. TypeOK /\ BucketsMatch
    BY DEF Inv
  <2> QED
    BY <1>1, <1>2, <2>1, <2>2, <2>3, <2>4, <2>5, ChargedMatch
<1>5. HoldingsMatch'
  <2>1. Registered' = Registered
    BY <1>2 DEF Registered
  <2> QED
    BY <1>2, <2>1, HeldKept DEF Inv, HoldingsMatch, HeldIdentitiesKnown
<1>6. PublicationTypes'
  BY <1>2 DEF Inv, TypeOK, PublicationTypes
<1> QED
  BY <1>2, <1>4, <1>5, <1>6
  DEF Inv, TypeOK, GateTypes, BudgetTypes, RegistryTypes, KeyTypes, OperationTypes,
      OpaqueTypes, HistoryTypes, LanesReserved, LaneSum,
      gates, budgets, keys, operations, opaques

(* Opening and closing the circuit.                                        *)
LEMMA BreakerTypes ==
  ASSUME GateTypes
  PROVE  /\ OpenBreaker => breaker' \in [wait : Nat, delay : Nat, generation : Nat]
         /\ \A g : CloseBreaker(g) => breaker' \in [wait : Nat, delay : Nat, generation : Nat]
<1>1. breaker \in [wait : Nat, delay : Nat, generation : Nat]
  BY DEF GateTypes
<1>2. ASSUME OpenBreaker
      PROVE  breaker' \in [wait : Nat, delay : Nat, generation : Nat]
  <2> DEFINE delay == IF breaker.delay < BreakerMin THEN BreakerMin
                      ELSE Least(2 * breaker.delay, BreakerMax)
  <2>1. delay \in Nat
    BY <1>1, AdmissionAssumption DEF Least
  <2>2. PICK jitter \in 0 .. (delay \div 5) :
          breaker' = [wait |-> Greatest(breaker.wait, delay + jitter),
                      delay |-> delay, generation |-> breaker.generation + 1]
    BY <1>2 DEF OpenBreaker
  <2> HIDE DEF delay
  <2>3. jitter \in Nat
    BY <2>1, <2>2
  <2>4. Greatest(breaker.wait, delay + jitter) \in Nat
    BY <1>1, <2>1, <2>3 DEF Greatest
  <2> QED
    BY <1>1, <2>1, <2>2, <2>4
<1>3. ASSUME NEW g, CloseBreaker(g)
      PROVE  breaker' \in [wait : Nat, delay : Nat, generation : Nat]
  BY <1>1, <1>3 DEF CloseBreaker
<1> QED
  BY <1>2, <1>3

(* Taking an element out of a sequence leaves a sequence.                  *)
LEMMA WithoutType ==
  ASSUME NEW S, NEW s \in Seq(S), NEW x
  PROVE  Without(s, x) \in Seq(S)
<1>1. CASE \E i \in DOMAIN s : s[i] = x
  <2> DEFINE i == CHOOSE i \in DOMAIN s : s[i] = x
  <2>1. Without(s, x) = SubSeq(s, 1, i - 1) \o SubSeq(s, i + 1, Len(s))
    BY <1>1 DEF Without
  <2>2. i \in 1 .. Len(s)
    BY <1>1
  <2> HIDE DEF i
  <2>3. /\ SubSeq(s, 1, i - 1) \in Seq(S)
        /\ SubSeq(s, i + 1, Len(s)) \in Seq(S)
    BY <2>2, SubSeqProperties
  <2> QED
    BY <2>1, <2>3, ConcatProperties
<1>2. CASE ~ \E i \in DOMAIN s : s[i] = x
  BY <1>2 DEF Without
<1> QED
  BY <1>1, <1>2

(* A step that holds, gives back and spends nothing keeps the invariant if *)
(* it keeps the types of what it changes.                                  *)
LEMMA NothingHeldStep ==
  ASSUME Inv, UNCHANGED <<budgets, registry, keys, pub, opaques, allowance>>,
         GateTypes', receipts' \in Seq(Event \X Relay), PublicationTypes',
         OperationTypes', fresh' \subseteq Publication
  PROVE  Inv'
<1>1. RegistryTypes' /\ KeyTypes' /\ OpaqueTypes' /\ HoldingsMatch' /\ BucketsMatch'
  BY Elsewhere
<1>2. BudgetTypes' /\ LanesReserved'
  BY DEF Inv, TypeOK, BudgetTypes, LanesReserved, LaneSum, budgets
<1>3. HistoryTypes'
  BY DEF Inv, TypeOK, HistoryTypes
<1> QED
  BY <1>1, <1>2, <1>3 DEF Inv, TypeOK

(* The list of receipts stays a list of event and relay pairs.             *)
LEMMA StoreReceiptType ==
  ASSUME TypeOK, NEW key \in Event \X Relay
  PROVE  StoreReceipt(key) \in Seq(Event \X Relay)
<1> DEFINE longer == Append(Without(receipts, key), key)
<1>1. Without(receipts, key) \in Seq(Event \X Relay)
  BY WithoutType DEF TypeOK
<1>2. longer \in Seq(Event \X Relay) /\ longer # <<>>
  BY <1>1, AppendProperties
<1>3. Tail(longer) \in Seq(Event \X Relay)
  BY <1>2, HeadTailProperties
<1> QED
  BY <1>2, <1>3 DEF StoreReceipt

(* A result that arrives late leaves what others hold alone: a publication *)
(* it ends was closed before.                                              *)
LEMMA ObserveStep ==
  ASSUME Inv, NEW p \in Publication, NEW r \in Relay, Observe(p, r)
  PROVE  Inv'
<1>1. /\ pub' = [pub EXCEPT ![p] = Kept(@, flight[p] \ {r})]
      /\ flight' = [flight EXCEPT ![p] = @ \ {r}]
      /\ r \in flight[p]
      /\ UNCHANGED <<killed, budgets, registry, keys, operations, opaques, allowance>>
  BY DEF Observe
<1>2. pub \in [Publication -> PublicationRecord] /\ flight \in [Publication -> SUBSET Relay]
  BY DEF Inv, TypeOK, PublicationTypes
<1>3. PublicationTypes'
  BY <1>1, <1>2, NoPublicationType DEF PublicationTypes, Kept
<1>4. \A q \in Publication :
        pub'[q] = pub[q] \/ (pub[q].state = "closed" /\ pub'[q] = NoPublication)
  BY <1>1, <1>2 DEF Kept
<1>5. HoldingsMatch'
  <2>1. \A q \in Publication :
          /\ q \in Registered' <=> q \in Registered
          /\ q \in Registered => pub'[q] = pub[q]
    BY <1>4 DEF Registered, NoPublication
  <2>2. known' = known /\ UNCHANGED <<refs, keys, opaques>>
    BY <1>1 DEF registry
  <2> QED
    BY <2>1, <2>2, HeldKept DEF Inv, HoldingsMatch, HeldIdentitiesKnown
<1>6. breaker' \in [wait : Nat, delay : Nat, generation : Nat] /\ fresh' \subseteq Publication
  <2>1. GateTypes /\ breaker \in [wait : Nat, delay : Nat, generation : Nat]
          /\ fresh \subseteq Publication
    BY DEF Inv, TypeOK, GateTypes, HistoryTypes
  <2>2. \/ OpenBreaker
        \/ CloseBreaker(pub[p].generation) /\ fresh' = fresh
        \/ breaker' = breaker /\ fresh' = fresh
    BY DEF Observe
  <2>3. OpenBreaker => fresh' = {}
    BY DEF OpenBreaker
  <2> QED
    BY <2>1, <2>2, <2>3, BreakerTypes
<1>7. receipts' \in Seq(Event \X Relay)
  <2>1. pub[p].event \in Signed => <<pub[p].event, r>> \in Event \X Relay
    BY AdmissionAssumption
  <2>2. \/ receipts' = receipts
        \/ pub[p].event \in Signed /\ receipts' = StoreReceipt(<<pub[p].event, r>>)
    BY DEF Observe
  <2> QED
    BY <2>1, <2>2, StoreReceiptType DEF Inv, TypeOK
<1> QED
  BY <1>1, <1>3, <1>5, <1>6, <1>7
  DEF Inv, TypeOK, GateTypes, BudgetTypes, RegistryTypes, WireType, KeyTypes, OperationTypes,
      OpaqueTypes, HistoryTypes, BucketsMatch, LanesReserved, LaneSum,
      budgets, registry, keys, operations, opaques

(* Close and a refused wait give back what the publication held.           *)
LEMMA UnregisterTypes ==
  ASSUME Inv, NEW p \in Publication, Unregister(p), UNCHANGED <<known, wire, allowance>>
  PROVE  RegistryTypes' /\ KeyTypes' /\ BucketsMatch'
<1>1. refs' \in [Relay -> Int]
  BY DEF Unregister, Inv, TypeOK, RegistryTypes
<1>2. RegistryTypes' /\ BucketsMatch'
  BY <1>1 DEF Inv, TypeOK, RegistryTypes, WireType, BucketsMatch
<1>3. KeyTypes'
  BY AdmissionAssumption DEF Unregister, Inv, TypeOK, KeyTypes
<1> QED
  BY <1>2, <1>3

(* Closing a publication that may still wait for results.                  *)
LEMMA CloseStep ==
  ASSUME Inv, NEW p \in Publication, Close(p)
  PROVE  Inv'
<1> DEFINE op == pub[p].op
<1>1. /\ pub[p].state = "open" /\ Unregister(p)
      /\ pub' = [pub EXCEPT ![p] = Kept([@ EXCEPT !.state = "closed"], flight[p])]
      /\ ops' = IF op # None /\ ops[op].outstanding = p
                THEN [ops EXCEPT ![op].outstanding = None] ELSE ops
      /\ UNCHANGED <<gates, budgets, known, wire, receipts, flight, operation,
                     queue, opaques, history>>
  BY DEF Close
<1> HIDE DEF op
<1>2. pub \in [Publication -> PublicationRecord] /\ flight \in [Publication -> SUBSET Relay]
  BY DEF Inv, TypeOK, PublicationTypes
<1>3. /\ pub'[p] \in PublicationRecord /\ pub'[p].state \in {"idle", "closed"}
      /\ \A q \in Publication \ {p} : pub'[q] = pub[q]
  <2>1. [pub[p] EXCEPT !.state = "closed"] \in PublicationRecord
    BY <1>2 DEF PublicationRecord
  <2>2. [pub[p] EXCEPT !.state = "closed"].state = "closed"
    BY <1>2 DEF PublicationRecord
  <2>3. pub'[p] = Kept([pub[p] EXCEPT !.state = "closed"], flight[p])
    BY <1>1, <1>2
  <2>4. \A q \in Publication \ {p} : pub'[q] = pub[q]
    BY <1>1, <1>2
  <2>5. NoPublication.state = "idle"
    BY DEF NoPublication
  <2> QED
    BY <2>1, <2>2, <2>3, <2>4, <2>5, NoPublicationType DEF Kept
<1>4. PublicationTypes'
  BY <1>1, <1>2, <1>3 DEF PublicationTypes
<1>5. HoldingsMatch'
  <2>1. p \in Registered /\ p \notin Registered'
    BY <1>1, <1>3 DEF Registered
  <2> QED
    BY <1>1, <1>3, <2>1, PublicationUnregisters DEF Inv
<1>6. RegistryTypes' /\ KeyTypes' /\ BucketsMatch'
  BY <1>1, UnregisterTypes DEF history
<1>7. OperationTypes'
  <2>1. OperationTypes
    BY DEF Inv, TypeOK
  <2>2. [ops EXCEPT ![op].outstanding = None] \in [Operation -> OperationRecord]
    BY <2>1, OperationUpdates
  <2> QED
    BY <1>1, <2>1, <2>2 DEF OperationTypes
<1> QED
  BY <1>1, <1>4, <1>5, <1>6, <1>7
  DEF Inv, TypeOK, GateTypes, BudgetTypes, OpaqueTypes, HistoryTypes,
      LanesReserved, LaneSum, gates, budgets, opaques, history

-----------------------------------------------------------------------------
(* Operations.                                                             *)

(* A call of BeginOperation, and the steps of the calls that wait.         *)
LEMMA QueueSteps ==
  ASSUME Inv, NEW o \in Operation,
         \/ BeginOperation(o) \/ OperationReady(o) \/ LeaveQueue(o)
         \/ AbandonOperationWaiter(o) \/ CloseOperation(o) \/ OperationExpires(o)
  PROVE  Inv'
<1>1. OperationTypes /\ ops \in [Operation -> OperationRecord]
        /\ operation \in Operation \cup {None} /\ queue \in Seq(Operation)
  BY DEF Inv, TypeOK, OperationTypes
<1>2. UNCHANGED <<gates, budgets, registry, keys, receipts, pubs, opaques, history>>
  BY DEF BeginOperation, OperationReady, LeaveQueue, AbandonOperationWaiter,
         CloseOperation, OperationExpires
<1>3. OperationTypes'
  <2>1. CASE BeginOperation(o)
    <3>1. Activated(o, "holding") \in OperationRecord
      BY <1>1 DEF Activated, OperationRecord
    <3>2. Append(queue, o) \in Seq(Operation)
      BY <1>1, AppendProperties
    <3>3. \/ operation' = o /\ queue' = queue
             /\ ops' = [ops EXCEPT ![o] = Activated(o, "holding")]
          \/ operation' = operation /\ queue' = Append(queue, o)
             /\ ops' = [ops EXCEPT ![o].caller = "waiting"]
      BY <2>1 DEF BeginOperation
    <3>4. [ops EXCEPT ![o] = Activated(o, "holding")] \in [Operation -> OperationRecord]
      BY <1>1, <3>1
    <3>5. [ops EXCEPT ![o].caller = "waiting"] \in [Operation -> OperationRecord]
      BY <1>1, OperationUpdates
    <3> QED
      BY <1>1, <3>2, <3>3, <3>4, <3>5 DEF OperationTypes
  <2>2. CASE OperationReady(o) \/ LeaveQueue(o) \/ OperationExpires(o)
    <3>1. /\ [ops EXCEPT ![o].caller = "holding"] \in [Operation -> OperationRecord]
          /\ [ops EXCEPT ![o].caller = "leaving"] \in [Operation -> OperationRecord]
          /\ [ops EXCEPT ![o].expired = TRUE] \in [Operation -> OperationRecord]
      BY <1>1, OperationUpdates
    <3> QED
      BY <1>1, <2>2, <3>1 DEF OperationReady, LeaveQueue, OperationExpires, OperationTypes
  <2>3. CASE AbandonOperationWaiter(o)
    <3>1. /\ [ops EXCEPT ![o].caller = "closing"] \in [Operation -> OperationRecord]
          /\ [ops EXCEPT ![o].caller = "gone"] \in [Operation -> OperationRecord]
      BY <1>1, OperationUpdates
    <3>2. Without(queue, o) \in Seq(Operation)
      BY <1>1, WithoutType
    <3> QED
      BY <1>1, <2>3, <3>1, <3>2 DEF AbandonOperationWaiter, OperationTypes
  <2>4. CASE CloseOperation(o)
    <3> DEFINE gone   == [ops[o] EXCEPT !.closed = TRUE, !.caller = "gone"]
               closed == [ops EXCEPT ![o] = gone]
    <3>1. gone \in OperationRecord
      BY <1>1 DEF OperationRecord
    <3>2. closed \in [Operation -> OperationRecord]
      BY <1>1, <3>1
    <3>3. \/ /\ queue # <<>> /\ operation' = Head(queue) /\ queue' = Tail(queue)
             /\ ops' = [closed EXCEPT ![Head(queue)].activated = TRUE]
          \/ /\ operation' \in {None, operation} /\ queue' = queue
             /\ ops' = closed
      BY <2>4 DEF CloseOperation
    <3> HIDE DEF closed
    <3>4. [closed EXCEPT ![Head(queue)].activated = TRUE] \in [Operation -> OperationRecord]
      BY <3>2 DEF OperationRecord
    <3>5. queue # <<>> => Head(queue) \in Operation /\ Tail(queue) \in Seq(Operation)
      BY <1>1, HeadTailProperties
    <3> QED
      BY <1>1, <3>2, <3>3, <3>4, <3>5 DEF OperationTypes
  <2> QED
    BY <2>1, <2>2, <2>3, <2>4
<1>4. GateTypes' /\ PublicationTypes' /\ receipts' \in Seq(Event \X Relay)
        /\ fresh' \subseteq Publication
  BY <1>2 DEF Inv, TypeOK, GateTypes, PublicationTypes, HistoryTypes, gates, pubs, history
<1> QED
  BY <1>2, <1>3, <1>4, NothingHeldStep DEF pubs, history

(* An operation starts a publication, which may have to wait.              *)
LEMMA OperationBeginStep ==
  ASSUME Inv, NEW o \in Operation, NEW p \in Publication, NEW event \in Event,
         NEW R \in SUBSET Relay, OperationBegin(o, p, event, R)
  PROVE  Inv'
<1> DEFINE need   == Pending(event, R)
           paced  == [Admitted(o, event, need) EXCEPT !.state = "pacing", !.generation = 0]
<1>1. need \in SUBSET Relay
  BY DEF Pending
<1>2. /\ pub[p].state = "idle"
      /\ Registrable(event, need) /\ Register(event, need)
      /\ UNCHANGED <<gates, receipts, flight, operation, queue, opaques, allowance>>
  BY DEF OperationBegin
<1>3. \/ /\ LaneReady("bulk") /\ SpendLane("bulk")
         /\ pub' = [pub EXCEPT ![p] = Admitted(o, event, need)]
         /\ ops' = [ops EXCEPT ![o] = FinishClaim(o, p)]
         /\ fresh' = fresh \cup {p}
      \/ /\ UNCHANGED <<budgets, fresh>>
         /\ pub' = [pub EXCEPT ![p] = paced]
         /\ ops' = [ops EXCEPT ![o].busy = TRUE]
  BY DEF OperationBegin, BulkReady
<1>4. /\ Admitted(o, event, need) \in PublicationRecord /\ paced \in PublicationRecord
      /\ Admitted(o, event, need).state = "open" /\ paced.state = "pacing"
      /\ Admitted(o, event, need).event = event /\ paced.event = event
      /\ Admitted(o, event, need).relays = need /\ paced.relays = need
  <2>1. GateTypes
    BY DEF Inv, TypeOK
  <2>2. Admitted(o, event, need) \in PublicationRecord /\ paced \in PublicationRecord
    BY <1>1, <2>1, AdmittedType
  <2> QED
    BY <2>2 DEF Admitted
<1> HIDE DEF need, paced
<1>5. BudgetTypes' /\ LanesReserved'
  <2>1. "bulk" \in Purpose
    BY DEF Purpose
  <2>2. CASE LaneReady("bulk") /\ SpendLane("bulk")
    BY <2>1, <2>2, LaneSpent DEF Inv, TypeOK
  <2>3. CASE UNCHANGED budgets
    BY <2>3 DEF Inv, TypeOK, BudgetTypes, LanesReserved, LaneSum, budgets
  <2> QED
    BY <1>3, <2>2, <2>3
<1>6. RegistryTypes' /\ KeyTypes' /\ BucketsMatch'
  BY <1>1, <1>2, RegisterTypes
<1>7. pub \in [Publication -> PublicationRecord] /\ flight \in [Publication -> SUBSET Relay]
  BY DEF Inv, TypeOK, PublicationTypes
<1>8. PublicationTypes'
  BY <1>2, <1>3, <1>4, <1>7 DEF PublicationTypes
<1>9. OperationTypes' /\ fresh' \subseteq Publication
  <2>1. OperationTypes /\ fresh \subseteq Publication
    BY DEF Inv, TypeOK, HistoryTypes
  <2>2. /\ [ops EXCEPT ![o] = FinishClaim(o, p)] \in [Operation -> OperationRecord]
        /\ [ops EXCEPT ![o].busy = TRUE] \in [Operation -> OperationRecord]
    BY <2>1, OperationUpdates
  <2> QED
    BY <1>2, <1>3, <2>1, <2>2 DEF OperationTypes
<1>10. HoldingsMatch'
  <2>1. /\ pub'[p].state \in {"open", "pacing"}
        /\ pub'[p].event = event /\ pub'[p].relays = need
        /\ \A q \in Publication \ {p} : pub'[q] = pub[q]
    BY <1>3, <1>4, <1>7
  <2>2. p \notin Registered /\ p \in Registered'
    BY <1>2, <2>1 DEF Registered
  <2> QED
    BY <1>1, <1>2, <2>1, <2>2, PublicationRegisters DEF Inv
<1> QED
  BY <1>2, <1>5, <1>6, <1>8, <1>9, <1>10
  DEF Inv, TypeOK, GateTypes, OpaqueTypes, HistoryTypes, gates, opaques

(* An operation's event that needs no publication, or finds no room for    *)
(* its relays.                                                             *)
LEMMA OperationBeginDoneStep ==
  ASSUME Inv, NEW o \in Operation, NEW event \in Event, NEW R \in SUBSET Relay,
         OperationBeginDone(o, event, R)
  PROVE  Inv'
<1> DEFINE need == Pending(event, R)
<1>1. need \in SUBSET Relay
  BY DEF Pending
<1>2. UNCHANGED <<gates, budgets, keys, receipts, pubs, operation, queue, opaques, history>>
  BY DEF OperationBeginDone
<1>3. \/ ops' = [ops EXCEPT ![o] = FinishClaim(o, None)] /\ UNCHANGED registry
      \/ (RegistryFull(need) \/ LookedUp(need)) /\ UNCHANGED ops
  BY DEF OperationBeginDone
<1> HIDE DEF need
<1>4. RegistryTypes' /\ HoldingsMatch' /\ BucketsMatch'
  <2>1. CASE RegistryFull(need) \/ LookedUp(need)
    BY <1>1, <1>2, <2>1, RefusedKeeps DEF pubs, history
  <2>2. CASE UNCHANGED registry
    BY <1>2, <2>2, Elsewhere DEF pubs, history
  <2> QED
    BY <1>3, <2>1, <2>2
<1>5. OperationTypes'
  <2>1. OperationTypes
    BY DEF Inv, TypeOK
  <2>2. [ops EXCEPT ![o] = FinishClaim(o, None)] \in [Operation -> OperationRecord]
    BY <2>1, OperationUpdates
  <2> QED
    BY <1>2, <1>3, <2>1, <2>2 DEF OperationTypes
<1> QED
  BY <1>2, <1>4, <1>5
  DEF Inv, TypeOK, GateTypes, BudgetTypes, KeyTypes, PublicationTypes, OpaqueTypes,
      HistoryTypes, LanesReserved, LaneSum,
      gates, budgets, keys, pubs, opaques, history

(* A publication that waited is admitted.                                  *)
LEMMA PacedAdmittedStep ==
  ASSUME Inv, NEW p \in Publication, PacedAdmitted(p)
  PROVE  Inv'
<1> DEFINE o     == pub[p].op
           admit == [pub[p] EXCEPT !.state = "open", !.generation = breaker.generation]
<1>1. /\ pub[p].state = "pacing"
      /\ LaneReady("bulk") /\ SpendLane("bulk")
      /\ pub' = [pub EXCEPT ![p] = admit]
      /\ ops' = [ops EXCEPT ![o] = FinishClaim(o, p)]
      /\ fresh' = fresh \cup {p}
      /\ UNCHANGED <<gates, registry, keys, receipts, flight, operation, queue,
                     opaques, allowance>>
  BY DEF PacedAdmitted, BulkReady
<1>2. pub \in [Publication -> PublicationRecord] /\ flight \in [Publication -> SUBSET Relay]
  BY DEF Inv, TypeOK, PublicationTypes
<1>3. /\ admit \in PublicationRecord /\ admit.state = "open"
      /\ admit.event = pub[p].event /\ admit.relays = pub[p].relays
  BY <1>2 DEF PublicationRecord, Inv, TypeOK, GateTypes
<1> HIDE DEF o, admit
<1>4. BudgetTypes' /\ LanesReserved'
  <2>1. "bulk" \in Purpose
    BY DEF Purpose
  <2> QED
    BY <1>1, <2>1, LaneSpent DEF Inv, TypeOK
<1>5. PublicationTypes'
  BY <1>1, <1>2, <1>3 DEF PublicationTypes
<1>6. OperationTypes' /\ fresh' \subseteq Publication
  <2>1. OperationTypes /\ fresh \subseteq Publication
    BY DEF Inv, TypeOK, HistoryTypes
  <2>2. [ops EXCEPT ![o] = FinishClaim(o, p)] \in [Operation -> OperationRecord]
    BY <2>1, OperationUpdates
  <2> QED
    BY <1>1, <2>1, <2>2 DEF OperationTypes
<1>7. HoldingsMatch'
  <2>1. \A q \in Publication :
          /\ q \in Registered' <=> q \in Registered
          /\ pub'[q].event = pub[q].event
          /\ pub'[q].relays = pub[q].relays
    BY <1>1, <1>2, <1>3 DEF Registered
  <2>2. known' = known /\ UNCHANGED <<refs, keys, opaques>>
    BY <1>1 DEF registry
  <2> QED
    BY <2>1, <2>2, HeldKept DEF Inv, HoldingsMatch, HeldIdentitiesKnown
<1> QED
  BY <1>1, <1>4, <1>5, <1>6, <1>7
  DEF Inv, TypeOK, GateTypes, RegistryTypes, WireType, KeyTypes, OpaqueTypes, HistoryTypes,
      BucketsMatch, gates, registry, keys, opaques

(* A publication that waited is refused.                                   *)
LEMMA PacedRefusedStep ==
  ASSUME Inv, NEW p \in Publication, PacedRefused(p)
  PROVE  Inv'
<1> DEFINE o == pub[p].op
<1>1. /\ pub[p].state = "pacing" /\ Unregister(p)
      /\ pub' = [pub EXCEPT ![p] = NoPublication]
      /\ ops' = [ops EXCEPT ![o].busy = FALSE]
      /\ UNCHANGED <<gates, budgets, known, wire, receipts, flight, operation,
                     queue, opaques, history>>
  BY DEF PacedRefused
<1> HIDE DEF o
<1>2. pub \in [Publication -> PublicationRecord] /\ flight \in [Publication -> SUBSET Relay]
  BY DEF Inv, TypeOK, PublicationTypes
<1>3. PublicationTypes'
  BY <1>1, <1>2, NoPublicationType DEF PublicationTypes
<1>4. HoldingsMatch'
  <2>1. pub'[p] = NoPublication /\ \A q \in Publication \ {p} : pub'[q] = pub[q]
    BY <1>1, <1>2
  <2>2. p \in Registered /\ p \notin Registered'
    BY <1>1, <2>1 DEF Registered, NoPublication
  <2> QED
    BY <1>1, <2>1, <2>2, PublicationUnregisters DEF Inv
<1>5. RegistryTypes' /\ KeyTypes' /\ BucketsMatch'
  BY <1>1, UnregisterTypes DEF history
<1>6. OperationTypes'
  <2>1. OperationTypes
    BY DEF Inv, TypeOK
  <2>2. [ops EXCEPT ![o].busy = FALSE] \in [Operation -> OperationRecord]
    BY <2>1, OperationUpdates
  <2> QED
    BY <1>1, <2>1, <2>2 DEF OperationTypes
<1> QED
  BY <1>1, <1>3, <1>4, <1>5, <1>6
  DEF Inv, TypeOK, GateTypes, BudgetTypes, OpaqueTypes, HistoryTypes,
      LanesReserved, LaneSum, gates, budgets, opaques, history

-----------------------------------------------------------------------------
(* AUTH frames and opaque requests.                                        *)

(* Relays looked up and charged at once.                                   *)
LEMMA LookedUpCharged ==
  ASSUME Inv, NEW R \in SUBSET Relay, NEW K \in Registries(R), NEW c \in Class,
         \A r \in R : WireIn(K)[r][c] >= Token,
         known' = K, wire' = Charged(WireIn(K), R, c),
         allowance' = Charged(allowance, R, c)
  PROVE  /\ known' \subseteq Relay /\ Cardinality(known') <= MaxIdentities
         /\ WireType(wire') /\ BucketsMatch'
         /\ allowance' \in [Relay -> [Class -> Int]]
<1>1. TypeOK /\ BucketsMatch /\ NothingLeaked /\ HeldIdentitiesKnown
  BY DEF Inv, HoldingsMatch
<1>2. K \in SUBSET Relay /\ R \subseteq K /\ Cardinality(K) <= MaxIdentities
  BY <1>1, RegistriesKeepHeld
<1>3. /\ WireIn(K) = wire
      /\ \A r \in Relay \ K, d \in Class : wire[r][d] = Wire[d].burst
  BY <1>1, NewIdentities
<1>4. /\ \A r \in R : wire[r][c] >= Token
      /\ wire' = Charged(wire, R, c)
  BY <1>3
<1>5. BucketsMatch' /\ WireType(wire') /\ allowance' \in [Relay -> [Class -> Int]]
  BY <1>1, <1>2, <1>3, <1>4, ChargedMatch
<1> QED
  BY <1>2, <1>5

(* Lookups alone change nothing that is held.                              *)
LEMMA LookupsKeepHoldings ==
  ASSUME Inv, NEW R \in SUBSET Relay, NEW K \in Registries(R), known' = K,
         UNCHANGED <<refs, keys, opaques, pub>>
  PROVE  HoldingsMatch'
<1>1. /\ \A p \in Registered : pub[p].relays \subseteq K
      /\ \A c \in Waiting : opaque[c].relays \subseteq K
  BY RegistriesKeepHeld DEF Inv, HoldingsMatch
<1>2. Registered' = Registered
  BY DEF Registered
<1> QED
  BY <1>1, <1>2, HeldKept DEF Inv

(* An AUTH frame is admitted or refused.                                   *)
LEMMA AdmitAuthStep ==
  ASSUME Inv, NEW r \in Relay, AdmitAuth(r)
  PROVE  Inv'
<1>1. UNCHANGED <<gates, refs, keys, receipts, pubs, operations, opaques, fresh>>
  BY DEF AdmitAuth
<1>2. PICK K \in Registries({r}) :
        /\ known' = K
        /\ \/ /\ LaneReady("priority") /\ WireIn(K)[r]["priority"] >= Token
              /\ SpendLane("priority")
              /\ wire' = Charged(WireIn(K), {r}, "priority")
              /\ allowance' = Charged(allowance, {r}, "priority")
           \/ wire' = WireIn(K) /\ UNCHANGED <<budgets, allowance>>
  BY DEF AdmitAuth
<1>3. {r} \in SUBSET Relay /\ "priority" \in Class /\ "priority" \in Purpose
  BY DEF Class, Purpose
<1>4. HoldingsMatch'
  BY <1>1, <1>2, <1>3, LookupsKeepHoldings DEF pubs
<1>5. /\ known' \subseteq Relay /\ Cardinality(known') <= MaxIdentities
      /\ WireType(wire') /\ BucketsMatch'
      /\ allowance' \in [Relay -> [Class -> Int]]
      /\ BudgetTypes' /\ LanesReserved'
  <2>1. CASE /\ LaneReady("priority") /\ WireIn(K)[r]["priority"] >= Token
             /\ SpendLane("priority")
             /\ wire' = Charged(WireIn(K), {r}, "priority")
             /\ allowance' = Charged(allowance, {r}, "priority")
    <3>1. BudgetTypes' /\ LanesReserved'
      BY <1>3, <2>1, LaneSpent DEF Inv, TypeOK
    <3>2. \A q \in {r} : WireIn(K)[q]["priority"] >= Token
      BY <2>1
    <3> QED
      BY <1>2, <1>3, <2>1, <3>1, <3>2, LookedUpCharged
  <2>2. CASE wire' = WireIn(K) /\ UNCHANGED <<budgets, allowance>>
    <3>1. BudgetTypes' /\ LanesReserved' /\ allowance' \in [Relay -> [Class -> Int]]
      BY <2>2 DEF Inv, TypeOK, BudgetTypes, HistoryTypes, LanesReserved, LaneSum, budgets
    <3> QED
      BY <1>2, <1>3, <2>2, <3>1, Lookups
  <2> QED
    BY <1>2, <2>1, <2>2
<1> QED
  BY <1>1, <1>4, <1>5
  DEF Inv, TypeOK, GateTypes, RegistryTypes, KeyTypes, PublicationTypes, OperationTypes,
      OpaqueTypes, HistoryTypes, gates, keys, pubs, operations, opaques

(* An opaque request is admitted at once, or starts to wait.               *)
LEMMA AdmitOpaqueStep ==
  ASSUME Inv, NEW c \in Opaque, NEW R \in SUBSET Relay, AdmitOpaque(c, R)
  PROVE  Inv'
<1> DEFINE class == ClassOf(OpaquePurpose)
           wait  == [opaque EXCEPT ![c] = [waiting |-> TRUE, relays |-> R]]
<1>1. /\ ~opaque[c].waiting /\ opaqueWaiters < MaxOpaque
      /\ UNCHANGED <<gates, keys, receipts, pubs, operations, fresh>>
  BY DEF AdmitOpaque
<1>2. PICK K \in Registries(R) :
        /\ known' = K
        /\ \/ /\ OpaqueReady(WireIn(K), R)
              /\ SpendLane(OpaquePurpose)
              /\ wire' = Charged(WireIn(K), R, class)
              /\ allowance' = Charged(allowance, R, class)
              /\ UNCHANGED <<refs, opaques>>
           \/ /\ wire' = WireIn(K)
              /\ refs' = Held(R)
              /\ opaque' = wait
              /\ opaqueWaiters' = opaqueWaiters + 1
              /\ UNCHANGED <<budgets, allowance>>
  BY DEF AdmitOpaque
<1>3. class \in Class /\ OpaquePurpose \in Purpose
  BY DEF ClassOf, Class, OpaquePurpose, Purpose
<1> HIDE DEF class
<1>4. /\ known' \subseteq Relay /\ Cardinality(known') <= MaxIdentities
      /\ WireType(wire') /\ BucketsMatch' /\ HoldingsMatch'
      /\ allowance' \in [Relay -> [Class -> Int]]
      /\ BudgetTypes' /\ LanesReserved' /\ OpaqueTypes' /\ refs' \in [Relay -> Int]
  <2>1. CASE /\ OpaqueReady(WireIn(K), R)
             /\ SpendLane(OpaquePurpose)
             /\ wire' = Charged(WireIn(K), R, class)
             /\ allowance' = Charged(allowance, R, class)
             /\ UNCHANGED <<refs, opaques>>
    <3>1. LaneReady(OpaquePurpose) /\ \A r \in R : WireIn(K)[r][class] >= Token
      BY <2>1 DEF OpaqueReady, class
    <3>2. BudgetTypes' /\ LanesReserved'
      BY <1>3, <2>1, <3>1, LaneSpent DEF Inv, TypeOK
    <3>3. HoldingsMatch'
      BY <1>1, <1>2, <2>1, LookupsKeepHoldings DEF pubs
    <3>4. OpaqueTypes' /\ refs' \in [Relay -> Int]
      BY <2>1 DEF Inv, TypeOK, OpaqueTypes, RegistryTypes, opaques
    <3> QED
      BY <1>2, <1>3, <2>1, <3>1, <3>2, <3>3, <3>4, LookedUpCharged
  <2>2. CASE /\ wire' = WireIn(K)
             /\ refs' = Held(R)
             /\ opaque' = wait
             /\ opaqueWaiters' = opaqueWaiters + 1
             /\ UNCHANGED <<budgets, allowance>>
    <3>1. BudgetTypes' /\ LanesReserved' /\ allowance' \in [Relay -> [Class -> Int]]
      BY <2>2 DEF Inv, TypeOK, BudgetTypes, HistoryTypes, LanesReserved, LaneSum, budgets
    <3>2. HoldingsMatch'
      BY <1>1, <1>2, <2>2, OpaqueRegisters DEF Inv, pubs
    <3>3. OpaqueTypes'
      BY <1>1, <2>2, AdmissionAssumption DEF Inv, TypeOK, OpaqueTypes
    <3>4. refs' \in [Relay -> Int]
      BY <2>2, HeldType DEF Inv
    <3> QED
      BY <1>2, <2>2, <3>1, <3>2, <3>3, <3>4, Lookups
  <2> QED
    BY <1>2, <2>1, <2>2
<1> QED
  BY <1>1, <1>4
  DEF Inv, TypeOK, GateTypes, RegistryTypes, KeyTypes, PublicationTypes, OperationTypes,
      HistoryTypes, gates, keys, pubs, operations

(* An opaque request finds no room for its relays.                         *)
LEMMA OpaqueRefusedStep ==
  ASSUME Inv, NEW R \in SUBSET Relay, OpaqueRefused(R)
  PROVE  Inv'
<1>1. (RegistryFull(R) \/ LookedUp(R))
        /\ UNCHANGED <<gates, budgets, keys, receipts, pubs, operations, opaques, history>>
  BY DEF OpaqueRefused
<1>2. RegistryTypes' /\ HoldingsMatch' /\ BucketsMatch'
  BY <1>1, RefusedKeeps DEF pubs, history
<1> QED
  BY <1>1, <1>2
  DEF Inv, TypeOK, GateTypes, BudgetTypes, KeyTypes, PublicationTypes, OperationTypes,
      OpaqueTypes, HistoryTypes, LanesReserved, LaneSum,
      gates, budgets, keys, pubs, operations, opaques, history

(* The types after an opaque call stopped waiting.                         *)
LEMMA EndOpaqueTypes ==
  ASSUME TypeOK, NEW c \in Opaque, EndOpaque(c)
  PROVE  OpaqueTypes' /\ refs' \in [Relay -> Int]
BY AdmissionAssumption DEF TypeOK, OpaqueTypes, RegistryTypes, EndOpaque, Released, NotWaiting

(* An opaque request that waited is admitted: its relays were held all the *)
(* time, so its tokens come from the buckets it looked up.                 *)
LEMMA OpaqueAdmittedStep ==
  ASSUME Inv, NEW c \in Opaque, OpaqueAdmitted(c)
  PROVE  Inv'
<1> DEFINE class == ClassOf(OpaquePurpose)
           R     == opaque[c].relays
<1>1. /\ opaque[c].waiting /\ LaneReady(OpaquePurpose)
      /\ \A r \in R : wire[r][class] >= Token
      /\ SpendLane(OpaquePurpose)
      /\ wire' = Charged(wire, R, class)
      /\ allowance' = Charged(allowance, R, class)
      /\ EndOpaque(c)
      /\ UNCHANGED <<gates, known, keys, receipts, pubs, operations, fresh>>
  BY DEF OpaqueAdmitted, OpaqueReady
<1>2. class \in Class /\ OpaquePurpose \in Purpose
  BY DEF ClassOf, Class, OpaquePurpose, Purpose
<1>3. R \in SUBSET Relay /\ R \subseteq known
  BY <1>1 DEF Inv, TypeOK, OpaqueTypes, HoldingsMatch, HeldIdentitiesKnown, Waiting
<1> HIDE DEF class, R
<1>4. BudgetTypes' /\ LanesReserved'
  BY <1>1, <1>2, LaneSpent DEF Inv, TypeOK
<1>5. BucketsMatch' /\ WireType(wire') /\ allowance' \in [Relay -> [Class -> Int]]
  <2>1. known \in SUBSET Relay /\ TypeOK /\ BucketsMatch
    BY DEF Inv, TypeOK, RegistryTypes
  <2>2. \A q \in Relay \ known, d \in Class : wire[q][d] = Wire[d].burst
    BY DEF Inv, BucketsMatch
  <2>3. known' = known
    BY <1>1
  <2> QED
    BY <1>1, <1>2, <1>3, <2>1, <2>2, <2>3, ChargedMatch
<1>6. HoldingsMatch'
  BY <1>1, OpaqueUnregisters DEF Inv, pubs
<1>7. OpaqueTypes' /\ refs' \in [Relay -> Int]
  BY <1>1, EndOpaqueTypes DEF Inv
<1> QED
  BY <1>1, <1>4, <1>5, <1>6, <1>7
  DEF Inv, TypeOK, GateTypes, RegistryTypes, KeyTypes, PublicationTypes, OperationTypes,
      HistoryTypes, gates, keys, pubs, operations

(* An opaque request gives up.                                             *)
LEMMA OpaqueGivesUpStep ==
  ASSUME Inv, NEW c \in Opaque, OpaqueGivesUp(c)
  PROVE  Inv'
<1>1. /\ opaque[c].waiting /\ EndOpaque(c)
      /\ UNCHANGED <<gates, budgets, known, wire, keys, receipts, pubs, operations, history>>
  BY DEF OpaqueGivesUp
<1>2. HoldingsMatch'
  BY <1>1, OpaqueUnregisters DEF Inv, pubs
<1>3. OpaqueTypes' /\ refs' \in [Relay -> Int]
  BY <1>1, EndOpaqueTypes DEF Inv
<1>4. BucketsMatch'
  BY <1>1 DEF Inv, BucketsMatch, history
<1> QED
  BY <1>1, <1>2, <1>3, <1>4
  DEF Inv, TypeOK, GateTypes, BudgetTypes, RegistryTypes, WireType, KeyTypes,
      PublicationTypes, OperationTypes, HistoryTypes, LanesReserved, LaneSum,
      gates, budgets, keys, pubs, operations, history

-----------------------------------------------------------------------------
(* The environment and the clock.                                          *)

(* Rate limit answers, the kill switch and the ageing of receipts.         *)
LEMMA EnvironmentSteps ==
  ASSUME Inv, ReportRateLimited \/ KillSwitch \/ PruneReceipts \/ UNCHANGED vars
  PROVE  Inv'
<1>1. UNCHANGED <<budgets, registry, keys, pubs, operations, opaques, allowance>>
  BY DEF ReportRateLimited, KillSwitch, PruneReceipts, vars, history
<1>2. OperationTypes' /\ PublicationTypes'
  BY <1>1 DEF Inv, TypeOK, OperationTypes, PublicationTypes, operations, pubs
<1>3. receipts' \in Seq(Event \X Relay)
  <2>1. receipts \in Seq(Event \X Relay)
    BY DEF Inv, TypeOK
  <2>2. receipts # <<>> => Tail(receipts) \in Seq(Event \X Relay)
    BY <2>1, HeadTailProperties
  <2> QED
    BY <2>1, <2>2 DEF ReportRateLimited, KillSwitch, PruneReceipts, vars
<1>4. GateTypes' /\ fresh' \subseteq Publication
  <2>1. GateTypes /\ fresh \subseteq Publication
    BY DEF Inv, TypeOK, HistoryTypes
  <2>2. CASE ReportRateLimited
    BY <2>1, <2>2, BreakerTypes DEF ReportRateLimited, OpenBreaker, GateTypes
  <2>3. CASE KillSwitch
    BY <2>1, <2>3 DEF KillSwitch, GateTypes, history
  <2>4. CASE PruneReceipts \/ UNCHANGED vars
    BY <2>1, <2>4 DEF PruneReceipts, vars, GateTypes, gates, history
  <2> QED
    BY <2>2, <2>3, <2>4
<1> QED
  BY <1>1, <1>2, <1>3, <1>4, NothingHeldStep DEF pubs

(* A refill stays within the burst, and a full bucket stays full.          *)
LEMMA RefillType ==
  ASSUME NEW tokens \in Nat, NEW burst \in Nat, NEW rate \in Nat, tokens <= burst
  PROVE  /\ Least(burst, tokens + rate) \in Nat
         /\ Least(burst, tokens + rate) <= burst
         /\ tokens = burst => Least(burst, tokens + rate) = burst
BY DEF Least

(* Time passes: the lanes together never gain more than the aggregate.     *)
LEMMA TickStep ==
  ASSUME Inv, Tick
  PROVE  Inv'
<1>1. /\ aggregate' = Refill(aggregate, Aggregate)
      /\ lanes' = [l \in Purpose |-> Refill(lanes[l], Lane[l])]
      /\ wire' = Refilled(wire) /\ allowance' = Refilled(allowance)
      /\ breaker' = [breaker EXCEPT !.wait = IF @ > 0 THEN @ - 1 ELSE 0]
      /\ UNCHANGED <<killed, known, refs, keys, receipts, pubs, operations, opaques, fresh>>
  BY DEF Tick
<1>2. /\ aggregate \in Nat /\ aggregate <= Aggregate.burst
      /\ \A l \in Purpose : lanes[l] \in Nat /\ lanes[l] <= Lane[l].burst
      /\ \A r \in Relay, c \in Class : wire[r][c] \in Nat /\ wire[r][c] <= Wire[c].burst
  BY ConstantTypes DEF Inv, TypeOK, BudgetTypes, RegistryTypes, WireType
<1>3. /\ aggregate' = Least(Aggregate.burst, aggregate + Aggregate.rate)
      /\ \A l \in Purpose : lanes'[l] = Least(Lane[l].burst, lanes[l] + Lane[l].rate)
      /\ \A r \in Relay, c \in Class :
           /\ wire'[r][c] = Least(Wire[c].burst, wire[r][c] + Wire[c].rate)
           /\ allowance'[r][c] = Least(Wire[c].burst, allowance[r][c] + Wire[c].rate)
  BY <1>1 DEF Refill, Refilled
<1>4. BudgetTypes'
  <2>1. aggregate' \in Nat /\ aggregate' <= Aggregate.burst
    BY <1>2, <1>3, ConstantTypes, RefillType
  <2>2. ASSUME NEW l \in Purpose
        PROVE  lanes'[l] \in Nat /\ lanes'[l] <= Lane[l].burst
    <3>1. lanes'[l] = Least(Lane[l].burst, lanes[l] + Lane[l].rate)
      BY <1>3
    <3>2. /\ lanes[l] \in Nat /\ lanes[l] <= Lane[l].burst
          /\ Lane[l].burst \in Nat /\ Lane[l].rate \in Nat
      BY <1>2, ConstantTypes
    <3> QED
      BY <3>1, <3>2, RefillType
  <2>3. lanes' \in [Purpose -> Nat]
    BY <1>1, <2>2
  <2> QED
    BY <2>1, <2>2, <2>3, ConstantTypes DEF BudgetTypes
<1>5. \A r \in Relay, c \in Class :
        /\ wire'[r][c] \in Nat /\ wire'[r][c] <= Wire[c].burst
        /\ wire[r][c] = Wire[c].burst => wire'[r][c] = Wire[c].burst
  <2> TAKE r \in Relay, c \in Class
  <2>1. wire'[r][c] = Least(Wire[c].burst, wire[r][c] + Wire[c].rate)
    BY <1>3
  <2>2. /\ wire[r][c] \in Nat /\ wire[r][c] <= Wire[c].burst
        /\ Wire[c].burst \in Nat /\ Wire[c].rate \in Nat
    BY <1>2, ConstantTypes
  <2> QED
    BY <2>1, <2>2 DEF Least
<1>6. BucketsMatch'
  <2>1. \A r \in Relay, c \in Class : allowance'[r][c] = wire'[r][c]
    BY <1>3 DEF Inv, BucketsMatch
  <2> QED
    BY <1>1, <1>5, <2>1 DEF Inv, BucketsMatch
<1>7. WireType(wire') /\ allowance' \in [Relay -> [Class -> Int]]
  <2>1. \A r \in Relay, c \in Class : allowance'[r][c] \in Int
    BY <1>5, <1>6 DEF BucketsMatch
  <2>2. wire' \in [Relay -> [Class -> Nat]]
    BY <1>1, <1>5 DEF Refilled
  <2>3. allowance' \in [Relay -> [Class -> Int]]
    BY <1>1, <2>1 DEF Refilled
  <2> QED
    BY <1>5, <2>2, <2>3 DEF WireType
<1>8. LanesReserved'
  <2>1. SUFFICES ASSUME AggregateIsSum
                 PROVE  LaneSum' <= aggregate'
    BY DEF LanesReserved
  <2>2. LaneSum <= aggregate
    BY <2>1 DEF Inv, LanesReserved
  <2>3. \A l \in Purpose :
          /\ lanes[l] \in Nat /\ Lane[l].burst \in Nat /\ Lane[l].rate \in Nat
          /\ lanes'[l] \in Nat
          /\ lanes'[l] <= Lane[l].burst /\ lanes'[l] <= lanes[l] + Lane[l].rate
    BY <1>2, <1>3, ConstantTypes DEF Least
  <2>4. LaneSum' <= Aggregate.burst
    BY <2>1, <2>3 DEF LaneSum, AggregateIsSum, Purpose
  <2>5. LaneSum' <= LaneSum + Aggregate.rate
    BY <2>1, <2>3 DEF LaneSum, AggregateIsSum, Purpose
  <2>6. LaneSum \in Nat /\ LaneSum' \in Nat
    BY <2>3 DEF LaneSum, Purpose
  <2> QED
    BY <1>2, <1>3, <2>2, <2>4, <2>5, <2>6, ConstantTypes DEF Least
<1>9. breaker' \in [wait : Nat, delay : Nat, generation : Nat]
  BY <1>1 DEF Inv, TypeOK, GateTypes
<1>10. HoldingsMatch'
  <2>1. Registered' = Registered /\ pub' = pub
    BY <1>1 DEF Registered, pubs
  <2> QED
    BY <1>1, <2>1, HeldKept DEF Inv, HoldingsMatch, HeldIdentitiesKnown
<1> QED
  BY <1>1, <1>4, <1>6, <1>7, <1>8, <1>9, <1>10
  DEF Inv, TypeOK, GateTypes, RegistryTypes, KeyTypes, PublicationTypes, OperationTypes,
      OpaqueTypes, HistoryTypes, keys, pubs, operations, opaques

-----------------------------------------------------------------------------
(* The theorems.                                                           *)

(* The controller starts with full buckets and nothing held.               *)
LEMMA InitInv == Init => Inv
<1> SUFFICES ASSUME Init PROVE Inv
  OBVIOUS
<1>1. FullWire \in [Class -> Nat] /\ \A c \in Class : FullWire[c] = Wire[c].burst
  BY ConstantTypes DEF FullWire
<1>2. /\ Registered = {} /\ Waiting = {}
      /\ \A r \in Relay : UsersOf(r) = {} /\ WaitersOf(r) = {}
  BY DEF Init, Registered, Waiting, UsersOf, WaitersOf, NoPublication, NotWaiting
<1>3. Cardinality({}) = 0
  BY FS_EmptySet
<1>4. HoldingsMatch
  <2>1. UNION {Keys(pub[p].event, pub[p].relays) : p \in Registered} = {}
    BY <1>2
  <2>2. \A r \in Relay : refs[r] = Cardinality(UsersOf(r)) + Cardinality(WaitersOf(r))
    <3>1. \A r \in Relay : refs[r] = 0
      BY DEF Init
    <3> QED
      BY <1>2, <1>3, <3>1
  <2>3. active = 0 /\ opaqueWaiters = 0 /\ inflight = {}
    BY DEF Init
  <2>4. NothingLeaked
    BY <1>2, <1>3, <2>1, <2>2, <2>3 DEF NothingLeaked
  <2>5. HeldIdentitiesKnown /\ NoConcurrentCopy
    BY <1>2 DEF HeldIdentitiesKnown, NoConcurrentCopy
  <2> QED
    BY <2>4, <2>5 DEF HoldingsMatch
<1>5. BucketsMatch
  BY <1>1 DEF Init, BucketsMatch
<1>6. BudgetTypes /\ LanesReserved
  <2>1. /\ aggregate = Aggregate.burst
        /\ \A l \in Purpose : lanes[l] = Lane[l].burst /\ lanes[l] \in Nat
        /\ lanes \in [Purpose -> Nat]
    BY ConstantTypes DEF Init
  <2>2. BudgetTypes
    BY <2>1, ConstantTypes DEF BudgetTypes
  <2>3. LanesReserved
    BY <2>1, ConstantTypes DEF LanesReserved, LaneSum, AggregateIsSum, Purpose
  <2> QED
    BY <2>2, <2>3
<1>7. RegistryTypes /\ KeyTypes
  <2>1. wire \in [Relay -> [Class -> Nat]] /\ \A r \in Relay : wire[r] = FullWire
    BY <1>1 DEF Init
  <2>2. WireType(wire)
    <3>1. \A r \in Relay, c \in Class : wire[r][c] <= Wire[c].burst
      BY <1>1, <2>1, ConstantTypes
    <3> QED
      BY <2>1, <3>1 DEF WireType
  <2>3. known = {} /\ refs \in [Relay -> Int]
    BY DEF Init
  <2>4. Cardinality(known) <= MaxIdentities
    BY <1>3, <2>3, AdmissionAssumption
  <2>5. KeyTypes
    BY AdmissionAssumption DEF Init, KeyTypes
  <2> QED
    BY <2>2, <2>3, <2>4, <2>5 DEF RegistryTypes
<1>8. PublicationTypes /\ OpaqueTypes /\ GateTypes
  <2>1. PublicationTypes
    BY NoPublicationType DEF Init, PublicationTypes
  <2>2. OpaqueTypes
    BY AdmissionAssumption DEF Init, OpaqueTypes, NotWaiting
  <2>3. GateTypes
    BY DEF Init, GateTypes
  <2> QED
    BY <2>1, <2>2, <2>3
<1>9. OperationTypes
  BY DEF Init, OperationTypes, OperationRecord, NewOperation
<1>10. HistoryTypes /\ receipts \in Seq(Event \X Relay)
  BY <1>1 DEF Init, HistoryTypes
<1> QED
  BY <1>4, <1>5, <1>6, <1>7, <1>8, <1>9, <1>10 DEF Inv, TypeOK

(* Every step of the controller keeps the invariant.                       *)
LEMMA NextInv ==
  ASSUME Inv, [Next]_vars
  PROVE  Inv'
<1>1. CASE \E event \in Event, R \in SUBSET Relay \ {{}} :
             \/ \E p \in Publication : Begin(p, event, R) \/ BeginRefused(event, R)
             \/ \E o \in Operation :
                  \/ \E p \in Publication : OperationBegin(o, p, event, R)
                  \/ OperationBeginDone(o, event, R)
  BY <1>1, BeginStep, BeginRefusedStep, OperationBeginStep, OperationBeginDoneStep
<1>2. CASE \E p \in Publication :
             \/ \E r \in Relay : BeforeAttempt(p, r) \/ Observe(p, r)
             \/ Close(p) \/ PacedAdmitted(p) \/ PacedRefused(p)
  BY <1>2, BeforeAttemptStep, ObserveStep, CloseStep, PacedAdmittedStep, PacedRefusedStep
<1>3. CASE \E o \in Operation :
             \/ BeginOperation(o) \/ OperationReady(o) \/ LeaveQueue(o)
             \/ AbandonOperationWaiter(o) \/ CloseOperation(o) \/ OperationExpires(o)
  BY <1>3, QueueSteps
<1>4. CASE \E r \in Relay : AdmitAuth(r)
  BY <1>4, AdmitAuthStep
<1>5. CASE \E c \in Opaque :
             \/ \E R \in SUBSET Relay \ {{}} : AdmitOpaque(c, R) \/ OpaqueRefused(R)
             \/ OpaqueAdmitted(c) \/ OpaqueGivesUp(c)
  BY <1>5, AdmitOpaqueStep, OpaqueRefusedStep, OpaqueAdmittedStep, OpaqueGivesUpStep
<1>6. CASE ReportRateLimited \/ KillSwitch \/ PruneReceipts \/ UNCHANGED vars
  BY <1>6, EnvironmentSteps
<1>7. CASE Tick
  BY <1>7, TickStep
<1> QED
  BY <1>1, <1>2, <1>3, <1>4, <1>5, <1>6, <1>7 DEF Next

(* The inductive invariant holds in every behaviour of the controller.     *)
THEOREM Invariance == Spec => []Inv
<1>1. Init => Inv
  BY InitInv
<1>2. Inv /\ [Next]_vars => Inv'
  BY NextInv
<1> QED
  BY <1>1, <1>2, PTL DEF Spec

(* The state of the controller is well typed and its registry, its         *)
(* publications and its waiters stay within their bounds.                  *)
THEOREM AdmissionTypeCorrect == Spec => []TypeOK
<1>1. Inv => TypeOK
  BY DEF Inv
<1> QED
  BY <1>1, Invariance, PTL

(* Begin, Close, refusals and give-ups hand back exactly what they took:   *)
(* slots, references and keys are those of the calls under way.            *)
THEOREM HoldingsSound == Spec => []NothingLeaked
<1>1. Inv => NothingLeaked
  BY DEF Inv, HoldingsMatch
<1> QED
  BY <1>1, Invariance, PTL

(* relayBucketLocked never evicts an identity that a publication or an     *)
(* opaque call still refers to.                                            *)
THEOREM IdentitiesHeld == Spec => []HeldIdentitiesKnown
<1>1. Inv => HeldIdentitiesKnown
  BY DEF Inv, HoldingsMatch
<1> QED
  BY <1>1, Invariance, PTL

(* registerLocked never lets a signed event go to a relay that a copy of   *)
(* it is under way to.                                                     *)
THEOREM NoCopies == Spec => []NoConcurrentCopy
<1>1. Inv => NoConcurrentCopy
  BY DEF Inv, HoldingsMatch
<1> QED
  BY <1>1, Invariance, PTL

(* Eviction and re-creation of relay buckets never let more frames through *)
(* than the relay's budget.                                                *)
THEOREM WireBudgetSound == Spec => []WireBudget
<1>1. Inv => WireBudget
  <2>1. SUFFICES ASSUME Inv, NEW r \in Relay, NEW c \in Class
                 PROVE  allowance[r][c] >= 0
    BY DEF WireBudget
  <2>2. allowance[r][c] = wire[r][c]
    BY <2>1 DEF Inv, BucketsMatch
  <2>3. wire[r][c] \in Nat
    BY <2>1 DEF Inv, TypeOK, RegistryTypes, WireType
  <2> QED
    BY <2>2, <2>3
<1> QED
  BY <1>1, Invariance, PTL

(* With an aggregate that is the sum of the lanes, the tokens left in the  *)
(* lanes are always backed by the aggregate.                               *)
THEOREM LanesSound == Spec => []LanesReserved
<1>1. Inv => LanesReserved
  BY DEF Inv
<1> QED
  BY <1>1, Invariance, PTL

-----------------------------------------------------------------------------
(* The slot and its queue.                                                 *)

(* The slot belongs to the activated operation whose call has not closed   *)
(* it, and the queue lists calls that wait and were not activated.         *)
SlotHolder(o) ==
  /\ operation = o <=> /\ ops[o].activated
                       /\ ops[o].caller \in {"waiting", "leaving", "closing", "holding"}
  /\ ops[o].caller \in {"closing", "holding"} => ops[o].activated
  /\ ops[o].caller = "idle" => ~ops[o].activated

Queued(o) == ~ops[o].activated /\ ops[o].caller \in {"waiting", "leaving"}

Distinct(s) == \A i, j \in 1 .. Len(s) : s[i] = s[j] => i = j

SlotInv ==
  /\ \A o \in Operation : SlotHolder(o)
  /\ \A i \in 1 .. Len(queue) : Queued(queue[i])
  /\ Distinct(queue)
  /\ queue # <<>> => operation # None

(* Taking an element out of a sequence of distinct elements leaves         *)
(* distinct elements, all other than it and all from the sequence.         *)
LEMMA WithoutElements ==
  ASSUME NEW S, NEW s \in Seq(S), NEW x, Distinct(s)
  PROVE  /\ Distinct(Without(s, x))
         /\ \A k \in 1 .. Len(Without(s, x)) :
              /\ Without(s, x)[k] # x
              /\ \E i \in 1 .. Len(s) : Without(s, x)[k] = s[i]
         /\ s = <<>> => Without(s, x) = <<>>
<1>0. Len(s) \in Nat /\ DOMAIN s = 1 .. Len(s) /\ \A i \in 1 .. Len(s) : s[i] \in S
  BY LenProperties, ElementOfSeq
<1>1. CASE \E i \in DOMAIN s : s[i] = x
  <2> DEFINE i == CHOOSE i \in DOMAIN s : s[i] = x
             a == SubSeq(s, 1, i - 1)
             b == SubSeq(s, i + 1, Len(s))
  <2>1. Without(s, x) = a \o b
    BY <1>1 DEF Without
  <2>2. i \in 1 .. Len(s) /\ s[i] = x
    BY <1>0, <1>1
  <2> HIDE DEF i
  <2> HIDE DEF a, b
  <2>3. /\ a \in Seq(S) /\ Len(a) = i - 1
        /\ \A k \in 1 .. i - 1 : a[k] = s[k]
    <3>1. \A k \in 1 .. i - 1 : s[k] \in S
      BY <1>0, <2>2
    <3>2. 1 \in Int /\ i - 1 \in Int
      BY <1>0, <2>2
    <3>3. /\ a \in Seq(S) /\ Len(a) = IF 1 <= i - 1 THEN i - 1 - 1 + 1 ELSE 0
          /\ \A k \in 1 .. i - 1 - 1 + 1 : a[k] = s[1 + k - 1]
      BY <3>1, <3>2, SubSeqProperties DEF a
    <3> QED
      BY <1>0, <2>2, <3>3
  <2>4. /\ b \in Seq(S) /\ Len(b) = Len(s) - i
        /\ \A k \in 1 .. Len(s) - i : b[k] = s[k + i]
    <3>1. \A k \in i + 1 .. Len(s) : s[k] \in S
      BY <1>0, <2>2
    <3>2. i + 1 \in Int /\ Len(s) \in Int
      BY <1>0, <2>2
    <3>3. /\ b \in Seq(S) /\ Len(b) = IF i + 1 <= Len(s) THEN Len(s) - (i + 1) + 1 ELSE 0
          /\ \A k \in 1 .. Len(s) - (i + 1) + 1 : b[k] = s[i + 1 + k - 1]
      BY <3>1, <3>2, SubSeqProperties DEF b
    <3>4. Len(b) = Len(s) - i
      <4>1. i \in Int /\ Len(s) \in Int /\ i <= Len(s)
        BY <1>0, <2>2
      <4>2. i + 1 <= Len(s) => Len(s) - (i + 1) + 1 = Len(s) - i
        BY <4>1
      <4>3. ~(i + 1 <= Len(s)) => Len(s) - i = 0
        BY <4>1
      <4> QED
        BY <3>3, <4>2, <4>3
    <3>5. ASSUME NEW k \in 1 .. Len(s) - i
          PROVE  b[k] = s[k + i]
      <4>1. i + 1 + k - 1 = k + i /\ k \in 1 .. Len(s) - (i + 1) + 1
        BY <1>0, <2>2
      <4> QED
        BY <3>3, <4>1
    <3> QED
      BY <3>3, <3>4, <3>5
  <2>5. /\ Len(a \o b) = Len(s) - 1
        /\ \A k \in 1 .. Len(s) - 1 : (a \o b)[k] = IF k < i THEN s[k] ELSE s[k + 1]
    <3>1. /\ Len(a \o b) = Len(a) + Len(b)
          /\ \A k \in 1 .. Len(a) + Len(b) :
               (a \o b)[k] = IF k <= Len(a) THEN a[k] ELSE b[k - Len(a)]
      BY <2>3, <2>4, ConcatProperties
    <3>2. ASSUME NEW k \in 1 .. Len(s) - 1
          PROVE  (a \o b)[k] = IF k < i THEN s[k] ELSE s[k + 1]
      <4>1. k \in 1 .. Len(a) + Len(b)
        BY <1>0, <2>2, <2>3, <2>4
      <4>2. (a \o b)[k] = IF k <= Len(a) THEN a[k] ELSE b[k - Len(a)]
        BY <3>1, <4>1
      <4>3. CASE k < i
        BY <1>0, <2>2, <2>3, <4>2, <4>3
      <4>4. CASE ~(k < i)
        <5>1. k - Len(a) \in 1 .. Len(s) - i /\ k - Len(a) + i = k + 1 /\ ~(k <= Len(a))
          BY <1>0, <2>2, <2>3, <4>4
        <5> QED
          BY <2>4, <4>2, <4>4, <5>1
      <4> QED
        BY <4>3, <4>4
    <3> QED
      BY <1>0, <2>2, <2>3, <2>4, <3>1, <3>2
  <2>6. s # <<>>
    BY <1>0, <2>2, EmptySeq
  <2> DEFINE t == a \o b
             At(k) == IF k < i THEN k ELSE k + 1
  <2>7. \A k \in 1 .. Len(t) : At(k) \in 1 .. Len(s) /\ At(k) # i /\ t[k] = s[At(k)]
    BY <1>0, <2>2, <2>5
  <2>8. \A k, l \in 1 .. Len(t) : At(k) = At(l) => k = l
    BY <1>0, <2>2, <2>5
  <2> HIDE DEF t, At
  <2>9. Distinct(t)
    BY <2>7, <2>8 DEF Distinct
  <2>10. \A k \in 1 .. Len(t) : t[k] # x /\ \E j \in 1 .. Len(s) : t[k] = s[j]
    BY <2>2, <2>7 DEF Distinct
  <2> QED
    BY <2>1, <2>6, <2>9, <2>10 DEF t
<1>2. CASE ~ \E i \in DOMAIN s : s[i] = x
  BY <1>0, <1>2 DEF Without
<1> QED
  BY <1>1, <1>2

(* A step that moves no call of BeginOperation.                            *)
CallersKept ==
  /\ UNCHANGED <<operation, queue>>
  /\ \A o \in Operation : /\ ops'[o].caller = ops[o].caller
                          /\ ops'[o].activated = ops[o].activated

(* The operations' publications and deadlines move no call.                *)
LEMMA ClaimsKeepCallers ==
  ASSUME TypeOK, NEW o, NEW p,
         \/ ops' = [ops EXCEPT ![o].busy = TRUE] \/ ops' = [ops EXCEPT ![o].busy = FALSE]
         \/ ops' = [ops EXCEPT ![o].outstanding = None]
         \/ ops' = [ops EXCEPT ![o].expired = TRUE]
         \/ ops' = [ops EXCEPT ![o] = FinishClaim(o, p)] \/ ops' = ops
  PROVE  \A x \in Operation : /\ ops'[x].caller = ops[x].caller
                              /\ ops'[x].activated = ops[x].activated
<1>1. ops \in [Operation -> OperationRecord]
  BY DEF TypeOK, OperationTypes
<1>2. SUFFICES ASSUME NEW x \in Operation
               PROVE  ops'[x].caller = ops[x].caller /\ ops'[x].activated = ops[x].activated
  OBVIOUS
<1>3. ops[x] \in OperationRecord
  BY <1>1
<1>4. CASE ops' = [ops EXCEPT ![o] = FinishClaim(o, p)]
  <2>1. x # o => ops'[x] = ops[x]
    BY <1>1, <1>4
  <2>2. x = o => ops'[x] = FinishClaim(x, p)
    BY <1>1, <1>4
  <2>3. FinishClaim(x, p).caller = ops[x].caller
          /\ FinishClaim(x, p).activated = ops[x].activated
    <3> DEFINE op == ops[x]
    <3>1. op \in OperationRecord
      BY <1>3
    <3>2. FinishClaim(x, p) = [op EXCEPT !.busy = FALSE, !.used = op.used + 1, !.outstanding = p]
      BY DEF FinishClaim
    <3> HIDE DEF op
    <3>3. FinishClaim(x, p).caller = op.caller /\ FinishClaim(x, p).activated = op.activated
      BY <3>1, <3>2 DEF OperationRecord
    <3> QED
      BY <3>3 DEF op
  <2> QED
    BY <2>1, <2>2, <2>3
<1>5. CASE \/ ops' = [ops EXCEPT ![o].busy = TRUE] \/ ops' = [ops EXCEPT ![o].busy = FALSE]
           \/ ops' = [ops EXCEPT ![o].outstanding = None]
           \/ ops' = [ops EXCEPT ![o].expired = TRUE] \/ ops' = ops
  BY <1>1, <1>3, <1>5 DEF OperationRecord
<1> QED
  BY <1>4, <1>5

(* Which steps move a call.                                                *)
LEMMA CallersMove ==
  ASSUME TypeOK, [Next]_vars
  PROVE  \/ CallersKept
         \/ \E o \in Operation :
              \/ BeginOperation(o) \/ OperationReady(o) \/ LeaveQueue(o)
              \/ AbandonOperationWaiter(o) \/ CloseOperation(o)
<1> USE DEF operations
<1>1. CASE \E event \in Event, R \in SUBSET Relay \ {{}} :
             \/ \E p \in Publication : Begin(p, event, R) \/ BeginRefused(event, R)
             \/ \E o \in Operation :
                  \/ \E p \in Publication : OperationBegin(o, p, event, R)
                  \/ OperationBeginDone(o, event, R)
  <2> PICK event \in Event, R \in SUBSET Relay \ {{}} :
             \/ \E p \in Publication : Begin(p, event, R) \/ BeginRefused(event, R)
             \/ \E o \in Operation :
                  \/ \E p \in Publication : OperationBegin(o, p, event, R)
                  \/ OperationBeginDone(o, event, R)
    BY <1>1
  <2>1. CASE \E p \in Publication : Begin(p, event, R) \/ BeginRefused(event, R)
    BY <2>1 DEF Begin, BeginRefused, CallersKept
  <2>2. ASSUME NEW o \in Operation, NEW p \in Publication, OperationBegin(o, p, event, R)
        PROVE  CallersKept
    <3>1. ops' = [ops EXCEPT ![o] = FinishClaim(o, p)] \/ ops' = [ops EXCEPT ![o].busy = TRUE]
      BY <2>2 DEF OperationBegin
    <3>2. UNCHANGED <<operation, queue>>
      BY <2>2 DEF OperationBegin
    <3> QED
      BY <3>1, <3>2, ClaimsKeepCallers DEF CallersKept
  <2>3. ASSUME NEW o \in Operation, OperationBeginDone(o, event, R)
        PROVE  CallersKept
    <3>1. ops' = [ops EXCEPT ![o] = FinishClaim(o, None)] \/ ops' = ops
      BY <2>3 DEF OperationBeginDone
    <3>2. UNCHANGED <<operation, queue>>
      BY <2>3 DEF OperationBeginDone
    <3> QED
      BY <3>1, <3>2, ClaimsKeepCallers DEF CallersKept
  <2> QED
    BY <2>1, <2>2, <2>3
<1>2. CASE \E p \in Publication :
             \/ \E r \in Relay : BeforeAttempt(p, r) \/ Observe(p, r)
             \/ Close(p) \/ PacedAdmitted(p) \/ PacedRefused(p)
  <2> PICK p \in Publication :
             \/ \E r \in Relay : BeforeAttempt(p, r) \/ Observe(p, r)
             \/ Close(p) \/ PacedAdmitted(p) \/ PacedRefused(p)
    BY <1>2
  <2>1. CASE \E r \in Relay : BeforeAttempt(p, r) \/ Observe(p, r)
    BY <2>1 DEF BeforeAttempt, Observe, CallersKept
  <2>2. CASE Close(p) \/ PacedAdmitted(p) \/ PacedRefused(p)
    <3> DEFINE o == pub[p].op
    <3>1. \/ ops' = [ops EXCEPT ![o].outstanding = None] \/ ops' = ops
          \/ ops' = [ops EXCEPT ![o] = FinishClaim(o, p)]
          \/ ops' = [ops EXCEPT ![o].busy = FALSE]
      BY <2>2 DEF Close, PacedAdmitted, PacedRefused
    <3>2. UNCHANGED <<operation, queue>>
      BY <2>2 DEF Close, PacedAdmitted, PacedRefused
    <3> HIDE DEF o
    <3> QED
      BY <3>1, <3>2, ClaimsKeepCallers DEF CallersKept
  <2> QED
    BY <2>1, <2>2
<1>3. CASE \E o \in Operation :
             \/ BeginOperation(o) \/ OperationReady(o) \/ LeaveQueue(o)
             \/ AbandonOperationWaiter(o) \/ CloseOperation(o)
  BY <1>3
<1>4. CASE \E o \in Operation : OperationExpires(o)
  <2> PICK o \in Operation : OperationExpires(o)
    BY <1>4
  <2>1. UNCHANGED <<operation, queue>> /\ ops' = [ops EXCEPT ![o].expired = TRUE]
    BY DEF OperationExpires
  <2> QED
    BY <2>1, ClaimsKeepCallers DEF CallersKept
<1>5. CASE \/ \E r \in Relay : AdmitAuth(r)
           \/ \E c \in Opaque :
                \/ \E R \in SUBSET Relay \ {{}} : AdmitOpaque(c, R) \/ OpaqueRefused(R)
                \/ OpaqueAdmitted(c) \/ OpaqueGivesUp(c)
           \/ ReportRateLimited \/ KillSwitch \/ Tick \/ PruneReceipts \/ UNCHANGED vars
  <2>1. UNCHANGED operations
    BY <1>5 DEF AdmitAuth, AdmitOpaque, OpaqueRefused, OpaqueAdmitted, OpaqueGivesUp,
                ReportRateLimited, KillSwitch, Tick, PruneReceipts, vars
  <2> QED
    BY <2>1 DEF CallersKept
<1> QED
  BY <1>1, <1>2, <1>3, <1>4, <1>5 DEF Next

(* A step that moves no call keeps the slot and its queue.                 *)
LEMMA SlotFrame ==
  ASSUME TypeOK, SlotInv, CallersKept
  PROVE  SlotInv'
<1>1. queue \in Seq(Operation)
  BY DEF TypeOK, OperationTypes
<1>2. \A i \in 1 .. Len(queue) : queue[i] \in Operation
  BY <1>1, ElementOfSeq
<1>3. \A o \in Operation : SlotHolder(o)' /\ (Queued(o) => Queued(o)')
  BY DEF SlotInv, SlotHolder, Queued, CallersKept
<1> QED
  BY <1>2, <1>3 DEF SlotInv, CallersKept, Queued, Distinct

(* What one update of an operation's record does to all of them.           *)
LEMMA CallerMoved ==
  ASSUME TypeOK, NEW o \in Operation,
         NEW c, ops' = [ops EXCEPT ![o].caller = c]
  PROVE  /\ ops'[o].caller = c /\ ops'[o].activated = ops[o].activated
         /\ \A x \in Operation \ {o} : ops'[x] = ops[x]
BY DEF TypeOK, OperationTypes, OperationRecord

(* BeginOperation takes a free slot or queues behind its owner.            *)
LEMMA SlotBegin ==
  ASSUME TypeOK, SlotInv, NEW o \in Operation, BeginOperation(o)
  PROVE  SlotInv'
<1>1. /\ ops \in [Operation -> OperationRecord] /\ queue \in Seq(Operation)
      /\ ops[o].caller = "idle" /\ ~ops[o].activated
  BY DEF TypeOK, OperationTypes, BeginOperation, SlotInv, SlotHolder
<1>2. \A i \in 1 .. Len(queue) : queue[i] \in Operation /\ queue[i] # o
  BY <1>1, ElementOfSeq DEF SlotInv, Queued
<1>3. CASE /\ operation = None /\ queue = <<>> /\ operation' = o /\ queue' = queue
           /\ ops' = [ops EXCEPT ![o] = Activated(o, "holding")]
  <2> DEFINE new == Activated(o, "holding")
  <2>1. new.caller = "holding" /\ new.activated = TRUE
    <3> DEFINE op == ops[o]
    <3>1. op \in OperationRecord /\ new = [op EXCEPT !.activated = TRUE, !.caller = "holding"]
      BY <1>1 DEF Activated
    <3> HIDE DEF op, new
    <3> QED
      BY <3>1 DEF OperationRecord
  <2> HIDE DEF new
  <2>2. ops'[o] = new /\ \A x \in Operation \ {o} : ops'[x] = ops[x]
    BY <1>1, <1>3 DEF new
  <2>3. \A x \in Operation : SlotHolder(x)'
    BY <1>3, <2>1, <2>2, NoneAssumption DEF SlotInv, SlotHolder
  <2>4. Len(queue') = 0
    BY <1>3, EmptySeq
  <2> QED
    BY <1>3, <2>3, <2>4 DEF SlotInv, Distinct
<1>4. CASE /\ operation # None \/ queue # <<>>
           /\ queue' = Append(queue, o) /\ ops' = [ops EXCEPT ![o].caller = "waiting"]
           /\ operation' = operation
  <2>1. /\ ops'[o].caller = "waiting" /\ ~ops'[o].activated
        /\ \A x \in Operation \ {o} : ops'[x] = ops[x]
    BY <1>1, <1>4, CallerMoved
  <2>2. \A x \in Operation : SlotHolder(x)'
    BY <1>1, <1>4, <2>1 DEF SlotInv, SlotHolder
  <2>3. /\ Len(queue) \in Nat /\ Len(queue') = Len(queue) + 1
        /\ \A i \in 1 .. Len(queue) : queue'[i] = queue[i]
        /\ queue'[Len(queue) + 1] = o
    BY <1>1, <1>4, AppendProperties, LenProperties
  <2>4. \A i \in 1 .. Len(queue') : i \in 1 .. Len(queue) \/ i = Len(queue) + 1
    BY <2>3
  <2>5. \A i \in 1 .. Len(queue') : Queued(queue[i])' 
    BY <1>2, <2>1, <2>3, <2>4 DEF SlotInv, Queued
  <2>6. Distinct(queue')
    BY <1>2, <2>3, <2>4 DEF SlotInv, Distinct
  <2>7. operation' # None
    BY <1>4 DEF SlotInv
  <2> QED
    BY <2>2, <2>5, <2>6, <2>7 DEF SlotInv, Distinct
<1> QED
  BY <1>3, <1>4 DEF BeginOperation

(* The select of a waiting call takes one of its branches.                 *)
LEMMA SlotSelect ==
  ASSUME TypeOK, SlotInv, NEW o \in Operation, OperationReady(o) \/ LeaveQueue(o)
  PROVE  SlotInv'
<1>1. queue \in Seq(Operation) /\ operation' = operation /\ queue' = queue
  BY DEF TypeOK, OperationTypes, OperationReady, LeaveQueue
<1>2. \A i \in 1 .. Len(queue) : queue[i] \in Operation
  BY <1>1, ElementOfSeq
<1>3. PICK c \in {"holding", "leaving"} :
        /\ ops' = [ops EXCEPT ![o].caller = c]
        /\ c = "holding" => ops[o].activated
  BY DEF OperationReady, LeaveQueue
<1>4. ops[o].caller = "waiting"
  BY DEF OperationReady, LeaveQueue
<1>5. /\ ops'[o].caller = c /\ ops'[o].activated = ops[o].activated
      /\ \A x \in Operation \ {o} : ops'[x] = ops[x]
  BY <1>3, CallerMoved
<1>6. \A x \in Operation : SlotHolder(x)' /\ (Queued(x) => Queued(x)')
  BY <1>1, <1>3, <1>4, <1>5 DEF SlotInv, SlotHolder, Queued
<1> QED
  BY <1>1, <1>2, <1>6 DEF SlotInv, Queued, Distinct

(* A waiter that leaves is taken out of the queue, or goes on to close the *)
(* slot it was given meanwhile.                                            *)
LEMMA SlotAbandon ==
  ASSUME TypeOK, SlotInv, NEW o \in Operation, AbandonOperationWaiter(o)
  PROVE  SlotInv'
<1>1. queue \in Seq(Operation) /\ operation' = operation /\ ops[o].caller = "leaving"
  BY DEF TypeOK, OperationTypes, AbandonOperationWaiter
<1>2. \A i \in 1 .. Len(queue) : queue[i] \in Operation
  BY <1>1, ElementOfSeq
<1>3. CASE ops[o].activated /\ ops' = [ops EXCEPT ![o].caller = "closing"] /\ queue' = queue
  <2>1. /\ ops'[o].caller = "closing" /\ ops'[o].activated = ops[o].activated
        /\ \A x \in Operation \ {o} : ops'[x] = ops[x]
    BY <1>3, CallerMoved
  <2>2. \A x \in Operation : SlotHolder(x)' /\ (Queued(x) => Queued(x)')
    BY <1>1, <1>3, <2>1 DEF SlotInv, SlotHolder, Queued
  <2> QED
    BY <1>1, <1>2, <1>3, <2>2 DEF SlotInv, Queued, Distinct
<1>4. CASE /\ ~ops[o].activated /\ queue' = Without(queue, o)
           /\ ops' = [ops EXCEPT ![o].caller = "gone"]
  <2>1. /\ ops'[o].caller = "gone" /\ ops'[o].activated = ops[o].activated
        /\ \A x \in Operation \ {o} : ops'[x] = ops[x]
    BY <1>4, CallerMoved
  <2>2. /\ Distinct(queue')
        /\ \A k \in 1 .. Len(queue') :
             queue'[k] # o /\ \E i \in 1 .. Len(queue) : queue'[k] = queue[i]
        /\ queue = <<>> => queue' = <<>>
    BY <1>1, <1>4, WithoutElements DEF SlotInv
  <2>3. \A x \in Operation : SlotHolder(x)'
    BY <1>1, <1>4, <2>1 DEF SlotInv, SlotHolder
  <2>4. \A x \in Operation : x # o /\ Queued(x) => Queued(x)'
    BY <2>1 DEF Queued
  <2>5. ASSUME NEW k \in 1 .. Len(queue')
        PROVE  Queued(queue[k])'
    <3> PICK i \in 1 .. Len(queue) : queue'[k] = queue[i] /\ queue[i] # o
      BY <2>2
    <3>1. Queued(queue[i]) /\ queue[i] \in Operation
      BY <1>2 DEF SlotInv
    <3>2. ~ops'[queue[i]].activated /\ ops'[queue[i]].caller \in {"waiting", "leaving"}
      BY <2>4, <3>1 DEF Queued
    <3> QED
      BY <3>2 DEF Queued
  <2> QED
    BY <1>1, <2>2, <2>3, <2>5 DEF SlotInv, Distinct
<1> QED
  BY <1>3, <1>4 DEF AbandonOperationWaiter

(* Close hands the slot to the head of the queue, or frees it.             *)
LEMMA SlotClose ==
  ASSUME TypeOK, SlotInv, NEW o \in Operation, CloseOperation(o)
  PROVE  SlotInv'
<1> DEFINE gone   == [ops[o] EXCEPT !.closed = TRUE, !.caller = "gone"]
           closed == [ops EXCEPT ![o] = gone]
<1>1. /\ ops \in [Operation -> OperationRecord] /\ queue \in Seq(Operation)
      /\ Len(queue) \in Nat
      /\ \A i \in 1 .. Len(queue) : queue[i] \in Operation
  BY ElementOfSeq, LenProperties DEF TypeOK, OperationTypes
<1>2. ops[o].caller \in {"holding", "closing"} /\ operation = o
  BY DEF CloseOperation, SlotInv, SlotHolder
<1>3. gone \in OperationRecord /\ gone.caller = "gone"
  <2> DEFINE op == ops[o]
  <2>1. op \in OperationRecord /\ gone = [op EXCEPT !.closed = TRUE, !.caller = "gone"]
    BY <1>1
  <2> HIDE DEF op, gone
  <2> QED
    BY <2>1 DEF OperationRecord
<1>4. IF queue # <<>>
      THEN /\ operation' = Head(queue) /\ queue' = Tail(queue)
           /\ ops' = [closed EXCEPT ![Head(queue)].activated = TRUE]
      ELSE operation' = None /\ ops' = closed /\ queue' = queue
  BY <1>2 DEF CloseOperation
<1> HIDE DEF gone
<1>5. /\ closed \in [Operation -> OperationRecord] /\ closed[o].caller = "gone"
      /\ \A x \in Operation \ {o} : closed[x] = ops[x]
  BY <1>1, <1>3
<1> HIDE DEF closed
<1>6. CASE queue = <<>>
  <2>1. operation' = None /\ ops' = closed /\ queue' = queue /\ Len(queue) = 0
    BY <1>4, <1>6, EmptySeq
  <2>2. \A x \in Operation : SlotHolder(x)'
    BY <1>2, <1>5, <2>1, NoneAssumption DEF SlotInv, SlotHolder
  <2> QED
    BY <1>6, <2>1, <2>2 DEF SlotInv, Distinct
<1>7. CASE queue # <<>>
  <2> DEFINE h == Head(queue)
  <2>1. /\ operation' = h /\ queue' = Tail(queue)
        /\ ops' = [closed EXCEPT ![h].activated = TRUE]
    BY <1>4, <1>7
  <2>2. Len(queue) >= 1 /\ h = queue[1] /\ h \in Operation
    BY <1>1, <1>7, EmptySeq, HeadTailProperties
  <2>3. Queued(h) /\ h # o
    <3>1. Queued(queue[1])
      BY <1>1, <2>2 DEF SlotInv
    <3>2. Queued(h)
      BY <2>2, <3>1
    <3> QED
      BY <1>2, <3>2 DEF Queued
  <2> HIDE DEF h
  <2>4. /\ ops'[h].activated = TRUE /\ ops'[h].caller = ops[h].caller
        /\ ops'[o].caller = "gone"
        /\ \A x \in Operation \ {o, h} : ops'[x] = ops[x]
    BY <1>5, <2>1, <2>2, <2>3 DEF OperationRecord
  <2>5. \A x \in Operation : SlotHolder(x)'
    BY <1>2, <2>1, <2>2, <2>3, <2>4 DEF SlotInv, SlotHolder, Queued
  <2>6. /\ Len(queue') = Len(queue) - 1
        /\ \A k \in 1 .. Len(queue') : queue'[k] = queue[k + 1]
    BY <1>1, <1>7, <2>1, HeadTailProperties
  <2>7. Distinct(queue')
    BY <1>1, <2>6 DEF SlotInv, Distinct
  <2>8. ASSUME NEW k \in 1 .. Len(queue')
        PROVE  Queued(queue[k])'
    <3>1. k + 1 \in 1 .. Len(queue) /\ 1 \in 1 .. Len(queue) /\ queue'[k] = queue[k + 1]
            /\ k + 1 # 1
      BY <1>1, <2>2, <2>6
    <3>2. Queued(queue[k + 1]) /\ queue[k + 1] # h /\ queue[k + 1] \in Operation
      BY <1>1, <2>2, <3>1 DEF SlotInv, Distinct
    <3>3. queue[k + 1] # o
      BY <1>2, <3>2 DEF Queued
    <3>4. ~ops'[queue[k + 1]].activated /\ ops'[queue[k + 1]].caller \in {"waiting", "leaving"}
      BY <2>4, <3>2, <3>3 DEF Queued
    <3> QED
      BY <3>1, <3>4 DEF Queued
  <2>9. operation' # None
    BY <2>1, <2>2, NoneAssumption
  <2> QED
    BY <2>5, <2>7, <2>8, <2>9 DEF SlotInv, Distinct
<1> QED
  BY <1>6, <1>7

(* BeginOperation, abandonOperationWaiter and Close never leave the slot   *)
(* to a call that is gone, nor callers waiting for a free slot, also when  *)
(* a waiter times out in the moment it is activated.                       *)
THEOREM SlotIsOwned == Spec => []SlotOwned
<1>1. Init => SlotInv
  <2> SUFFICES ASSUME Init PROVE SlotInv
    OBVIOUS
  <2>1. Len(queue) = 0 /\ queue = <<>> /\ operation = None
    BY EmptySeq DEF Init
  <2>2. \A o \in Operation : SlotHolder(o)
    BY <2>1, NoneAssumption DEF Init, SlotHolder, NewOperation
  <2> QED
    BY <2>1, <2>2 DEF SlotInv, Distinct
<1>2. Inv /\ SlotInv /\ [Next]_vars => SlotInv'
  BY CallersMove, SlotFrame, SlotBegin, SlotSelect, SlotAbandon, SlotClose DEF Inv
<1>3. Inv /\ SlotInv => SlotOwned
  BY DEF Inv, TypeOK, OperationTypes, SlotInv, SlotHolder, SlotOwned
<1> QED
  BY <1>1, <1>2, <1>3, Invariance, PTL DEF Spec

-----------------------------------------------------------------------------
(* The publications of an operation.                                       *)

(* The claim behind a publication: it waits for the bulk lane, or it is    *)
(* the one that is outstanding.                                            *)
ClaimedBy(p) ==
  /\ pub[p].state = "pacing" => pub[p].op # None /\ ops[pub[p].op].busy
  /\ pub[p].state = "open" /\ pub[p].op # None => ops[pub[p].op].outstanding = p

(* A claim that waits leaves room for the event it will count.             *)
ClaimBounded(o) ==
  /\ ops[o].busy => ops[o].outstanding = None /\ ops[o].used < MaxEvents
  /\ ops[o].used <= MaxEvents

ClaimInv ==
  /\ \A p \in Publication : ClaimedBy(p)
  /\ \A p, q \in Publication :
       pub[p].state = "pacing" /\ pub[q].state = "pacing" /\ pub[p].op = pub[q].op => p = q
  /\ \A o \in Operation : ClaimBounded(o)

(* The record after a claim.                                               *)
LEMMA FinishClaimFacts ==
  ASSUME TypeOK, NEW o \in Operation, NEW p
  PROVE  /\ FinishClaim(o, p).busy = FALSE
         /\ FinishClaim(o, p).used = ops[o].used + 1
         /\ FinishClaim(o, p).outstanding = p
<1> DEFINE op == ops[o]
<1>1. op \in OperationRecord
  BY DEF TypeOK, OperationTypes
<1>2. FinishClaim(o, p) = [op EXCEPT !.busy = FALSE, !.used = op.used + 1, !.outstanding = p]
  BY DEF FinishClaim
<1> HIDE DEF op
<1>3. /\ FinishClaim(o, p).busy = FALSE /\ FinishClaim(o, p).used = op.used + 1
      /\ FinishClaim(o, p).outstanding = p
  BY <1>1, <1>2 DEF OperationRecord
<1> QED
  BY <1>3 DEF op

(* Steps that start and end no publication of an operation.                *)
LEMMA ClaimFrame ==
  ASSUME TypeOK, ClaimInv,
         \A o \in Operation : /\ ops'[o].busy = ops[o].busy
                              /\ ops'[o].outstanding = ops[o].outstanding
                              /\ ops'[o].used = ops[o].used,
         \A p \in Publication : \/ pub'[p] = pub[p]
                                \/ pub'[p].state \in {"idle", "closed"}
                                \/ pub'[p].state = "open" /\ pub'[p].op = None
  PROVE  ClaimInv'
<1>1. \A p \in Publication : pub[p].op \in Operation \cup {None}
  BY DEF TypeOK, PublicationTypes, PublicationRecord
<1>2. \A o \in Operation : ClaimBounded(o)'
  BY DEF ClaimInv, ClaimBounded
<1>3. \A p \in Publication : ClaimedBy(p)'
  <2>1. SUFFICES ASSUME NEW p \in Publication PROVE ClaimedBy(p)'
    OBVIOUS
  <2>2. CASE pub'[p] = pub[p]
    <3>1. CASE pub[p].op = None
      BY <2>2, <3>1 DEF ClaimInv, ClaimedBy
    <3>2. CASE pub[p].op \in Operation
      BY <2>2, <3>2 DEF ClaimInv, ClaimedBy
    <3> QED
      BY <1>1, <3>1, <3>2
  <2>3. CASE \/ pub'[p].state \in {"idle", "closed"}
             \/ pub'[p].state = "open" /\ pub'[p].op = None
    BY <2>3 DEF ClaimedBy
  <2> QED
    BY <2>2, <2>3
<1>4. \A p \in Publication : pub'[p].state = "pacing" => pub'[p] = pub[p]
  OBVIOUS
<1>5. \A p, q \in Publication :
        pub'[p].state = "pacing" /\ pub'[q].state = "pacing" /\ pub'[p].op = pub'[q].op => p = q
  BY <1>4 DEF ClaimInv
<1> QED
  BY <1>2, <1>3, <1>5 DEF ClaimInv

(* Calls of BeginOperation, and deadlines, claim nothing.                  *)
LEMMA ClaimQueueSteps ==
  ASSUME TypeOK, ClaimInv, NEW o \in Operation,
         \/ BeginOperation(o) \/ OperationReady(o) \/ LeaveQueue(o)
         \/ AbandonOperationWaiter(o) \/ CloseOperation(o) \/ OperationExpires(o)
  PROVE  ClaimInv'
<1>1. ops \in [Operation -> OperationRecord] /\ queue \in Seq(Operation)
  BY DEF TypeOK, OperationTypes
<1>2. pub' = pub
  BY DEF BeginOperation, OperationReady, LeaveQueue, AbandonOperationWaiter,
         CloseOperation, OperationExpires, pubs
<1> DEFINE Same(new) == \A x \in Operation : /\ new[x].busy = ops[x].busy
                                             /\ new[x].outstanding = ops[x].outstanding
                                             /\ new[x].used = ops[x].used
           gone   == [ops[o] EXCEPT !.closed = TRUE, !.caller = "gone"]
           closed == [ops EXCEPT ![o] = gone]
<1>3. Same([ops EXCEPT ![o].expired = TRUE])
  BY <1>1 DEF OperationRecord
<1>4. Same([ops EXCEPT ![o] = Activated(o, "holding")])
  <2> DEFINE op == ops[o]
             new == Activated(o, "holding")
  <2>1. op \in OperationRecord /\ new = [op EXCEPT !.activated = TRUE, !.caller = "holding"]
    BY <1>1 DEF Activated
  <2> HIDE DEF op, new
  <2>2. new.busy = op.busy /\ new.outstanding = op.outstanding /\ new.used = op.used
    BY <2>1 DEF OperationRecord
  <2>3. Same([ops EXCEPT ![o] = new])
    BY <1>1, <2>2 DEF op
  <2> QED
    BY <2>3 DEF new
<1>5. Same(closed) /\ closed \in [Operation -> OperationRecord]
  <2> DEFINE op == ops[o]
  <2>1. op \in OperationRecord /\ gone = [op EXCEPT !.closed = TRUE, !.caller = "gone"]
    BY <1>1
  <2> HIDE DEF op, gone
  <2>2. /\ gone.busy = op.busy /\ gone.outstanding = op.outstanding /\ gone.used = op.used
        /\ gone \in OperationRecord
    BY <2>1 DEF OperationRecord
  <2> QED
    BY <1>1, <2>2 DEF op
<1>6. Same(ops')
  <2>1. CASE CloseOperation(o)
    <3>1. ops' = closed \/ ops' = [closed EXCEPT ![Head(queue)].activated = TRUE]
      BY <2>1 DEF CloseOperation
    <3> HIDE DEF closed
    <3>2. ASSUME NEW h, ops' = [closed EXCEPT ![h].activated = TRUE]
          PROVE  Same(ops')
      BY <1>5, <3>2 DEF OperationRecord
    <3> QED
      BY <1>5, <3>1, <3>2
  <2>2. CASE \/ BeginOperation(o) \/ OperationReady(o) \/ LeaveQueue(o)
             \/ AbandonOperationWaiter(o) \/ OperationExpires(o)
    <3>1. \/ \E c : ops' = [ops EXCEPT ![o].caller = c]
          \/ ops' = [ops EXCEPT ![o].expired = TRUE]
          \/ ops' = [ops EXCEPT ![o] = Activated(o, "holding")]
      BY <2>2 DEF BeginOperation, OperationReady, LeaveQueue, AbandonOperationWaiter,
                  OperationExpires
    <3>2. ASSUME NEW c, ops' = [ops EXCEPT ![o].caller = c]
          PROVE  Same(ops')
      BY <1>1, <3>2 DEF OperationRecord
    <3> HIDE DEF Same
    <3> QED
      BY <1>3, <1>4, <3>1, <3>2
  <2> QED
    BY <2>1, <2>2
<1> QED
  BY <1>2, <1>6, ClaimFrame

(* Operation.Begin: only an operation without a claim starts one.          *)
LEMMA ClaimOperationBegin ==
  ASSUME TypeOK, ClaimInv, NEW o \in Operation, NEW p \in Publication,
         NEW event \in Event, NEW R \in SUBSET Relay, OperationBegin(o, p, event, R)
  PROVE  ClaimInv'
<1> DEFINE need == Pending(event, R)
<1>1. /\ ops \in [Operation -> OperationRecord] /\ pub \in [Publication -> PublicationRecord]
      /\ \A q \in Publication : pub[q].op \in Operation \cup {None}
      /\ ops[o].used \in Nat
  BY DEF TypeOK, OperationTypes, OperationRecord, PublicationTypes, PublicationRecord
<1>2. /\ ~ops[o].busy /\ ops[o].outstanding = None /\ ops[o].used < MaxEvents
      /\ o # None /\ p # None /\ MaxEvents \in Nat
  BY NoneAssumption, AdmissionAssumption DEF OperationBegin, Claimable
<1>3. \A q \in Publication :
        pub[q].op = o => pub[q].state # "pacing" /\ pub[q].state # "open"
  BY <1>2, NoneAssumption DEF ClaimInv, ClaimedBy
<1>4. CASE /\ pub' = [pub EXCEPT ![p] = Admitted(o, event, need)]
           /\ ops' = [ops EXCEPT ![o] = FinishClaim(o, p)]
  <2>1. /\ pub'[p].state = "open" /\ pub'[p].op = o
        /\ \A q \in Publication \ {p} : pub'[q] = pub[q]
    BY <1>1, <1>4 DEF Admitted
  <2>2. /\ ops'[o].busy = FALSE /\ ops'[o].used = ops[o].used + 1 /\ ops'[o].outstanding = p
        /\ \A x \in Operation \ {o} : ops'[x] = ops[x]
    BY <1>1, <1>4, FinishClaimFacts
  <2>3. \A q \in Publication : ClaimedBy(q)'
    BY <1>1, <1>2, <1>3, <2>1, <2>2 DEF ClaimInv, ClaimedBy
  <2>4. \A x \in Operation : ClaimBounded(x)'
    BY <1>1, <1>2, <2>2 DEF ClaimInv, ClaimBounded
  <2> QED
    BY <2>1, <2>3, <2>4 DEF ClaimInv
<1>5. CASE /\ pub' = [pub EXCEPT ![p] = [Admitted(o, event, need) EXCEPT !.state = "pacing",
                                                                        !.generation = 0]]
           /\ ops' = [ops EXCEPT ![o].busy = TRUE]
  <2>1. /\ pub'[p].state = "pacing" /\ pub'[p].op = o
        /\ \A q \in Publication \ {p} : pub'[q] = pub[q]
    BY <1>1, <1>5 DEF Admitted
  <2>2. /\ ops'[o].busy = TRUE /\ ops'[o].used = ops[o].used /\ ops'[o].outstanding = None
        /\ \A x \in Operation \ {o} : ops'[x] = ops[x]
    BY <1>1, <1>2, <1>5 DEF OperationRecord
  <2>3. \A q \in Publication : ClaimedBy(q)'
    BY <1>1, <1>2, <1>3, <2>1, <2>2 DEF ClaimInv, ClaimedBy
  <2>4. \A x \in Operation : ClaimBounded(x)'
    BY <1>1, <1>2, <2>2 DEF ClaimInv, ClaimBounded
  <2>5. \A q, s \in Publication :
          pub'[q].state = "pacing" /\ pub'[s].state = "pacing" /\ pub'[q].op = pub'[s].op => q = s
    BY <1>3, <2>1 DEF ClaimInv
  <2> QED
    BY <2>3, <2>4, <2>5 DEF ClaimInv
<1> QED
  BY <1>4, <1>5 DEF OperationBegin

(* An event that every relay has a receipt for counts and ends.            *)
LEMMA ClaimOperationBeginDone ==
  ASSUME TypeOK, ClaimInv, NEW o \in Operation,
         NEW event \in Event, NEW R \in SUBSET Relay, OperationBeginDone(o, event, R)
  PROVE  ClaimInv'
<1>1. /\ ops \in [Operation -> OperationRecord]
      /\ \A q \in Publication : pub[q].op \in Operation \cup {None}
      /\ ops[o].used \in Nat /\ MaxEvents \in Nat
  BY AdmissionAssumption
  DEF TypeOK, OperationTypes, OperationRecord, PublicationTypes, PublicationRecord
<1>2. /\ ~ops[o].busy /\ ops[o].outstanding = None /\ ops[o].used < MaxEvents
      /\ pub' = pub
  BY DEF OperationBeginDone, Claimable, pubs
<1>3. CASE ops' = ops
  BY <1>2, <1>3, ClaimFrame
<1>4. CASE ops' = [ops EXCEPT ![o] = FinishClaim(o, None)]
  <2>1. /\ ops'[o].busy = FALSE /\ ops'[o].used = ops[o].used + 1 /\ ops'[o].outstanding = None
        /\ \A x \in Operation \ {o} : ops'[x] = ops[x]
    BY <1>1, <1>4, FinishClaimFacts
  <2>2. \A q \in Publication : ClaimedBy(q)'
    BY <1>1, <1>2, <2>1, NoneAssumption DEF ClaimInv, ClaimedBy
  <2>3. \A x \in Operation : ClaimBounded(x)'
    BY <1>1, <1>2, <2>1 DEF ClaimInv, ClaimBounded
  <2> QED
    BY <1>2, <2>2, <2>3 DEF ClaimInv
<1> QED
  BY <1>3, <1>4 DEF OperationBeginDone

(* The wait ends, admitted or refused: the claim was that publication's.   *)
LEMMA ClaimPaced ==
  ASSUME TypeOK, ClaimInv, NEW p \in Publication, PacedAdmitted(p) \/ PacedRefused(p)
  PROVE  ClaimInv'
<1> DEFINE o == pub[p].op
<1>1. /\ ops \in [Operation -> OperationRecord] /\ pub \in [Publication -> PublicationRecord]
      /\ \A q \in Publication : pub[q].op \in Operation \cup {None}
      /\ pub[p].state = "pacing" /\ MaxEvents \in Nat
  BY AdmissionAssumption
  DEF TypeOK, OperationTypes, PublicationTypes, PublicationRecord, PacedAdmitted, PacedRefused
<1>2. /\ o \in Operation /\ ops[o].busy /\ ops[o].outstanding = None
      /\ ops[o].used < MaxEvents /\ ops[o].used \in Nat
  BY <1>1 DEF ClaimInv, ClaimedBy, ClaimBounded, OperationRecord
<1>3. \A q \in Publication \ {p} :
        pub[q].op = o => pub[q].state # "pacing" /\ pub[q].state # "open"
  BY <1>1, <1>2, NoneAssumption DEF ClaimInv, ClaimedBy
<1>4. CASE PacedAdmitted(p)
  <2>1. /\ pub' = [pub EXCEPT ![p] = [pub[p] EXCEPT !.state = "open",
                                                     !.generation = breaker.generation]]
        /\ ops' = [ops EXCEPT ![o] = FinishClaim(o, p)]
    BY <1>4 DEF PacedAdmitted
  <2>2. /\ pub'[p].state = "open" /\ pub'[p].op = o
        /\ \A q \in Publication \ {p} : pub'[q] = pub[q]
    <3> DEFINE rec == pub[p]
               new == [rec EXCEPT !.state = "open", !.generation = breaker.generation]
    <3>1. rec \in PublicationRecord /\ o = rec.op
      BY <1>1
    <3> HIDE DEF rec
    <3>2. new.state = "open" /\ new.op = rec.op
      BY <3>1 DEF PublicationRecord
    <3>3. pub' = [pub EXCEPT ![p] = new]
      BY <2>1 DEF rec
    <3> HIDE DEF new
    <3> QED
      BY <1>1, <3>1, <3>2, <3>3
  <2> HIDE DEF o
  <2>3. /\ ops'[o].busy = FALSE /\ ops'[o].used = ops[o].used + 1 /\ ops'[o].outstanding = p
        /\ \A x \in Operation \ {o} : ops'[x] = ops[x]
    BY <1>1, <1>2, <2>1, FinishClaimFacts
  <2>4. \A q \in Publication : ClaimedBy(q)'
    BY <1>1, <1>2, <1>3, <2>2, <2>3 DEF ClaimInv, ClaimedBy
  <2>5. \A x \in Operation : ClaimBounded(x)'
    BY <1>1, <1>2, <2>3 DEF ClaimInv, ClaimBounded
  <2> QED
    BY <2>2, <2>4, <2>5 DEF ClaimInv
<1>5. CASE PacedRefused(p)
  <2>1. /\ pub' = [pub EXCEPT ![p] = NoPublication]
        /\ ops' = [ops EXCEPT ![o].busy = FALSE]
    BY <1>5 DEF PacedRefused
  <2> HIDE DEF o
  <2>2. pub'[p].state = "idle" /\ \A q \in Publication \ {p} : pub'[q] = pub[q]
    BY <1>1, <2>1 DEF NoPublication
  <2>3. /\ ops'[o].busy = FALSE /\ ops'[o].used = ops[o].used
        /\ ops'[o].outstanding = ops[o].outstanding
        /\ \A x \in Operation \ {o} : ops'[x] = ops[x]
    BY <1>1, <1>2, <2>1 DEF OperationRecord
  <2>4. \A q \in Publication : ClaimedBy(q)'
    BY <1>1, <1>2, <1>3, <2>2, <2>3 DEF ClaimInv, ClaimedBy
  <2>5. \A x \in Operation : ClaimBounded(x)'
    BY <1>1, <1>2, <2>3 DEF ClaimInv, ClaimBounded
  <2> QED
    BY <2>2, <2>4, <2>5 DEF ClaimInv
<1> QED
  BY <1>4, <1>5

(* What Close makes of a publication.                                      *)
LEMMA ClosedPublication ==
  ASSUME TypeOK, NEW p \in Publication, Close(p)
  PROVE  /\ pub'[p].state \in {"idle", "closed"}
         /\ pub'[p].state = "closed" => /\ pub'[p].generation = pub[p].generation
                                        /\ flight[p] # {}
         /\ flight[p] # {} => pub'[p].state = "closed"
         /\ pub'[p] = NoPublication \/ pub'[p].state = "closed"
         /\ \A q \in Publication \ {p} : pub'[q] = pub[q]
<1>1. pub \in [Publication -> PublicationRecord]
  BY DEF TypeOK, PublicationTypes
<1>2. pub' = [pub EXCEPT ![p] = Kept([pub[p] EXCEPT !.state = "closed"], flight[p])]
  BY <1>1 DEF Close
<1>3. /\ [pub[p] EXCEPT !.state = "closed"].state = "closed"
      /\ [pub[p] EXCEPT !.state = "closed"].generation = pub[p].generation
  BY <1>1 DEF PublicationRecord
<1>4. NoPublication.state = "idle"
  BY DEF NoPublication
<1>5. /\ pub'[p] = Kept([pub[p] EXCEPT !.state = "closed"], flight[p])
      /\ \A q \in Publication \ {p} : pub'[q] = pub[q]
  BY <1>1, <1>2
<1> QED
  BY <1>3, <1>4, <1>5 DEF Kept

(* Close ends the claim of its publication and of no other.                *)
LEMMA ClaimClose ==
  ASSUME TypeOK, ClaimInv, NEW p \in Publication, Close(p)
  PROVE  ClaimInv'
<1> DEFINE o == pub[p].op
<1>1. /\ ops \in [Operation -> OperationRecord]
      /\ \A q \in Publication : pub[q].op \in Operation \cup {None}
      /\ p # None
  BY NoneAssumption DEF TypeOK, OperationTypes, PublicationTypes, PublicationRecord
<1>2. /\ pub'[p].state \in {"idle", "closed"}
      /\ \A q \in Publication \ {p} : pub'[q] = pub[q]
  BY ClosedPublication
<1>3. ops' = IF o # None /\ ops[o].outstanding = p
             THEN [ops EXCEPT ![o].outstanding = None] ELSE ops
  BY DEF Close
<1> HIDE DEF o
<1>4. CASE ops' = ops
  BY <1>2, <1>4, ClaimFrame
<1>5. CASE /\ o # None /\ ops[o].outstanding = p
           /\ ops' = [ops EXCEPT ![o].outstanding = None]
  <2>0. o \in Operation
    BY <1>1, <1>5 DEF o
  <2>1. /\ ops'[o].busy = ops[o].busy /\ ops'[o].used = ops[o].used
        /\ ops'[o].outstanding = None
        /\ \A x \in Operation \ {o} : ops'[x] = ops[x]
    BY <1>1, <1>5, <2>0 DEF OperationRecord
  <2>2. \A q \in Publication \ {p} : pub[q].state = "open" => pub[q].op # o
    BY <1>5, <2>0, NoneAssumption DEF ClaimInv, ClaimedBy
  <2>3. ~ops[o].busy
    BY <1>1, <1>5, <2>0 DEF ClaimInv, ClaimBounded
  <2>4. \A q \in Publication : ClaimedBy(q)'
    BY <1>1, <1>2, <2>1, <2>2, <2>3 DEF ClaimInv, ClaimedBy
  <2>5. \A x \in Operation : ClaimBounded(x)'
    BY <2>1 DEF ClaimInv, ClaimBounded
  <2> QED
    BY <1>2, <2>4, <2>5 DEF ClaimInv
<1> QED
  BY <1>3, <1>4, <1>5

(* Every step keeps the claims.                                            *)
LEMMA ClaimNext ==
  ASSUME TypeOK, ClaimInv, [Next]_vars
  PROVE  ClaimInv'
<1>0. pub \in [Publication -> PublicationRecord] /\ flight \in [Publication -> SUBSET Relay]
  BY DEF TypeOK, PublicationTypes
<1>1. CASE \E event \in Event, R \in SUBSET Relay \ {{}} :
             \/ \E p \in Publication : Begin(p, event, R) \/ BeginRefused(event, R)
             \/ \E o \in Operation :
                  \/ \E p \in Publication : OperationBegin(o, p, event, R)
                  \/ OperationBeginDone(o, event, R)
  <2> PICK event \in Event, R \in SUBSET Relay \ {{}} :
             \/ \E p \in Publication : Begin(p, event, R) \/ BeginRefused(event, R)
             \/ \E o \in Operation :
                  \/ \E p \in Publication : OperationBegin(o, p, event, R)
                  \/ OperationBeginDone(o, event, R)
    BY <1>1
  <2>1. ASSUME NEW p \in Publication, Begin(p, event, R)
        PROVE  ClaimInv'
    <3>1. pub' = [pub EXCEPT ![p] = Admitted(None, event, Pending(event, R))] /\ ops' = ops
      BY <2>1 DEF Begin, operations
    <3>2. /\ pub'[p].state = "open" /\ pub'[p].op = None
          /\ \A q \in Publication \ {p} : pub'[q] = pub[q]
      BY <1>0, <3>1 DEF Admitted
    <3> QED
      BY <3>1, <3>2, ClaimFrame
  <2>2. ASSUME BeginRefused(event, R)
        PROVE  ClaimInv'
    BY <2>2, ClaimFrame DEF BeginRefused, pubs, operations
  <2>3. CASE \E o \in Operation :
               \/ \E p \in Publication : OperationBegin(o, p, event, R)
               \/ OperationBeginDone(o, event, R)
    BY <2>3, ClaimOperationBegin, ClaimOperationBeginDone
  <2> QED
    BY <2>1, <2>2, <2>3
<1>2. ASSUME NEW p \in Publication, NEW r \in Relay, BeforeAttempt(p, r) \/ Observe(p, r)
      PROVE  ClaimInv'
  <2>1. CASE BeforeAttempt(p, r)
    BY <2>1, ClaimFrame DEF BeforeAttempt, operations
  <2>2. CASE Observe(p, r)
    <3>1. ops' = ops /\ pub' = [pub EXCEPT ![p] = Kept(@, flight[p] \ {r})]
      BY <2>2 DEF Observe, operations
    <3>2. pub'[p] = pub[p] \/ pub'[p].state = "idle"
      BY <1>0, <3>1 DEF Kept, NoPublication
    <3>3. \A q \in Publication \ {p} : pub'[q] = pub[q]
      BY <1>0, <3>1
    <3> QED
      BY <3>1, <3>2, <3>3, ClaimFrame
  <2> QED
    BY <1>2, <2>1, <2>2
<1>3. CASE \E p \in Publication : Close(p) \/ PacedAdmitted(p) \/ PacedRefused(p)
  BY <1>3, ClaimClose, ClaimPaced
<1>4. CASE \E o \in Operation :
             \/ BeginOperation(o) \/ OperationReady(o) \/ LeaveQueue(o)
             \/ AbandonOperationWaiter(o) \/ CloseOperation(o) \/ OperationExpires(o)
  BY <1>4, ClaimQueueSteps
<1>5. CASE \/ \E r \in Relay : AdmitAuth(r)
           \/ \E c \in Opaque :
                \/ \E R \in SUBSET Relay \ {{}} : AdmitOpaque(c, R) \/ OpaqueRefused(R)
                \/ OpaqueAdmitted(c) \/ OpaqueGivesUp(c)
           \/ ReportRateLimited \/ KillSwitch \/ Tick \/ PruneReceipts \/ UNCHANGED vars
  <2>1. UNCHANGED <<pubs, operations>>
    BY <1>5 DEF AdmitAuth, AdmitOpaque, OpaqueRefused, OpaqueAdmitted, OpaqueGivesUp,
                ReportRateLimited, KillSwitch, Tick, PruneReceipts, vars
  <2> QED
    BY <2>1, ClaimFrame DEF pubs, operations
<1> QED
  BY <1>1, <1>2, <1>3, <1>4, <1>5 DEF Next

(* Operation.Begin admits one publication at a time and never more than    *)
(* the operation declared, also when the operation is closed or expires    *)
(* while one waits for the bulk lane.                                      *)
THEOREM OneClaimAtATime == Spec => []OneOutstanding
<1>1. Init => ClaimInv
  BY AdmissionAssumption
  DEF Init, ClaimInv, ClaimedBy, ClaimBounded, NoPublication, NewOperation
<1>2. Inv /\ ClaimInv /\ [Next]_vars => ClaimInv'
  BY ClaimNext DEF Inv
<1>3. Inv /\ ClaimInv => OneOutstanding
  <2> SUFFICES ASSUME Inv, ClaimInv PROVE OneOutstanding
    OBVIOUS
  <2>1. ASSUME NEW p \in Registered, NEW q \in Registered,
               pub[p].op = pub[q].op, pub[p].op # None
        PROVE  p = q
    <3>1. p \in Publication /\ q \in Publication /\ pub[p].op \in Operation
      BY <2>1 DEF Registered, Inv, TypeOK, PublicationTypes, PublicationRecord
    <3>2. ClaimedBy(p) /\ ClaimedBy(q) /\ ClaimBounded(pub[p].op)
      BY <3>1 DEF ClaimInv
    <3> QED
      BY <2>1, <3>1, <3>2, NoneAssumption
      DEF Registered, ClaimInv, ClaimedBy, ClaimBounded
  <2>2. \A o \in Operation : ops[o].used <= MaxEvents
    BY DEF ClaimInv, ClaimBounded
  <2> QED
    BY <2>1, <2>2 DEF OneOutstanding
<1> QED
  BY <1>1, <1>2, <1>3, Invariance, PTL DEF Spec
-----------------------------------------------------------------------------
(* The backoff.                                                            *)

(* Publications of the current generation were admitted after the last     *)
(* rate limit, and only admitted ones have results to come.                *)
FreshOf(p) ==
  /\ pub[p].generation <= breaker.generation
  /\ flight[p] # {} => pub[p].state \in {"open", "closed"}
  /\ pub[p].state \in {"open", "closed"} /\ pub[p].generation = breaker.generation
       => p \in fresh

FreshInv == \A p \in Publication : FreshOf(p)

(* The records of publications and of the breaker.                         *)
LEMMA FreshTypes ==
  ASSUME TypeOK
  PROVE  /\ pub \in [Publication -> PublicationRecord]
         /\ flight \in [Publication -> SUBSET Relay]
         /\ breaker \in [wait : Nat, delay : Nat, generation : Nat]
         /\ breaker.generation \in Nat /\ breaker.delay \in Nat
         /\ \A p \in Publication : pub[p].generation \in Nat
BY DEF TypeOK, GateTypes, PublicationTypes, PublicationRecord

(* A rate limit starts a generation nothing was admitted in, with a        *)
(* backoff.                                                                *)
LEMMA NewGeneration ==
  ASSUME TypeOK, OpenBreaker
  PROVE  /\ breaker'.generation = breaker.generation + 1 /\ fresh' = {}
         /\ breaker'.delay > 0
<1>1. breaker.delay \in Nat /\ BreakerMin \in Nat \ {0} /\ BreakerMax \in Nat
        /\ BreakerMax >= BreakerMin
  BY FreshTypes, AdmissionAssumption
<1> DEFINE d == IF breaker.delay < BreakerMin THEN BreakerMin
                ELSE Least(2 * breaker.delay, BreakerMax)
<1>2. d > 0
  BY <1>1 DEF Least
<1>3. PICK jitter \in 0 .. (d \div 5) :
        breaker' = [wait |-> Greatest(breaker.wait, d + jitter),
                    delay |-> d, generation |-> breaker.generation + 1]
  BY DEF OpenBreaker
<1> HIDE DEF d
<1>4. breaker'.delay = d /\ breaker'.generation = breaker.generation + 1
  BY <1>3
<1> QED
  BY <1>2, <1>4 DEF OpenBreaker

(* A success changes the delay only in the generation it belongs to.       *)
LEMMA ResetGeneration ==
  ASSUME TypeOK, NEW g, CloseBreaker(g)
  PROVE  /\ breaker'.generation = breaker.generation
         /\ breaker'.delay = breaker.delay \/ g = breaker.generation
<1>1. breaker \in [wait : Nat, delay : Nat, generation : Nat]
  BY FreshTypes
<1> QED
  BY <1>1 DEF CloseBreaker

(* A step after which a publication was admitted now or is as it was.      *)
LEMMA FreshFrame ==
  ASSUME TypeOK, FreshInv, breaker'.generation = breaker.generation, fresh \subseteq fresh',
         \A p \in Publication :
           \/ pub'[p] = pub[p] /\ flight'[p] = flight[p]
           \/ /\ pub'[p].generation = breaker.generation /\ pub'[p].state = "open"
              /\ p \in fresh'
           \/ pub'[p].generation = 0 /\ pub'[p].state \in {"idle", "pacing"} /\ flight'[p] = {}
  PROVE  FreshInv'
<1>1. breaker.generation \in Nat
  BY FreshTypes
<1>2. SUFFICES ASSUME NEW p \in Publication PROVE FreshOf(p)'
  BY DEF FreshInv
<1>3. FreshOf(p)
  BY DEF FreshInv
<1> QED
  BY <1>1, <1>3 DEF FreshOf

(* A result is taken from a publication that was admitted; a rate limit    *)
(* makes all earlier admissions old.                                       *)
LEMMA FreshObserve ==
  ASSUME TypeOK, FreshInv, NEW p \in Publication, NEW r \in Relay, Observe(p, r)
  PROVE  FreshInv'
<1>1. /\ pub' = [pub EXCEPT ![p] = Kept(@, flight[p] \ {r})]
      /\ flight' = [flight EXCEPT ![p] = @ \ {r}] /\ r \in flight[p]
  BY DEF Observe
<1>2. \A q \in Publication \ {p} : pub'[q] = pub[q] /\ flight'[q] = flight[q]
  BY <1>1, FreshTypes
<1>3. /\ flight'[p] = flight[p] \ {r}
      /\ \/ pub'[p] = pub[p]
         \/ flight'[p] = {} /\ pub'[p].state = "idle" /\ pub'[p].generation = 0
  BY <1>1, FreshTypes DEF Kept, NoPublication
<1>4. \/ breaker'.generation = breaker.generation /\ fresh' = fresh
      \/ breaker'.generation = breaker.generation + 1 /\ fresh' = {}
  BY NewGeneration, ResetGeneration DEF Observe
<1>5. SUFFICES ASSUME NEW q \in Publication PROVE FreshOf(q)'
  BY DEF FreshInv
<1>6. FreshOf(q) /\ pub[q].generation \in Nat /\ breaker.generation \in Nat
  BY FreshTypes DEF FreshInv
<1>7. CASE q # p
  BY <1>2, <1>4, <1>6, <1>7 DEF FreshOf
<1>8. CASE q = p
  BY <1>3, <1>4, <1>6, <1>8 DEF FreshOf
<1> QED
  BY <1>7, <1>8

(* Close keeps the generation of a publication that has results to come.   *)
LEMMA FreshClose ==
  ASSUME TypeOK, FreshInv, NEW p \in Publication, Close(p)
  PROVE  FreshInv'
<1>1. /\ pub'[p] = NoPublication \/ pub'[p].state = "closed"
      /\ pub'[p].state = "closed" => pub'[p].generation = pub[p].generation
      /\ flight[p] # {} => pub'[p].state = "closed"
      /\ \A q \in Publication \ {p} : pub'[q] = pub[q]
  BY ClosedPublication
<1>2. breaker' = breaker /\ flight' = flight /\ fresh' = fresh /\ pub[p].state = "open"
  BY DEF Close, gates, history
<1>3. SUFFICES ASSUME NEW q \in Publication PROVE FreshOf(q)'
  BY DEF FreshInv
<1>4. FreshOf(q) /\ pub[q].generation \in Nat /\ breaker.generation \in Nat
  BY FreshTypes DEF FreshInv
<1>5. NoPublication.state = "idle" /\ NoPublication.generation = 0
  BY DEF NoPublication
<1> QED
  BY <1>1, <1>2, <1>4, <1>5 DEF FreshOf

(* Every step keeps the admitted publications of this generation fresh.    *)
LEMMA FreshNext ==
  ASSUME TypeOK, FreshInv, [Next]_vars
  PROVE  FreshInv'
<1>0. /\ pub \in [Publication -> PublicationRecord]
      /\ flight \in [Publication -> SUBSET Relay]
      /\ breaker \in [wait : Nat, delay : Nat, generation : Nat]
  BY FreshTypes
<1>1. CASE \E event \in Event, R \in SUBSET Relay \ {{}} :
             \/ \E p \in Publication : Begin(p, event, R) \/ BeginRefused(event, R)
             \/ \E o \in Operation :
                  \/ \E p \in Publication : OperationBegin(o, p, event, R)
                  \/ OperationBeginDone(o, event, R)
  <2> PICK event \in Event, R \in SUBSET Relay \ {{}} :
             \/ \E p \in Publication : Begin(p, event, R) \/ BeginRefused(event, R)
             \/ \E o \in Operation :
                  \/ \E p \in Publication : OperationBegin(o, p, event, R)
                  \/ OperationBeginDone(o, event, R)
    BY <1>1
  <2> DEFINE need == Pending(event, R)
  <2>1. ASSUME NEW p \in Publication, Begin(p, event, R)
        PROVE  FreshInv'
    <3>1. /\ pub' = [pub EXCEPT ![p] = Admitted(None, event, need)]
          /\ fresh' = fresh \cup {p} /\ breaker' = breaker /\ flight' = flight
      BY <2>1 DEF Begin, gates
    <3>2. /\ pub'[p].state = "open" /\ pub'[p].generation = breaker.generation
          /\ \A q \in Publication \ {p} : pub'[q] = pub[q]
      BY <1>0, <3>1 DEF Admitted
    <3> QED
      BY <3>1, <3>2, FreshFrame
  <2>2. ASSUME BeginRefused(event, R) \/ \E o \in Operation : OperationBeginDone(o, event, R)
        PROVE  FreshInv'
    BY <2>2, FreshFrame DEF BeginRefused, OperationBeginDone, gates, pubs, history
  <2>3. ASSUME NEW o \in Operation, NEW p \in Publication, OperationBegin(o, p, event, R)
        PROVE  FreshInv'
    <3>1. /\ breaker' = breaker /\ flight' = flight /\ pub[p].state = "idle"
          /\ \/ /\ pub' = [pub EXCEPT ![p] = Admitted(o, event, need)]
                /\ fresh' = fresh \cup {p}
             \/ /\ pub' = [pub EXCEPT ![p] = [Admitted(o, event, need) EXCEPT
                                                !.state = "pacing", !.generation = 0]]
                /\ fresh' = fresh
      BY <2>3 DEF OperationBegin, gates
    <3>2. /\ \/ pub'[p].state = "open" /\ pub'[p].generation = breaker.generation /\ p \in fresh'
             \/ pub'[p].state = "pacing" /\ pub'[p].generation = 0
          /\ \A q \in Publication \ {p} : pub'[q] = pub[q]
      <4> DEFINE rec    == Admitted(o, event, need)
                 paced  == [rec EXCEPT !.state = "pacing", !.generation = 0]
      <4>1. /\ rec.state = "open" /\ rec.generation = breaker.generation
            /\ paced.state = "pacing" /\ paced.generation = 0
        BY DEF Admitted
      <4>2. \/ pub' = [pub EXCEPT ![p] = rec] /\ fresh' = fresh \cup {p}
            \/ pub' = [pub EXCEPT ![p] = paced]
        BY <3>1
      <4> HIDE DEF rec, paced
      <4> QED
        BY <1>0, <4>1, <4>2
    <3>3. flight'[p] = {}
      BY <3>1 DEF FreshInv, FreshOf
    <3> QED
      BY <3>1, <3>2, <3>3, FreshFrame
  <2> QED
    BY <2>1, <2>2, <2>3
<1>2. ASSUME NEW p \in Publication, NEW r \in Relay, BeforeAttempt(p, r)
      PROVE  FreshInv'
  <2>1. /\ breaker' = breaker /\ fresh' = fresh /\ pub' = pub /\ pub[p].state = "open"
        /\ flight' = [flight EXCEPT ![p] = @ \cup {r}]
    BY <1>2 DEF BeforeAttempt, gates
  <2>2. \A q \in Publication \ {p} : flight'[q] = flight[q]
    BY <1>0, <2>1
  <2> QED
    BY <2>1, <2>2 DEF FreshInv, FreshOf
<1>3. ASSUME NEW p \in Publication, PacedAdmitted(p) \/ PacedRefused(p)
      PROVE  FreshInv'
  <2>0. pub[p].state = "pacing" /\ breaker' = breaker /\ flight' = flight
    BY <1>3 DEF PacedAdmitted, PacedRefused, gates
  <2>1. flight'[p] = {}
    BY <2>0 DEF FreshInv, FreshOf
  <2>2. CASE PacedAdmitted(p)
    <3> DEFINE rec == pub[p]
               new == [rec EXCEPT !.state = "open", !.generation = breaker.generation]
    <3>1. rec \in PublicationRecord
      BY <1>0
    <3> HIDE DEF rec
    <3>2. new.state = "open" /\ new.generation = breaker.generation
      BY <3>1 DEF PublicationRecord
    <3>3. pub' = [pub EXCEPT ![p] = new] /\ fresh' = fresh \cup {p}
      BY <2>2 DEF PacedAdmitted, rec
    <3> HIDE DEF new
    <3>4. pub'[p] = new /\ \A q \in Publication \ {p} : pub'[q] = pub[q]
      BY <1>0, <3>3
    <3> QED
      BY <2>0, <3>2, <3>3, <3>4, FreshFrame
  <2>3. CASE PacedRefused(p)
    <3>1. pub' = [pub EXCEPT ![p] = NoPublication] /\ fresh' = fresh
      BY <2>3 DEF PacedRefused, history
    <3>2. /\ pub'[p].state = "idle" /\ pub'[p].generation = 0
          /\ \A q \in Publication \ {p} : pub'[q] = pub[q]
      BY <1>0, <3>1 DEF NoPublication
    <3> QED
      BY <2>0, <2>1, <3>1, <3>2, FreshFrame
  <2> QED
    BY <1>3, <2>2, <2>3
<1>4. CASE \E p \in Publication : Close(p) \/ \E r \in Relay : Observe(p, r)
  BY <1>4, FreshClose, FreshObserve
<1>5. CASE ReportRateLimited
  <2>1. /\ pub' = pub /\ flight' = flight /\ fresh' = {}
        /\ breaker'.generation = breaker.generation + 1
    BY <1>5, NewGeneration DEF ReportRateLimited, pubs
  <2> QED
    BY <2>1, FreshTypes DEF FreshInv, FreshOf
<1>6. CASE Tick
  <2>1. UNCHANGED <<pubs, fresh>> /\ breaker'.generation = breaker.generation
    BY <1>0, <1>6 DEF Tick
  <2> QED
    BY <2>1, FreshFrame DEF pubs
<1>7. CASE \/ \E o \in Operation :
                \/ BeginOperation(o) \/ OperationReady(o) \/ LeaveQueue(o)
                \/ AbandonOperationWaiter(o) \/ CloseOperation(o) \/ OperationExpires(o)
           \/ \E r \in Relay : AdmitAuth(r)
           \/ \E c \in Opaque :
                \/ \E R \in SUBSET Relay \ {{}} : AdmitOpaque(c, R) \/ OpaqueRefused(R)
                \/ OpaqueAdmitted(c) \/ OpaqueGivesUp(c)
           \/ KillSwitch \/ PruneReceipts \/ UNCHANGED vars
  <2>1. UNCHANGED <<pubs, breaker, fresh>>
    BY <1>7 DEF BeginOperation, OperationReady, LeaveQueue, AbandonOperationWaiter,
                CloseOperation, OperationExpires, AdmitAuth, AdmitOpaque, OpaqueRefused,
                OpaqueAdmitted, OpaqueGivesUp, KillSwitch, PruneReceipts, vars, gates, history
  <2> QED
    BY <2>1, FreshFrame DEF pubs
<1> QED
  BY <1>1, <1>2, <1>3, <1>4, <1>5, <1>6, <1>7 DEF Next

(* Only a result of a publication admitted since the last rate limit can   *)
(* reset the backoff.                                                      *)
LEMMA ResetIsFresh ==
  ASSUME TypeOK, FreshInv, [Next]_vars, breaker.delay > 0, breaker'.delay = 0
  PROVE  \E p \in fresh : flight'[p] # flight[p]
<1>0. breaker \in [wait : Nat, delay : Nat, generation : Nat]
  BY FreshTypes
<1>1. breaker' # breaker /\ ~OpenBreaker
  BY NewGeneration
<1>2. ~Tick
  BY <1>0 DEF Tick
<1>3. \E p \in Publication, r \in Relay : Observe(p, r)
  <2>1. CASE \E event \in Event, R \in SUBSET Relay \ {{}} :
               \/ \E p \in Publication : Begin(p, event, R) \/ BeginRefused(event, R)
               \/ \E o \in Operation :
                    \/ \E p \in Publication : OperationBegin(o, p, event, R)
                    \/ OperationBeginDone(o, event, R)
    <3>1. UNCHANGED gates
      <4>1. ASSUME NEW p, NEW event, NEW R, Begin(p, event, R) \/ BeginRefused(event, R)
            PROVE  UNCHANGED gates
        BY <4>1 DEF Begin, BeginRefused
      <4>2. ASSUME NEW o, NEW p, NEW event, NEW R, OperationBegin(o, p, event, R)
            PROVE  UNCHANGED gates
        BY <4>2 DEF OperationBegin
      <4>3. ASSUME NEW o, NEW event, NEW R, OperationBeginDone(o, event, R)
            PROVE  UNCHANGED gates
        BY <4>3 DEF OperationBeginDone
      <4> QED
        BY <2>1, <4>1, <4>2, <4>3
    <3> QED
      BY <1>1, <3>1 DEF gates
  <2>2. CASE \E p \in Publication :
               \/ \E r \in Relay : BeforeAttempt(p, r)
               \/ Close(p) \/ PacedAdmitted(p) \/ PacedRefused(p)
    BY <1>1, <2>2 DEF BeforeAttempt, Close, PacedAdmitted, PacedRefused, gates
  <2>3. CASE \/ \E o \in Operation :
                  \/ BeginOperation(o) \/ OperationReady(o) \/ LeaveQueue(o)
                  \/ AbandonOperationWaiter(o) \/ CloseOperation(o) \/ OperationExpires(o)
             \/ \E r \in Relay : AdmitAuth(r)
             \/ \E c \in Opaque :
                  \/ \E R \in SUBSET Relay \ {{}} : AdmitOpaque(c, R) \/ OpaqueRefused(R)
                  \/ OpaqueAdmitted(c) \/ OpaqueGivesUp(c)
             \/ ReportRateLimited \/ KillSwitch \/ PruneReceipts \/ UNCHANGED vars
    BY <1>1, <2>3 DEF BeginOperation, OperationReady, LeaveQueue, AbandonOperationWaiter,
                CloseOperation, OperationExpires, AdmitAuth, AdmitOpaque, OpaqueRefused,
                OpaqueAdmitted, OpaqueGivesUp, ReportRateLimited, KillSwitch, PruneReceipts,
                vars, gates
  <2>4. CASE \E p \in Publication : \E r \in Relay : Observe(p, r)
    BY <2>4
  <2> QED
    BY <1>2, <2>1, <2>2, <2>3, <2>4 DEF Next
<1>4. PICK p \in Publication, r \in Relay : Observe(p, r)
  BY <1>3
<1>5. CloseBreaker(pub[p].generation) /\ r \in flight[p]
        /\ flight' = [flight EXCEPT ![p] = @ \ {r}]
  BY <1>1, <1>4 DEF Observe
<1>6. pub[p].generation = breaker.generation
  BY <1>5, ResetGeneration
<1>7. p \in fresh
  BY <1>5, <1>6 DEF FreshInv, FreshOf
<1>8. flight'[p] # flight[p]
  BY <1>5, FreshTypes
<1> QED
  BY <1>7, <1>8

(* closeBreakerLocked never lets a late success clear a newer circuit: a   *)
(* backoff is reset only by a result of a publication that was admitted    *)
(* after the last rate limit answer.                                       *)
THEOREM BackoffIsKept == Spec => BackoffKept
<1>1. Init => FreshInv
  BY DEF Init, FreshInv, FreshOf, NoPublication
<1>2. Inv /\ FreshInv /\ [Next]_vars => FreshInv'
  BY FreshNext DEF Inv
<1>3. Inv /\ FreshInv /\ [Next]_vars
        => [(breaker.delay > 0 /\ breaker'.delay = 0)
              => \E p \in fresh : flight'[p] # flight[p]]_vars
  BY ResetIsFresh DEF Inv
<1> QED
  BY <1>1, <1>2, <1>3, Invariance, PTL DEF Spec, BackoffKept
=============================================================================
