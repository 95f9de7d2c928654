---------------------------- MODULE ReplayProofs ----------------------------
(***************************************************************************)
(* The replay store, for every number of request slots, key ids, nonces    *)
(* and every cap: its types, the per-key cap, the justification of its     *)
(* verdicts, and that it implements NonceCache.                            *)
(***************************************************************************)
EXTENDS ReplayStore, FiniteSetTheorems, TLAPS

\* A suspended request is a request.
TypeInv ==
  /\ TypeOK
  /\ \A s \in Slots : slotPc[s] # "idle" => slotReq[s] \in SignedRequest

\* Every clock reading is in the past, which is why a check made with it is
\* stricter than one made now.
PastReadings ==
  /\ sweepNow <= clock
  /\ \A s \in Slots : slotPc[s] # "idle" => slotReq[s].now <= clock

\* A row stands for a claim that was made.
RowsClaimed == \A x \in Pairs : rows[x] <= claimed[x]

\* What lets the second look answer either refusal.
Refusable(r) ==
  \/ r.nonce \in ClaimedNonces(r.keyid, r.now)
  \/ Cardinality(ClaimedNonces(r.keyid, r.now)) >= Cap

RefusalsDue == \A s \in Slots : slotPc[s] = "recheck" => Refusable(slotReq[s])

-----------------------------------------------------------------------------

LEMMA TypeInit == Init => TypeInv
BY ReplayAssumption DEF Init, TypeInv, TypeOK, SlotPcs, Verdicts

LEMMA TypeSlot ==
  ASSUME TypeInv, NEW s \in Slots, SlotStep(s)
  PROVE  TypeInv'
<1> USE DEF TypeInv, TypeOK, SlotPcs, Verdicts, Goto, Answer
<1>1. CASE \E k \in Keyids, n \in Nonces, d \in BOOLEAN : Arrive(s, k, n, d)
  <2> PICK k \in Keyids, n \in Nonces, d \in BOOLEAN : Arrive(s, k, n, d)
    BY <1>1
  <2>1. [keyid |-> k, nonce |-> n, now |-> clock, dup |-> d] \in SignedRequest
    BY DEF SignedRequest
  <2> QED
    BY <2>1 DEF Arrive
<1>2. CASE IsCapHit(s)
  BY <1>2 DEF IsCapHit
<1>3. CASE Has(s)
  BY <1>3 DEF Has
<1>4. CASE Insert(s)
  <2>1. /\ slotReq[s].keyid \in Keyids
        /\ slotReq[s].nonce \in Nonces
        /\ slotReq[s].now + Ttl \in Nat
    BY <1>4, ReplayAssumption DEF Insert, SignedRequest
  <2>2. rows' \in [Pairs -> Nat] /\ claimed' \in [Pairs -> Nat]
    BY <1>4, <2>1 DEF Insert, Pairs
  <2> QED
    BY <1>4, <2>2 DEF Insert
<1>5. CASE InsertNothing(s)
  BY <1>5 DEF InsertNothing
<1>6. CASE Recheck(s)
  BY <1>6 DEF Recheck
<1>7. CASE StoreFails(s)
  BY <1>7 DEF StoreFails
<1> QED
  BY <1>1, <1>2, <1>3, <1>4, <1>5, <1>6, <1>7 DEF SlotStep

LEMMA TypeStep == TypeInv /\ [Next]_vars => TypeInv'
<1> SUFFICES ASSUME TypeInv, [Next]_vars
             PROVE  TypeInv'
  OBVIOUS
<1> USE DEF TypeInv, TypeOK
<1>1. CASE StartSweep
  BY <1>1 DEF StartSweep
<1>2. CASE DeleteExpired
  BY <1>2 DEF DeleteExpired
<1>3. CASE Tick
  BY <1>3, ReplayAssumption DEF Tick
<1>4. CASE UNCHANGED vars
  BY <1>4 DEF vars
<1> QED
  BY <1>1, <1>2, <1>3, <1>4, TypeSlot DEF Next

\* Every variable of the replay store has its type.
THEOREM ReplayTyped == Spec => []TypeOK
<1>1. TypeInv => TypeOK
  BY DEF TypeInv
<1> QED
  BY <1>1, TypeInit, TypeStep, PTL DEF Spec

LEMMA AlwaysTyped == Spec => []TypeInv
BY TypeInit, TypeStep, PTL DEF Spec

-----------------------------------------------------------------------------

LEMMA PastInit == Init => PastReadings
BY DEF Init, PastReadings

LEMMA PastStep == TypeInv /\ PastReadings /\ [Next]_vars => PastReadings'
<1> SUFFICES ASSUME TypeInv, PastReadings, [Next]_vars
             PROVE  PastReadings'
  OBVIOUS
<1> USE DEF PastReadings, TypeInv, TypeOK, Goto, Answer
<1>1. ASSUME NEW s \in Slots, SlotStep(s)
      PROVE  PastReadings'
  <2>1. CASE \E k \in Keyids, n \in Nonces, d \in BOOLEAN : Arrive(s, k, n, d)
    BY <2>1 DEF Arrive
  <2>2. CASE IsCapHit(s) \/ Has(s) \/ Insert(s) \/ InsertNothing(s)
             \/ Recheck(s) \/ StoreFails(s)
    <3>1. UNCHANGED <<clock, sweepNow, slotReq>>
      BY <2>2 DEF IsCapHit, Has, Insert, InsertNothing, Recheck, StoreFails
    <3>2. \A q \in Slots : slotPc'[q] # "idle" => slotPc[q] # "idle"
      BY <2>2 DEF IsCapHit, Has, Insert, InsertNothing, Recheck, StoreFails
    <3> QED
      BY <3>1, <3>2
  <2> QED
    BY <1>1, <2>1, <2>2 DEF SlotStep
<1>2. CASE StartSweep
  BY <1>2 DEF StartSweep
<1>3. CASE DeleteExpired
  BY <1>3 DEF DeleteExpired
<1>4. CASE Tick
  BY <1>4 DEF Tick, SignedRequest
<1>5. CASE UNCHANGED vars
  BY <1>5 DEF vars
<1> QED
  BY <1>1, <1>2, <1>3, <1>4, <1>5 DEF Next

LEMMA AlwaysPast == Spec => []PastReadings
BY AlwaysTyped, PastInit, PastStep, PTL DEF Spec

-----------------------------------------------------------------------------
(* Counting nonces.                                                        *)

LEMMA FewerNonces ==
  ASSUME NEW S \in SUBSET Nonces, NEW T \in SUBSET S
  PROVE  /\ Cardinality(S) \in Nat
         /\ Cardinality(T) \in Nat
         /\ Cardinality(T) <= Cardinality(S)
<1>1. IsFiniteSet(S)
  BY FS_Subset, ReplayAssumption
<1>2. IsFiniteSet(T) /\ Cardinality(T) <= Cardinality(S)
  BY <1>1, FS_Subset
<1> QED
  BY <1>1, <1>2, FS_CardinalityType

LEMMA OneMoreNonce ==
  ASSUME NEW S \in SUBSET Nonces, NEW n \in Nonces, Cardinality(S) < Cap,
         NEW T \in SUBSET (S \cup {n})
  PROVE  Cardinality(T) <= Cap
<1>1. IsFiniteSet(S)
  BY FS_Subset, ReplayAssumption
<1>2. Cardinality(S) \in Nat
  BY <1>1, FS_CardinalityType
<1>3. Cardinality(S \cup {n}) \in {Cardinality(S), Cardinality(S) + 1}
  BY <1>1, FS_AddElement, Zenon
<1>4. Cardinality(T) \in Nat /\ Cardinality(T) <= Cardinality(S \cup {n})
  BY FewerNonces
<1> QED
  BY <1>2, <1>3, <1>4, ReplayAssumption

LEMMA CapInit == Init => CapKept
<1> SUFFICES ASSUME Init, NEW k \in Keyids
             PROVE  Cardinality(LiveNonces(k, clock)) <= Cap
  BY DEF CapKept
<1>1. LiveNonces(k, clock) = {}
  BY DEF Init, LiveNonces, Pairs
<1> QED
  BY <1>1, FS_EmptySet, ReplayAssumption

LEMMA CapStep == TypeInv /\ PastReadings /\ CapKept /\ [Next]_vars => CapKept'
<1> SUFFICES ASSUME TypeInv, PastReadings, CapKept, [Next]_vars, NEW k \in Keyids
             PROVE  Cardinality(LiveNonces(k, clock))' <= Cap
  BY DEF CapKept
<1> DEFINE Live == LiveNonces(k, clock)
<1>1. Cardinality(Live) <= Cap
  BY DEF CapKept
<1>2. CASE Live' \subseteq Live
  <2>1. /\ Cardinality(Live') \in Nat
        /\ Cardinality(Live) \in Nat
        /\ Cardinality(Live') <= Cardinality(Live)
    BY <1>2, FewerNonces DEF LiveNonces
  <2> QED
    BY <1>1, <2>1, ReplayAssumption
<1>3. ASSUME NEW s \in Slots, Insert(s), slotReq[s].keyid = k
      PROVE  Cardinality(Live') <= Cap
  <2> DEFINE r == slotReq[s]
  <2>1. r \in SignedRequest /\ r.now <= clock
    BY <1>3 DEF Insert, TypeInv, PastReadings
  <2>2. r.nonce \in Nonces /\ r.now \in Nat /\ clock \in Nat
    BY <2>1 DEF SignedRequest, TypeInv, TypeOK
  <2> DEFINE Known == LiveNonces(k, r.now)
  <2>3. Known \in SUBSET Nonces /\ Cardinality(Known) \in Nat
    BY FewerNonces DEF LiveNonces
  <2>4. Cardinality(Known) < Cap
    BY <1>3, <2>3, ReplayAssumption DEF Insert, CapHit
  <2>5. Live' \subseteq Known \cup {r.nonce}
    BY <1>3, <2>1, <2>2 DEF Insert, LiveNonces, TypeInv, TypeOK, Pairs
  <2> QED
    BY <2>2, <2>3, <2>4, <2>5, OneMoreNonce
<1>4. ASSUME NEW s \in Slots, SlotStep(s)
      PROVE  Live' \subseteq Live \/ (Insert(s) /\ slotReq[s].keyid = k)
  <2>1. CASE Insert(s) /\ slotReq[s].keyid # k
    BY <2>1 DEF Insert, LiveNonces, TypeInv, TypeOK, Pairs
  <2>2. CASE ~Insert(s)
    BY <1>4, <2>2 DEF SlotStep, Arrive, IsCapHit, Has, InsertNothing, Recheck,
       StoreFails, LiveNonces
  <2> QED
    BY <2>1, <2>2
<1>5. CASE StartSweep
  BY <1>2, <1>5 DEF StartSweep, LiveNonces
<1>6. CASE DeleteExpired
  <2>1. Live' \subseteq Live
    BY <1>6 DEF DeleteExpired, LiveNonces, Pairs, TypeInv, TypeOK
  <2> QED
    BY <1>2, <2>1
<1>7. CASE Tick
  <2>1. Live' \subseteq Live
    BY <1>7 DEF Tick, LiveNonces, Pairs, TypeInv, TypeOK
  <2> QED
    BY <1>2, <2>1
<1>8. CASE UNCHANGED vars
  BY <1>2, <1>8 DEF vars, LiveNonces
<1> QED
  BY <1>2, <1>3, <1>4, <1>5, <1>6, <1>7, <1>8 DEF Next

\* A key id never has more than Cap unexpired claims by the real clock,
\* whatever requests and purges overlap and however old their readings are.
THEOREM CapNeverExceeded == Spec => []CapKept
BY AlwaysTyped, AlwaysPast, CapInit, CapStep, PTL DEF Spec

-----------------------------------------------------------------------------
(* Claims only accumulate.                                                 *)

ClaimsGrow == \A x \in Pairs : claimed[x] <= claimed'[x]

LEMMA ClaimsStep == TypeInv /\ [Next]_vars => ClaimsGrow
<1> SUFFICES ASSUME TypeInv, [Next]_vars
             PROVE  ClaimsGrow
  OBVIOUS
<1>1. claimed \in [Pairs -> Nat]
  BY DEF TypeInv, TypeOK
<1>2. ASSUME NEW s \in Slots, Insert(s)
      PROVE  ClaimsGrow
  <2>1. slotReq[s].now + Ttl \in Nat
    BY <1>2, ReplayAssumption DEF Insert, TypeInv, SignedRequest
  <2> QED
    BY <1>1, <1>2, <2>1 DEF Insert, ClaimsGrow
<1>3. CASE UNCHANGED claimed
  BY <1>1, <1>3 DEF ClaimsGrow
<1> QED
  BY <1>2, <1>3 DEF Next, SlotStep, Arrive, IsCapHit, Has, InsertNothing, Recheck,
     StoreFails, StartSweep, DeleteExpired, Tick, vars

LEMMA RowsInit == Init => RowsClaimed
BY DEF Init, RowsClaimed

LEMMA RowsStep == TypeInv /\ RowsClaimed /\ [Next]_vars => RowsClaimed'
<1> SUFFICES ASSUME TypeInv, RowsClaimed, [Next]_vars
             PROVE  RowsClaimed'
  OBVIOUS
<1>1. claimed \in [Pairs -> Nat] /\ rows \in [Pairs -> Nat]
  BY DEF TypeInv, TypeOK
<1>2. ASSUME NEW s \in Slots, Insert(s)
      PROVE  RowsClaimed'
  <2>1. slotReq[s].now + Ttl \in Nat
    BY <1>2, ReplayAssumption DEF Insert, TypeInv, SignedRequest
  <2> QED
    BY <1>1, <1>2, <2>1 DEF Insert, RowsClaimed
<1>3. CASE DeleteExpired
  BY <1>1, <1>3 DEF DeleteExpired, RowsClaimed
<1>4. CASE UNCHANGED <<rows, claimed>>
  BY <1>4 DEF RowsClaimed
<1> QED
  BY <1>2, <1>3, <1>4 DEF Next, SlotStep, Arrive, IsCapHit, Has, InsertNothing,
     Recheck, StoreFails, StartSweep, Tick, vars

LEMMA AlwaysRows == Spec => []RowsClaimed
BY AlwaysTyped, RowsInit, RowsStep, PTL DEF Spec

\* A refusal that is due stays due.
LEMMA RefusalStable ==
  ASSUME TypeInv, TypeInv', ClaimsGrow, NEW r \in SignedRequest, Refusable(r)
  PROVE  Refusable(r)'
<1>1. /\ r.keyid \in Keyids
      /\ r.nonce \in Nonces
      /\ r.now \in Nat
  BY DEF SignedRequest
<1> DEFINE Before == ClaimedNonces(r.keyid, r.now)
           After == {n \in Nonces : claimed'[<<r.keyid, n>>] > r.now}
<1>2. Before \subseteq After
  BY <1>1 DEF ClaimedNonces, ClaimsGrow, TypeInv, TypeOK, Pairs
<1>3. /\ Cardinality(Before) \in Nat
      /\ Cardinality(After) \in Nat
      /\ Cardinality(Before) <= Cardinality(After)
  BY <1>2, FewerNonces
<1> QED
  BY <1>2, <1>3, ReplayAssumption DEF Refusable, ClaimedNonces

\* What the store shows a request is a reason to refuse it.
LEMMA RefusalFound ==
  ASSUME TypeInv, RowsClaimed, NEW r \in SignedRequest,
         CapHit(r.keyid, r.now) \/ Seen(r)
  PROVE  Refusable(r)
<1>1. /\ r.keyid \in Keyids
      /\ r.nonce \in Nonces
      /\ r.now \in Nat
  BY DEF SignedRequest
<1>2. LiveNonces(r.keyid, r.now) \subseteq ClaimedNonces(r.keyid, r.now)
  BY <1>1 DEF LiveNonces, ClaimedNonces, RowsClaimed, TypeInv, TypeOK, Pairs
<1>3. /\ Cardinality(ClaimedNonces(r.keyid, r.now)) \in Nat
      /\ Cardinality(LiveNonces(r.keyid, r.now)) \in Nat
      /\ Cardinality(LiveNonces(r.keyid, r.now))
           <= Cardinality(ClaimedNonces(r.keyid, r.now))
  BY <1>2, FewerNonces DEF ClaimedNonces
<1>4. CASE CapHit(r.keyid, r.now)
  BY <1>3, <1>4, ReplayAssumption DEF CapHit, Refusable
<1>5. CASE Seen(r)
  BY <1>1, <1>2, <1>5 DEF Seen, LiveNonces, Refusable
<1> QED
  BY <1>4, <1>5

\* The verdict a slot shows fits the claims made.
Justified(s) ==
  slotPc[s] = "idle" =>
    /\ verdict[s] \in {"replayed", "verified", "malformed"} =>
         slotReq[s].nonce \in ClaimedNonces(slotReq[s].keyid, slotReq[s].now)
    /\ verdict[s] = "rate_abuse" => Refusable(slotReq[s])

\* Only a request has been answered.
Answered == \A s \in Slots : verdict[s] # "none" => slotReq[s] \in SignedRequest

JustInv == /\ Answered
           /\ RefusalsDue
           /\ \A s \in Slots : Justified(s)

LEMMA JustInit == Init => JustInv
BY DEF Init, JustInv, Answered, RefusalsDue, Justified

\* A slot that does not move keeps what it had.
LEMMA JustFrame ==
  ASSUME TypeInv, TypeInv', JustInv, ClaimsGrow, NEW s \in Slots,
         slotPc'[s] = slotPc[s], slotReq'[s] = slotReq[s], verdict'[s] = verdict[s]
  PROVE  /\ verdict'[s] # "none" => slotReq'[s] \in SignedRequest
         /\ slotPc'[s] = "recheck" => Refusable(slotReq[s])'
         /\ Justified(s)'
<1>1. CASE slotReq[s] \in SignedRequest
  <2> PICK r \in SignedRequest : r = slotReq[s]
    BY <1>1
  <2>1. Refusable(r) => Refusable(r)'
    BY RefusalStable
  <2>2. r.nonce \in ClaimedNonces(r.keyid, r.now)
        => (r.nonce \in ClaimedNonces(r.keyid, r.now))'
    BY DEF ClaimedNonces, ClaimsGrow, TypeInv, TypeOK, Pairs, SignedRequest
  <2> QED
    BY <2>1, <2>2 DEF JustInv, Answered, RefusalsDue, Justified, Refusable,
       ClaimedNonces
<1>2. CASE slotReq[s] \notin SignedRequest
  BY <1>2 DEF JustInv, Answered, Justified, TypeInv
<1> QED
  BY <1>1, <1>2

\* The slot that moves.
LEMMA JustOwn ==
  ASSUME TypeInv, TypeInv', RowsClaimed, JustInv, ClaimsGrow,
         NEW s \in Slots, SlotStep(s)
  PROVE  /\ verdict'[s] # "none" => slotReq'[s] \in SignedRequest
         /\ slotPc'[s] = "recheck" => Refusable(slotReq[s])'
         /\ Justified(s)'
<1> USE DEF TypeInv, TypeOK, Goto, Answer
<1>1. CASE \E k \in Keyids, n \in Nonces, d \in BOOLEAN : Arrive(s, k, n, d)
  <2> PICK k \in Keyids, n \in Nonces, d \in BOOLEAN : Arrive(s, k, n, d)
    BY <1>1
  <2>1. [keyid |-> k, nonce |-> n, now |-> clock, dup |-> d] \in SignedRequest
    BY DEF SignedRequest
  <2> QED
    BY <2>1 DEF Arrive, Justified
<1>2. CASE IsCapHit(s) \/ Has(s) \/ InsertNothing(s) \/ Recheck(s) \/ StoreFails(s)
  <2>1. slotReq[s] \in SignedRequest /\ slotReq' = slotReq /\ claimed' = claimed
    BY <1>2 DEF IsCapHit, Has, InsertNothing, Recheck, StoreFails
  <2> PICK r \in SignedRequest : r = slotReq[s]
    BY <2>1
  <2>2. /\ r.keyid \in Keyids
        /\ r.nonce \in Nonces
        /\ r.now \in Nat
    BY DEF SignedRequest
  <2>3. CapHit(r.keyid, r.now) \/ Seen(r) => Refusable(r)
    BY RefusalFound
  <2>4. Seen(r) => r.nonce \in ClaimedNonces(r.keyid, r.now)
    BY <2>2 DEF Seen, ClaimedNonces, RowsClaimed, Pairs
  <2>5. slotPc[s] = "recheck" => Refusable(r)
    BY DEF JustInv, RefusalsDue
  <2>6. /\ slotPc'[s] = "recheck" => Refusable(r)
        /\ slotPc'[s] = "idle" /\ verdict'[s] = "rate_abuse" => Refusable(r)
        /\ slotPc'[s] = "idle" /\ verdict'[s] \in {"replayed", "verified", "malformed"}
             => r.nonce \in ClaimedNonces(r.keyid, r.now)
    BY <1>2, <2>3, <2>4, <2>5
    DEF IsCapHit, Has, InsertNothing, Recheck, StoreFails, SlotPcs
  <2> QED
    BY <2>1, <2>6 DEF Justified, Refusable, ClaimedNonces
<1>3. CASE Insert(s)
  <2> PICK r \in SignedRequest : r = slotReq[s]
    BY <1>3 DEF Insert
  <2>1. /\ r.keyid \in Keyids
        /\ r.nonce \in Nonces
        /\ r.now \in Nat
        /\ r.now + Ttl \in Nat
        /\ r.now + Ttl > r.now
    BY ReplayAssumption DEF SignedRequest
  <2>2. claimed'[<<r.keyid, r.nonce>>] > r.now
    BY <1>3, <2>1 DEF Insert, Pairs
  <2>3. slotReq' = slotReq /\ slotPc'[s] = "idle" /\ verdict'[s] # "rate_abuse"
    BY <1>3 DEF Insert
  <2> QED
    BY <2>1, <2>2, <2>3 DEF Justified, ClaimedNonces
<1> QED
  BY <1>1, <1>2, <1>3 DEF SlotStep

LEMMA JustStep ==
  TypeInv /\ TypeInv' /\ RowsClaimed /\ JustInv /\ [Next]_vars => JustInv'
<1> SUFFICES ASSUME TypeInv, TypeInv', RowsClaimed, JustInv, [Next]_vars
             PROVE  JustInv'
  OBVIOUS
<1>1. ClaimsGrow
  BY ClaimsStep
<1>2. ASSUME NEW q \in Slots
      PROVE  /\ verdict'[q] # "none" => slotReq'[q] \in SignedRequest
             /\ slotPc'[q] = "recheck" => Refusable(slotReq[q])'
             /\ Justified(q)'
  <2>1. CASE SlotStep(q)
    BY <1>1, <2>1, JustOwn
  <2>2. CASE ~SlotStep(q)
    <3>1. /\ slotPc'[q] = slotPc[q]
          /\ slotReq'[q] = slotReq[q]
          /\ verdict'[q] = verdict[q]
      <4>1. CASE \E s \in Slots : SlotStep(s)
        <5> PICK s \in Slots : SlotStep(s)
          BY <4>1
        <5>1. s # q
          BY <2>2
        <5> QED
          BY <5>1 DEF TypeInv, TypeOK, SlotStep, Arrive, IsCapHit, Has, Insert,
             InsertNothing, Recheck, StoreFails, Goto, Answer
      <4>2. CASE UNCHANGED <<slotPc, slotReq, verdict>>
        BY <4>2
      <4> QED
        BY <4>1, <4>2 DEF Next, StartSweep, DeleteExpired, Tick, vars
    <3> QED
      BY <1>1, <3>1, JustFrame
  <2> QED
    BY <2>1, <2>2
<1> QED
  BY <1>2 DEF JustInv, Answered, RefusalsDue

\* Every refusal and every acceptance is backed by claims really made,
\* although a request decides from several reads of a table that others
\* write and purge in between.
THEOREM VerdictsBacked == Spec => []VerdictsJustified
<1>1. JustInv => VerdictsJustified
  BY DEF JustInv, Justified, Refusable, VerdictsJustified
<1> QED
  BY <1>1, AlwaysTyped, AlwaysRows, JustInit, JustStep, PTL DEF Spec

-----------------------------------------------------------------------------
(* The refinement.                                                         *)

LEMMA SameCount ==
  ASSUME NEW S
  PROVE  Cache!Cardinality(S) = Cardinality(S)
BY DEF Cache!Cardinality, Cardinality

LEMMA CacheStarts == Init => Cache!CacheInit
BY DEF Init, Cache!CacheInit, Pairs

\* An insert is a claim, or, when the request is so slow that what it
\* inserts has expired already, nothing.
LEMMA InsertClaims ==
  ASSUME TypeInv, PastReadings, NEW s \in Slots, Insert(s)
  PROVE  [Cache!CacheNext]_(Cache!cacheVars)
<1> DEFINE r == slotReq[s]
           e == r.now + Ttl
           Until == [x \in Pairs |-> IF rows[x] > clock THEN rows[x] ELSE 0]
           UntilNext == [x \in Pairs |-> IF rows'[x] > clock' THEN rows'[x] ELSE 0]
<1>1. /\ r.keyid \in Keyids
      /\ r.nonce \in Nonces
      /\ r.now \in Nat
      /\ r.now <= clock
      /\ clock \in Nat
      /\ Ttl \in Nat
      /\ rows \in [Pairs -> Nat]
  BY ReplayAssumption DEF Insert, TypeInv, TypeOK, PastReadings, SignedRequest
<1> DEFINE pair == <<r.keyid, r.nonce>>
<1>2. pair \in Pairs /\ rows[pair] <= clock /\ e \in Nat
  BY <1>1 DEF Insert, Seen, Pairs
<1>3. rows' = [rows EXCEPT ![pair] = e] /\ clock' = clock
  BY DEF Insert
<1>4. CASE e <= clock
  <2>1. UntilNext = Until
    BY <1>1, <1>2, <1>3, <1>4
  <2> QED
    BY <1>3, <2>1 DEF Cache!cacheVars
<1>5. CASE e > clock
  <2>1. Until[pair] = 0
    BY <1>1, <1>2
  <2>2. UntilNext = [Until EXCEPT ![pair] = e]
    BY <1>1, <1>2, <1>3, <1>5
  <2>3. e \in (clock + 1)..(clock + Ttl)
    BY <1>1, <1>2, <1>5
  <2> DEFINE Before == {n \in Nonces : Until[<<r.keyid, n>>] # 0}
  <2>4. Before \in SUBSET LiveNonces(r.keyid, r.now)
    BY <1>1 DEF LiveNonces, Pairs
  <2>5. /\ Cardinality(Before) \in Nat
        /\ Cardinality(LiveNonces(r.keyid, r.now)) \in Nat
        /\ Cardinality(Before) <= Cardinality(LiveNonces(r.keyid, r.now))
    BY <2>4, FewerNonces DEF LiveNonces
  <2>6. Cardinality(Before) < Cap
    BY <2>5, ReplayAssumption DEF Insert, CapHit
  <2>7. Cache!ClaimNonce(r.keyid, r.nonce, e)
    BY <1>1, <1>2, <1>3, <1>5, <2>1, <2>2, <2>3, <2>6, SameCount
    DEF Cache!ClaimNonce, Cache!Held
  <2>8. \E k \in Keyids, n \in Nonces : \E x \in (clock + 1)..(clock + Ttl) :
          Cache!ClaimNonce(k, n, x)
    BY <1>1, <2>3, <2>7 DEF Cache!ClaimNonce, Cache!Held
  <2> QED
    BY <2>8 DEF Cache!CacheNext
<1> QED
  BY <1>1, <1>2, <1>4, <1>5

LEMMA CacheSteps ==
  TypeInv /\ PastReadings /\ [Next]_vars => [Cache!CacheNext]_(Cache!cacheVars)
<1> SUFFICES ASSUME TypeInv, PastReadings, [Next]_vars
             PROVE  [Cache!CacheNext]_(Cache!cacheVars)
  OBVIOUS
<1> DEFINE Until == [x \in Pairs |-> IF rows[x] > clock THEN rows[x] ELSE 0]
           UntilNext == [x \in Pairs |-> IF rows'[x] > clock' THEN rows'[x] ELSE 0]
<1>1. /\ clock \in Nat
      /\ sweepNow \in Nat
      /\ rows \in [Pairs -> Nat]
  BY ReplayAssumption DEF TypeInv, TypeOK
<1>2. CASE \E s \in Slots : Insert(s)
  BY <1>2, InsertClaims
<1>3. CASE DeleteExpired
  <2>1. UntilNext = Until
    BY <1>1, <1>3 DEF DeleteExpired, PastReadings
  <2> QED
    BY <1>3, <2>1 DEF DeleteExpired, Cache!cacheVars
<1>4. CASE Tick
  <2>1. UntilNext = [x \in Pairs |-> IF Until[x] > clock' THEN Until[x] ELSE 0]
    BY <1>1, <1>4 DEF Tick
  <2>2. Cache!Pass
    BY <1>4, <2>1 DEF Tick, Cache!Pass, Pairs
  <2> QED
    BY <2>2 DEF Cache!CacheNext
<1>5. CASE UNCHANGED <<clock, rows>>
  BY <1>5 DEF Cache!cacheVars
<1> QED
  BY <1>2, <1>3, <1>4, <1>5 DEF Next, SlotStep, Arrive, IsCapHit, Has,
     InsertNothing, Recheck, StoreFails, StartSweep, vars

\* The D1 store is the cache of NonceCache: a nonce has one claim at a time
\* and the claim lasts until its expiry, on all interleavings.
THEOREM StoreKeepsPromise == Spec => KeepsPromise
BY AlwaysTyped, AlwaysPast, CacheStarts, CacheSteps, PTL
DEF Spec, KeepsPromise, Cache!CacheSpec

=============================================================================
