---------------------------- MODULE ReplayStore ----------------------------
(***************************************************************************)
(* D1ReplayStore, as the signature verifier uses it: concurrent signed     *)
(* requests of any isolate, each with one reading of the clock taken when  *)
(* its verification starts, and the purge of expired rows.  Each action is *)
(* one SQL statement; the insert is a single atomic one.                   *)
(***************************************************************************)
EXTENDS Naturals, FiniteSets

CONSTANTS
  Slots,     \* request slots: signed requests in flight at once
  Keyids,    \* key ids the resolver knows
  Nonces,    \* nonces
  Cap,       \* REPLAY_CAP_PER_KEYID (100 in the code)
  Ttl,       \* ttlSeconds, chosen by the SDK (at least 360)
  MaxClock,  \* bound: the last second
  None       \* no request yet

SignedRequest == [keyid : Keyids, nonce : Nonces, now : Nat, dup : BOOLEAN]

ASSUME ReplayAssumption ==
  /\ Cap \in Nat
  /\ Ttl \in Nat \ {0}
  /\ MaxClock \in Nat
  /\ IsFiniteSet(Nonces)
  /\ None \notin SignedRequest

VARIABLES
  clock,     \* unix seconds
  rows,      \* request_signing_replay: expires_at by (keyid, nonce), 0 if no row
  slotPc,    \* where each request is suspended
  slotReq,   \* its key id, nonce, clock reading, and whether its body repeats a key
  verdict,   \* what the slot's last request was answered
  sweepPc,   \* the purge's step over this table
  sweepNow,  \* and its clock reading
  \* History, read by properties only:
  claimed    \* the latest expiry any request has claimed each pair with

vars == <<clock, rows, slotPc, slotReq, verdict, sweepPc, sweepNow, claimed>>

Pairs == Keyids \X Nonces

SlotPcs == {"idle", "cap", "has", "insert", "recheck"}

Verdicts == {"none", "verified", "malformed", "replayed", "rate_abuse",
             "invalid", "unavailable"}

TypeOK ==
  /\ clock \in 0..MaxClock
  /\ rows \in [Pairs -> Nat]
  /\ slotPc \in [Slots -> SlotPcs]
  /\ slotReq \in [Slots -> SignedRequest \cup {None}]
  /\ verdict \in [Slots -> Verdicts]
  /\ sweepPc \in {"idle", "delete"}
  /\ sweepNow \in Nat
  /\ claimed \in [Pairs -> Nat]

Init ==
  /\ clock = 0
  /\ rows = [x \in Pairs |-> 0]
  /\ slotPc = [s \in Slots |-> "idle"]
  /\ slotReq = [s \in Slots |-> None]
  /\ verdict = [s \in Slots |-> "none"]
  /\ sweepPc = "idle"
  /\ sweepNow = 0
  /\ claimed = [x \in Pairs |-> 0]

-----------------------------------------------------------------------------

\* The rows of a key id that a reader whose clock says t takes for live.
LiveNonces(k, t) == {n \in Nonces : rows[<<k, n>>] > t}

\* Faulty: one claim over the cap.
CapPassed(k, t) == Cardinality(LiveNonces(k, t)) > Cap

CapHit(k, t) == Cardinality(LiveNonces(k, t)) >= Cap

\* Faulty: a row counts as live in the second it expires.
SeenInclusive(r) == rows[<<r.keyid, r.nonce>>] >= r.now

Seen(r) == rows[<<r.keyid, r.nonce>>] > r.now

Goto(s, pc) == slotPc' = [slotPc EXCEPT ![s] = pc]

Answer(s, v) ==
  /\ Goto(s, "idle")
  /\ verdict' = [verdict EXCEPT ![s] = v]

\* A request that carries a signature and passes the checks before step 9a.
Arrive(s, k, n, d) ==
  /\ slotPc[s] = "idle"
  /\ slotReq' = [slotReq EXCEPT ![s] = [keyid |-> k, nonce |-> n,
                                        now |-> clock, dup |-> d]]
  /\ Goto(s, "cap")
  /\ UNCHANGED <<clock, rows, verdict, sweepPc, sweepNow, claimed>>

\* isCapHit, step 9a.
IsCapHit(s) ==
  /\ slotPc[s] = "cap"
  /\ \/ /\ CapHit(slotReq[s].keyid, slotReq[s].now)
        /\ Answer(s, "rate_abuse")
     \/ /\ ~CapHit(slotReq[s].keyid, slotReq[s].now)
        /\ Goto(s, "has")
        /\ UNCHANGED verdict
  /\ UNCHANGED <<clock, rows, slotReq, sweepPc, sweepNow, claimed>>

\* has, step 12, and then the signature and digest checks, steps 10 and 11.
Has(s) ==
  /\ slotPc[s] = "has"
  /\ \/ /\ Seen(slotReq[s])
        /\ Answer(s, "replayed")
     \/ /\ ~Seen(slotReq[s])
        /\ Answer(s, "invalid")
     \/ /\ ~Seen(slotReq[s])
        /\ Goto(s, "insert")
        /\ UNCHANGED verdict
  /\ UNCHANGED <<clock, rows, slotReq, sweepPc, sweepNow, claimed>>

\* insert, step 13: under the cap, a new row or the overwriting of an
\* expired one.  The nonce is spent before the body is looked at for
\* repeated keys.
Insert(s) ==
  LET r == slotReq[s]
      pair == <<r.keyid, r.nonce>>
  IN /\ slotPc[s] = "insert"
     /\ ~CapHit(r.keyid, r.now)
     /\ ~Seen(r)
     /\ rows' = [rows EXCEPT ![pair] = r.now + Ttl]
     /\ claimed' = [claimed EXCEPT ![pair] = IF @ > r.now + Ttl THEN @ ELSE r.now + Ttl]
     /\ Answer(s, IF r.dup THEN "malformed" ELSE "verified")
     /\ UNCHANGED <<clock, slotReq, sweepPc, sweepNow>>

\* No row changed: over the cap, or somebody else claimed the nonce first.
InsertNothing(s) ==
  /\ slotPc[s] = "insert"
  /\ CapHit(slotReq[s].keyid, slotReq[s].now) \/ Seen(slotReq[s])
  /\ Goto(s, "recheck")
  /\ UNCHANGED <<clock, rows, slotReq, verdict, sweepPc, sweepNow, claimed>>

\* Faulty: the insert's own result is passed on.
RecheckPassesOn(s) ==
  /\ slotPc[s] = "recheck"
  /\ Answer(s, IF Seen(slotReq[s]) THEN "replayed" ELSE "ok")
  /\ UNCHANGED <<clock, rows, slotReq, sweepPc, sweepNow, claimed>>

Recheck(s) ==
  /\ slotPc[s] = "recheck"
  /\ Answer(s, IF Seen(slotReq[s]) THEN "replayed" ELSE "rate_abuse")
  /\ UNCHANGED <<clock, rows, slotReq, sweepPc, sweepNow, claimed>>

\* Any D1 error propagates and the handler answers 503.
StoreFails(s) ==
  /\ slotPc[s] # "idle"
  /\ Answer(s, "unavailable")
  /\ UNCHANGED <<clock, rows, slotReq, sweepPc, sweepNow, claimed>>

\* runScheduledPurge reads its clock once, before its first step; the other
\* tables come first.
StartSweep ==
  /\ sweepPc = "idle"
  /\ sweepPc' = "delete"
  /\ sweepNow' = clock
  /\ UNCHANGED <<clock, rows, slotPc, slotReq, verdict, claimed>>

\* Faulty: rows are deleted in the second before they expire.
DeleteExpiring ==
  /\ sweepPc = "delete"
  /\ rows' = [x \in Pairs |-> IF rows[x] <= sweepNow + 1 THEN 0 ELSE rows[x]]
  /\ sweepPc' = "idle"
  /\ UNCHANGED <<clock, slotPc, slotReq, verdict, sweepNow, claimed>>

DeleteExpired ==
  /\ sweepPc = "delete"
  /\ rows' = [x \in Pairs |-> IF rows[x] <= sweepNow THEN 0 ELSE rows[x]]
  /\ sweepPc' = "idle"
  /\ UNCHANGED <<clock, slotPc, slotReq, verdict, sweepNow, claimed>>

Tick ==
  /\ clock < MaxClock
  /\ clock' = clock + 1
  /\ UNCHANGED <<rows, slotPc, slotReq, verdict, sweepPc, sweepNow, claimed>>

SlotStep(s) ==
  \/ \E k \in Keyids, n \in Nonces, d \in BOOLEAN : Arrive(s, k, n, d)
  \/ IsCapHit(s)
  \/ Has(s)
  \/ Insert(s)
  \/ InsertNothing(s)
  \/ Recheck(s)
  \/ StoreFails(s)

Next ==
  \/ \E s \in Slots : SlotStep(s)
  \/ StartSweep
  \/ DeleteExpired
  \/ Tick

Spec == Init /\ [][Next]_vars

-----------------------------------------------------------------------------

\* The per-key cap holds by the real clock, although every check of it uses
\* an older reading and the first check is not in the inserting statement.
CapKept == \A k \in Keyids : Cardinality(LiveNonces(k, clock)) <= Cap

\* The nonces of a key id some request has claimed beyond second t.
ClaimedNonces(k, t) == {n \in Nonces : claimed[<<k, n>>] > t}

\* A verdict is justified by claims really made: a request is refused as a
\* replay only if its nonce was claimed beyond its own clock reading, for the
\* rate only if its key id had that many claims or its nonce was one of
\* them (the purge can hide from the second look which of the two it was),
\* and an accepted request has claimed its nonce.
VerdictsJustified ==
  \A s \in Slots :
    LET r == slotReq[s]
        own == r.nonce \in ClaimedNonces(r.keyid, r.now)
    IN slotPc[s] = "idle" =>
         /\ verdict[s] \in {"replayed", "verified", "malformed"} => own
         /\ verdict[s] = "rate_abuse" =>
              own \/ Cardinality(ClaimedNonces(r.keyid, r.now)) >= Cap

\* The store keeps the promise of NonceCache: a row stands for a claim as
\* long as the real clock has not reached its expiry.
Cache == INSTANCE NonceCache WITH
  time <- clock,
  until <- [x \in Pairs |-> IF rows[x] > clock THEN rows[x] ELSE 0]

KeepsPromise == Cache!CacheSpec

=============================================================================
