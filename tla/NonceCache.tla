----------------------------- MODULE NonceCache -----------------------------
(***************************************************************************)
(* What the replay cache of signed requests promises, whatever the number  *)
(* of isolates, the age of their clock readings and the timing of the      *)
(* purge: a (keyid, nonce) pair is claimed by one request at a time, a     *)
(* claim ends by its expiry and by nothing else, and a keyid never has     *)
(* more than Cap unexpired claims.                                         *)
(***************************************************************************)
EXTENDS Naturals, FiniteSets

CONSTANTS Keyids, Nonces, Cap, Ttl

VARIABLES
  time,   \* seconds
  until   \* expiry of each pair's claim, 0 when it has none

cacheVars == <<time, until>>

Held(k) == {n \in Nonces : until[<<k, n>>] # 0}

CacheInit ==
  /\ time = 0
  /\ until = [x \in Keyids \X Nonces |-> 0]

ClaimNonce(k, n, e) ==
  /\ until[<<k, n>>] = 0
  /\ Cardinality(Held(k)) < Cap
  /\ e > time
  /\ e <= time + Ttl
  /\ until' = [until EXCEPT ![<<k, n>>] = e]
  /\ UNCHANGED time

Pass ==
  /\ time' = time + 1
  /\ until' = [x \in Keyids \X Nonces |-> IF until[x] > time' THEN until[x] ELSE 0]

CacheNext ==
  \/ \E k \in Keyids, n \in Nonces : \E e \in (time + 1)..(time + Ttl) : ClaimNonce(k, n, e)
  \/ Pass

CacheSpec == CacheInit /\ [][CacheNext]_cacheVars

=============================================================================
