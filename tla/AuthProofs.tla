----------------------------- MODULE AuthProofs -----------------------------
(***************************************************************************)
(* For any operators, requests and lifetimes: the types; a state lets one  *)
(* callback through; tokens stay with their operator; and the three keys   *)
(* of an operator whose requests do not overlap agree.                     *)
(***************************************************************************)
EXTENDS LinkedInAuth, TLAPS

LEMMA Numbers ==
  ASSUME AuthTypeOK
  PROVE  /\ day \in Nat /\ minted \in Nat /\ MaxTokens \in Nat /\ MaxDay \in Nat
         /\ day + Life \in Nat /\ day + StateTtl \in Nat
         /\ \A k \in Keys : Lapses(k) \in Nat
<1>1. /\ day \in Nat /\ minted \in Nat /\ MaxTokens \in Nat /\ MaxDay \in Nat
      /\ Life \in Nat /\ StateTtl \in Nat /\ AccessTtl \in Nat /\ RefreshTtl \in Nat
  BY AuthAssumption DEF AuthTypeOK
<1>2. \A k \in Keys : Lapses(k) \in Nat
  BY <1>1 DEF Lapses, Earlier, Keys
<1> QED
  BY <1>1, <1>2

\* A request knows its state, and then its operator.
Placed ==
  {r \in Client : /\ r.step = "consume" => r.state \in StateIds
                  /\ r.step \in {"exchange", "read", "refresh", "store"} => r.op \in Operators}

AuthShape == AuthTypeOK /\ client \in [Clients -> Placed]

LEMMA DonePlaced == \A answer \in Answers : Done(answer) \in Placed
BY DEF Done, Client, Placed, Steps, Nothing, Keys

LEMMA AuthShapeInit == AuthInit => AuthShape
<1> SUFFICES ASSUME AuthInit PROVE AuthShape
  OBVIOUS
<1>1. client \in [Clients -> Placed] /\ client \in [Clients -> Client]
  BY DonePlaced DEF AuthInit, Answers, Placed
<1>2. /\ states \in [StateIds -> Row]
      /\ kv \in [Operators -> [Keys -> Entry]]
  BY DEF AuthInit, NoRow, Row, NoEntry, Entry
<1> QED
  BY <1>1, <1>2, AuthAssumption DEF AuthInit, AuthTypeOK, AuthShape

\* What a step of request c leaves of it, and of the others.
ClientMoves(c) ==
  /\ client' \in [Clients -> Placed]
  /\ \A d \in Clients \ {c} : client'[d] = client[d]

LEMMA BecomeMoves ==
  ASSUME AuthShape, NEW c \in Clients, NEW r \in Placed, client' = [client EXCEPT ![c] = r]
  PROVE  ClientMoves(c) /\ client'[c] = r
BY DEF AuthShape, ClientMoves

LEMMA ReplyMoves ==
  ASSUME AuthShape, NEW c \in Clients, NEW answer \in Answers, Reply(c, answer)
  PROVE  ClientMoves(c) /\ client'[c] = Done(answer)
BY DonePlaced, BecomeMoves DEF Reply, Become

LEMMA CallbackMoves ==
  ASSUME AuthShape, NEW c \in Clients, NEW s \in StateIds, StartCallback(c, s)
  PROVE  ClientMoves(c) /\ client'[c] = [Done("other") EXCEPT !.step = "consume", !.state = s]
<1>1. [Done("other") EXCEPT !.step = "consume", !.state = s] \in Placed
  BY DEF Done, Client, Placed, Steps, Answers, Nothing, Keys
<1> QED
  BY <1>1, BecomeMoves DEF StartCallback, Become

LEMMA ConsumeMoves ==
  ASSUME AuthShape, NEW c \in Clients, ConsumeState(c)
  PROVE  /\ ClientMoves(c)
         /\ client[c].state \in StateIds
         /\ states[client[c].state].op \in Operators
         /\ \/ client'[c] = Done("other")
            \/ client'[c] = [Done("other") EXCEPT !.step = "exchange",
                                                  !.op = states[client[c].state].op]
         /\ client'[c].step \in {"idle", "exchange"} /\ client'[c].got = Nothing
<1> DEFINE s == client[c].state
           r == [Done("other") EXCEPT !.step = "exchange", !.op = states[s].op]
<1>1. s \in StateIds /\ states[s].op \in Operators
  BY DEF ConsumeState, AtStep, Valid, AuthShape, AuthTypeOK, Placed, Row
<1>2. r \in Placed
  BY <1>1 DEF Done, Client, Placed, Steps, Answers, Nothing, Keys
<1>3. CASE Become(c, r)
  <2>1. ClientMoves(c) /\ client'[c] = r
    BY <1>2, <1>3, BecomeMoves DEF Become
  <2>2. \A p : LET q == [Done("other") EXCEPT !.step = "exchange", !.op = p]
              IN q.step = "exchange" /\ q.got = Nothing
    BY DEF Done
  <2>3. client'[c].step = "exchange" /\ client'[c].got = Nothing
    BY <2>1, <2>2
  <2> QED
    BY <1>1, <2>1, <2>3
<1>4. CASE Reply(c, "other")
  <2>1. ClientMoves(c) /\ client'[c] = Done("other")
    BY <1>4, ReplyMoves DEF Answers
  <2> QED
    BY <1>1, <2>1 DEF Done
<1> QED
  BY <1>3, <1>4 DEF ConsumeState

LEMMA TokenMoves ==
  ASSUME AuthShape, NEW c \in Clients, NEW o \in Operators, StartToken(c, o)
  PROVE  ClientMoves(c) /\ client'[c] = [Done("other") EXCEPT !.step = "read", !.op = o, !.due = Keys]
<1>1. [Done("other") EXCEPT !.step = "read", !.op = o, !.due = Keys] \in Placed
  BY DEF Done, Client, Placed, Steps, Answers, Nothing, Keys
<1> QED
  BY <1>1, BecomeMoves DEF StartToken, Become

LEMMA ReadMoves ==
  ASSUME AuthShape, NEW c \in Clients, NEW k \in Keys, ReadKey(c, k)
  PROVE  /\ ClientMoves(c) /\ client[c].op \in Operators /\ Stored(client[c].op, k) \in Nat
         /\ client'[c] = [client[c] EXCEPT !.due = @ \ {k},
                                           !.got = [@ EXCEPT ![k] = Stored(client[c].op, k)]]
<1> DEFINE v == Stored(client[c].op, k)
           r == [client[c] EXCEPT !.due = @ \ {k}, !.got = [@ EXCEPT ![k] = v]]
<1>1. client[c] \in Placed /\ client[c] \in Client /\ client[c].op \in Operators
  BY DEF ReadKey, AtStep, AuthShape, Placed
<1>2. v \in Nat
  BY <1>1 DEF Stored, AuthShape, AuthTypeOK, Entry
<1>3. r \in Placed
  BY <1>1, <1>2 DEF Client, Placed
<1>4. client' = [client EXCEPT ![c] = r]
  BY DEF ReadKey
<1> QED
  BY <1>1, <1>2, <1>3, <1>4, BecomeMoves

LEMMA DecideMoves ==
  ASSUME AuthShape, NEW c \in Clients, Decide(c)
  PROVE  /\ ClientMoves(c) /\ client[c].op \in Operators
         /\ \/ \E answer \in Answers : client'[c] = Done(answer)
            \/ client'[c] = [client[c] EXCEPT !.step = "refresh"]
<1>1. client[c] \in Placed /\ client[c] \in Client /\ client[c].op \in Operators
  BY DEF Decide, AtStep, AuthShape, Placed
<1>2. [client[c] EXCEPT !.step = "refresh"] \in Placed
  BY <1>1 DEF Client, Placed, Steps
<1>3. \/ client' = [client EXCEPT ![c] = [client[c] EXCEPT !.step = "refresh"]]
      \/ \E answer \in Answers : Reply(c, answer)
  BY DEF Decide, Answers
<1> QED
  BY <1>1, <1>2, <1>3, BecomeMoves, ReplyMoves

LEMMA StoreMoves ==
  ASSUME AuthShape, NEW c \in Clients, NEW a \in Nat, NEW b \in Nat, ToStore(c, a, b),
         client[c].op \in Operators
  PROVE  /\ ClientMoves(c)
         /\ client'[c].step = "store" /\ client'[c].op = client[c].op
         /\ client'[c].due = Keys
         /\ client'[c].got["access"] = a /\ client'[c].got["refresh"] = b
         /\ client'[c].got["expires"] = day + Life
<1> DEFINE g == [k \in Keys |-> CASE k = "access" -> a
                                  [] k = "refresh" -> b
                                  [] k = "expires" -> day + Life]
           r == [client[c] EXCEPT !.step = "store", !.due = Keys, !.got = g]
<1>1. client[c] \in Client /\ g \in [Keys -> Nat]
  BY Numbers DEF AuthShape, AuthTypeOK, Keys
<1>2. r \in Placed
  BY <1>1 DEF Client, Placed, Steps
<1>3. client' = [client EXCEPT ![c] = r]
  BY DEF ToStore
<1>4. /\ r.step = "store" /\ r.op = client[c].op /\ r.due = Keys /\ r.got = g
      /\ g["access"] = a /\ g["refresh"] = b /\ g["expires"] = day + Life
  BY <1>1 DEF Client, Keys
<1> QED
  BY <1>2, <1>3, <1>4, BecomeMoves

LEMMA PutMoves ==
  ASSUME AuthShape, NEW c \in Clients, NEW k \in Keys, PutKey(c, k)
  PROVE  /\ ClientMoves(c) /\ client[c].op \in Operators /\ client[c].got[k] \in Nat
         /\ client'[c] = [client[c] EXCEPT !.due = @ \ {k}]
<1>1. client[c] \in Placed /\ client[c] \in Client /\ client[c].op \in Operators
      /\ client[c].got[k] \in Nat
  BY DEF PutKey, AtStep, AuthShape, Placed, Client
<1>2. [client[c] EXCEPT !.due = @ \ {k}] \in Placed
  BY <1>1 DEF Client, Placed
<1>3. client' = [client EXCEPT ![c] = [client[c] EXCEPT !.due = @ \ {k}]]
  BY DEF PutKey
<1> QED
  BY <1>1, <1>2, <1>3, BecomeMoves

\* The steps after which a request is over.
Over(c) ==
  \/ RejectState(c) \/ ExchangeFails(c) \/ RefreshRefused(c)
  \/ RefreshLost(c) \/ StoreDone(c) \/ StoreFails(c)

LEMMA OverMoves ==
  ASSUME AuthShape, NEW c \in Clients, Over(c)
  PROVE  ClientMoves(c) /\ client'[c] = Done("other")
BY ReplyMoves DEF Over, RejectState, ExchangeFails, RefreshRefused, RefreshLost,
   StoreDone, StoreFails, Answers

\* An exchange or a refresh mints a pair and sets out to store it.
Minting(c) == ExchangeCode(c) \/ Refresh(c)

LEMMA MintMoves ==
  ASSUME AuthShape, NEW c \in Clients, Minting(c)
  PROVE  /\ ClientMoves(c) /\ client[c].op \in Operators
         /\ minted + 1 \in Tokens /\ Mint(minted + 1, client[c].op)
         /\ client'[c].step = "store" /\ client'[c].op = client[c].op
         /\ client'[c].due = Keys
         /\ client'[c].got["access"] = minted + 1
         /\ client'[c].got["refresh"] \in {minted + 1, 0, client[c].got["refresh"]}
         /\ client'[c].got["expires"] = day + Life
<1>1. client[c] \in Client /\ client[c].op \in Operators /\ minted + 1 \in Tokens
      /\ Mint(minted + 1, client[c].op) /\ minted + 1 \in Nat
  BY Numbers DEF Minting, ExchangeCode, Refresh, Mint, AtStep, AuthShape, AuthTypeOK, Placed
<1>2. client[c].got["refresh"] \in Nat
  BY <1>1 DEF Client, Keys
<1>3. \E b \in {minted + 1, 0, client[c].got["refresh"]} : ToStore(c, minted + 1, b)
  BY DEF Minting, ExchangeCode, Refresh
<1> QED
  BY <1>1, <1>2, <1>3, StoreMoves

LEMMA StepMoves ==
  ASSUME AuthShape, NEW c \in Clients, AuthStep(c)
  PROVE  ClientMoves(c)
BY CallbackMoves, ConsumeMoves, TokenMoves, ReadMoves, DecideMoves, PutMoves, OverMoves,
   MintMoves DEF AuthStep, Over, Minting

-----------------------------------------------------------------------------
(* The types.                                                              *)

LEMMA PrunedType ==
  ASSUME AuthTypeOK
  PROVE  /\ Pruned(day) \in [StateIds -> Row]
         /\ \A s \in StateIds : Pruned(day)[s] \in {states[s], NoRow}
BY DEF AuthTypeOK, Pruned, NoRow, Row

LEMMA AuthShapeStep == AuthShape /\ [AuthNext]_authVars => AuthShape'
<1> SUFFICES ASSUME AuthShape, [AuthNext]_authVars
             PROVE  AuthShape'
  OBVIOUS
<1>0. AuthTypeOK
  BY DEF AuthShape
<1>1. ASSUME NEW o \in Operators, NEW s \in StateIds, IssueState(o, s)
      PROVE  AuthShape'
  <2>1. [op |-> o, until |-> day + StateTtl] \in Row
    BY <1>0, Numbers DEF Row
  <2>2. states' \in [StateIds -> Row]
    BY <1>0, <1>1, <2>1, PrunedType DEF IssueState
  <2> QED
    BY <1>0, <1>1, <2>2 DEF IssueState, AuthShape, AuthTypeOK
<1>2. ASSUME NEW c \in Clients, AuthStep(c)
      PROVE  AuthShape'
  <2>1. client' \in [Clients -> Placed] /\ client' \in [Clients -> Client]
    BY <1>2, StepMoves DEF ClientMoves, Placed
  <2>2. CASE \/ \E s \in StateIds : StartCallback(c, s)
             \/ Over(c) \/ Decide(c)
             \/ \E o \in Operators : StartToken(c, o)
             \/ \E k \in Keys : ReadKey(c, k)
    <3>1. /\ UNCHANGED <<day, states, kv, minted, issued, spent, owner, expiry>>
          /\ honoured' \subseteq honoured /\ serial' \subseteq serial
      BY <2>2 DEF StartCallback, Over, RejectState, ExchangeFails, RefreshRefused,
         RefreshLost, StoreDone, StoreFails, Decide, StartToken, ReadKey, Enter
    <3> QED
      BY <1>0, <2>1, <3>1 DEF AuthShape, AuthTypeOK
  <2>3. CASE ConsumeState(c)
    <3>1. /\ states' = [states EXCEPT ![client[c].state] = NoRow] /\ NoRow \in Row
          /\ spent' = [spent EXCEPT ![client[c].state] = @ + 1]
          /\ UNCHANGED <<day, kv, minted, honoured, issued, owner, expiry, serial>>
      BY <2>3 DEF ConsumeState, NoRow, Row
    <3>2. spent[client[c].state] + 1 \in Nat
      <4>1. client[c].state \in StateIds
        BY <2>3, ConsumeMoves
      <4> QED
        BY <1>0, <4>1 DEF AuthTypeOK
    <3>3. states' \in [StateIds -> Row] /\ spent' \in [StateIds -> Nat]
      BY <1>0, <3>1, <3>2 DEF AuthTypeOK
    <3> QED
      BY <1>0, <2>1, <3>1, <3>3 DEF AuthShape, AuthTypeOK
  <2>4. CASE Minting(c)
    <3>1. /\ minted + 1 \in Tokens /\ Mint(minted + 1, client[c].op)
          /\ client[c].op \in Operators
      BY <2>4, MintMoves
    <3>2. /\ minted' \in 0..MaxTokens
          /\ owner' \in [Tokens -> Operators \cup {NoOne}] /\ expiry' \in [Tokens -> Nat]
      BY <1>0, <3>1, Numbers DEF Mint, Tokens, AuthTypeOK
    <3>3. /\ UNCHANGED <<day, states, kv, issued, spent>>
          /\ honoured' \subseteq honoured \cup {minted + 1} /\ serial' \subseteq serial
      BY <2>4 DEF Minting, ExchangeCode, Refresh, Enter
    <3> QED
      BY <1>0, <2>1, <3>1, <3>2, <3>3 DEF AuthShape, AuthTypeOK
  <2>5. ASSUME NEW k \in Keys, PutKey(c, k)
        PROVE  AuthShape'
    <3> DEFINE e == [value |-> client[c].got[k], until |-> Lapses(k)]
    <3>1. e \in Entry /\ client[c].op \in Operators
      BY <1>0, <2>5, PutMoves, Numbers DEF Entry
    <3>2. kv' = [kv EXCEPT ![client[c].op] = [kv[client[c].op] EXCEPT ![k] = e]]
      BY <2>5 DEF PutKey
    <3>3. [kv[client[c].op] EXCEPT ![k] = e] \in [Keys -> Entry]
      BY <1>0, <3>1 DEF AuthTypeOK
    <3>4. kv' \in [Operators -> [Keys -> Entry]]
      BY <1>0, <3>2, <3>3 DEF AuthTypeOK
    <3>5. UNCHANGED <<day, states, minted, honoured, issued, spent, owner, expiry, serial>>
      BY <2>5 DEF PutKey
    <3> QED
      BY <1>0, <2>1, <3>4, <3>5 DEF AuthShape, AuthTypeOK
  <2> QED
    BY <1>2, <2>2, <2>3, <2>4, <2>5 DEF AuthStep, Over, Minting
<1>3. CASE PurgeStates
  BY <1>0, <1>3, PrunedType DEF PurgeStates, AuthShape, AuthTypeOK
<1>4. CASE NextDay
  <2>1. day' \in 0..MaxDay
    BY <1>0, <1>4, Numbers DEF NextDay
  <2> QED
    BY <1>0, <1>4, <2>1 DEF NextDay, AuthShape, AuthTypeOK
<1>5. CASE UNCHANGED authVars
  BY <1>0, <1>5 DEF authVars, AuthShape, AuthTypeOK
<1> QED
  BY <1>1, <1>2, <1>3, <1>4, <1>5 DEF AuthNext

\* Every variable keeps its type, and every request that handles tokens knows
\* whose they are.
THEOREM AuthTypeCorrect == AuthSpec => []AuthTypeOK
<1>1. AuthShape => AuthTypeOK
  BY DEF AuthShape
<1> QED
  BY <1>1, AuthShapeInit, AuthShapeStep, PTL DEF AuthSpec

LEMMA AuthShapeAlways == AuthSpec => []AuthShape
BY AuthShapeInit, AuthShapeStep, PTL DEF AuthSpec

-----------------------------------------------------------------------------
(* A state is used once.                                                   *)

\* A row is there only for a state that was issued and not yet spent.
StateInv ==
  \A s \in StateIds :
    /\ states[s].op # NoOne => issued[s] # NoOne /\ spent[s] = 0
    /\ issued[s] = NoOne => spent[s] = 0
    /\ spent[s] <= 1

LEMMA StateInit == AuthInit => StateInv
BY DEF AuthInit, StateInv, NoRow

LEMMA StateStep == AuthShape /\ StateInv /\ [AuthNext]_authVars => StateInv'
<1> SUFFICES ASSUME AuthShape, StateInv, [AuthNext]_authVars
             PROVE  StateInv'
  OBVIOUS
<1>0. AuthTypeOK
  BY DEF AuthShape
<1>1. ASSUME NEW o \in Operators, NEW s \in StateIds, IssueState(o, s)
      PROVE  StateInv'
  <2> SUFFICES ASSUME NEW t \in StateIds
               PROVE  /\ states'[t].op # NoOne => issued'[t] # NoOne /\ spent'[t] = 0
                      /\ issued'[t] = NoOne => spent'[t] = 0
                      /\ spent'[t] <= 1
    BY DEF StateInv
  <2>1. /\ issued' = [issued EXCEPT ![s] = o] /\ issued[s] = NoOne /\ o # NoOne
        /\ spent' = spent
    BY <1>1, AuthAssumption DEF IssueState
  <2>2. t # s => (states'[t].op # NoOne => states[t].op # NoOne)
    BY <1>0, <1>1, PrunedType DEF IssueState, NoRow
  <2> QED
    BY <1>0, <2>1, <2>2 DEF StateInv, AuthTypeOK
<1>2. ASSUME NEW c \in Clients, ConsumeState(c)
      PROVE  StateInv'
  <2>1. /\ client[c].state \in StateIds /\ states[client[c].state].op # NoOne
        /\ states' = [states EXCEPT ![client[c].state] = NoRow]
        /\ spent' = [spent EXCEPT ![client[c].state] = @ + 1]
        /\ issued' = issued
    BY <1>2, ConsumeMoves DEF AuthShape, ConsumeState, Valid
  <2>2. spent[client[c].state] = 0
    BY <2>1 DEF StateInv
  <2> QED
    BY <1>0, <2>1, <2>2 DEF StateInv, AuthTypeOK, NoRow
<1>3. CASE PurgeStates
  BY <1>0, <1>3, PrunedType DEF PurgeStates, StateInv, NoRow
<1>4. CASE UNCHANGED <<states, issued, spent>>
  BY <1>4 DEF StateInv
<1> QED
  BY <1>1, <1>2, <1>3, <1>4 DEF AuthNext, AuthStep, authVars, StartCallback, RejectState,
     ExchangeCode, ExchangeFails, StartToken, ReadKey, PutKey, Decide, Refresh,
     RefreshRefused, RefreshLost, StoreDone, StoreFails, NextDay

\* A state lets one callback through (consumeOAuthState), however callbacks,
\* new authorizations, the purge and the clock interleave.
THEOREM StatesUsedOnce == AuthSpec => []StateUsedOnce
<1>1. StateInv => StateUsedOnce
  BY DEF StateInv, StateUsedOnce
<1> QED
  BY <1>1, StateInit, StateStep, AuthShapeAlways, PTL DEF AuthSpec

-----------------------------------------------------------------------------
(* Tokens stay with their operator.                                        *)

TokenKeys == {"access", "refresh"}

\* Token n, if any, is one of the first m pairs and minted for o, by owners w.
Own(n, o, m, w) == n = 0 \/ (n \in 1..m /\ w[n] = o)

IsolationInv ==
  /\ \A o \in Operators, k \in TokenKeys : Own(kv[o][k].value, o, minted, owner)
  /\ \A c \in Clients, k \in TokenKeys : Own(client[c].got[k], client[c].op, minted, owner)
  /\ honoured \subseteq 1..minted

\* Pairs that have been minted stay whose they are.
KeptTokens ==
  /\ minted' \in {minted, minted + 1}
  /\ \A n \in 1..minted : owner'[n] = owner[n]

LEMMA OwnKept ==
  ASSUME AuthTypeOK, KeptTokens, NEW n, NEW o, Own(n, o, minted, owner)
  PROVE  Own(n, o, minted', owner')
BY Numbers DEF KeptTokens, Own

LEMMA MintKept ==
  ASSUME AuthTypeOK, NEW o, minted + 1 \in Tokens, Mint(minted + 1, o)
  PROVE  /\ KeptTokens /\ minted' = minted + 1 /\ owner'[minted + 1] = o
         /\ expiry'[minted + 1] = day + Life
         /\ \A n \in 1..minted : expiry'[n] = expiry[n]
BY Numbers DEF Mint, KeptTokens, AuthTypeOK, Tokens

LEMMA IsolationInit == AuthInit => IsolationInv
BY DEF AuthInit, IsolationInv, Own, TokenKeys, NoEntry, Done, Nothing, Keys

LEMMA IsolationStep == AuthShape /\ IsolationInv /\ [AuthNext]_authVars => IsolationInv'
<1> SUFFICES ASSUME AuthShape, IsolationInv, [AuthNext]_authVars
             PROVE  IsolationInv'
  OBVIOUS
<1>0. AuthTypeOK /\ TokenKeys \subseteq Keys
  BY DEF AuthShape, TokenKeys, Keys
<1>1. CASE \E c \in Clients : AuthStep(c)
  <2>1. PICK c \in Clients : AuthStep(c)
    BY <1>1
  <2>2. ClientMoves(c)
    BY <2>1, StepMoves
  <2>3. CASE Minting(c)
    <3>1. /\ KeptTokens /\ minted' = minted + 1 /\ owner'[minted + 1] = client[c].op
      BY <1>0, <2>3, MintMoves, MintKept
    <3>2. \A o \in Operators, k \in TokenKeys : Own(kv'[o][k].value, o, minted', owner')
      BY <1>0, <2>3, <3>1, OwnKept DEF Minting, ExchangeCode, Refresh, IsolationInv
    <3>3. Own(minted + 1, client[c].op, minted', owner') /\ Own(0, client[c].op, minted', owner')
      BY <1>0, <3>1, Numbers DEF Own
    <3>4. Own(client[c].got["refresh"], client[c].op, minted', owner')
      BY <1>0, <3>1, OwnKept DEF IsolationInv, TokenKeys
    <3>5. \A k \in TokenKeys : Own(client'[c].got[k], client'[c].op, minted', owner')
      BY <2>3, <3>3, <3>4, MintMoves DEF TokenKeys
    <3>6. \A d \in Clients, k \in TokenKeys : Own(client'[d].got[k], client'[d].op, minted', owner')
      BY <1>0, <2>2, <3>1, <3>5, OwnKept DEF ClientMoves, IsolationInv
    <3>7. honoured' \subseteq 1..minted'
      BY <1>0, <2>3, <3>1, Numbers DEF Minting, ExchangeCode, Refresh, IsolationInv
    <3> QED
      BY <3>2, <3>6, <3>7 DEF IsolationInv
  <2>4. CASE ~Minting(c)
    <3>1. UNCHANGED <<minted, owner>> /\ honoured' \subseteq honoured
      BY <2>1, <2>4 DEF AuthStep, Minting, StartCallback, ConsumeState, RejectState,
         ExchangeFails, StartToken, ReadKey, PutKey, Decide, RefreshRefused, RefreshLost,
         StoreDone, StoreFails
    <3>2. \A o \in Operators, k \in TokenKeys : Own(kv'[o][k].value, o, minted, owner)
      <4>1. CASE \E k \in Keys : PutKey(c, k)
        <5>1. PICK j \in Keys : PutKey(c, j)
          BY <4>1
        <5>2. \A o \in Operators, k \in Keys :
                \/ kv'[o][k] = kv[o][k]
                \/ o = client[c].op /\ kv'[o][k].value = client[c].got[k]
          BY <1>0, <5>1 DEF PutKey, AuthTypeOK
        <5> QED
          BY <1>0, <5>2 DEF IsolationInv
      <4>2. CASE ~\E k \in Keys : PutKey(c, k)
        <5>1. kv' = kv
          BY <2>1, <2>4, <4>2 DEF AuthStep, Minting, StartCallback, ConsumeState,
             RejectState, ExchangeFails, StartToken, ReadKey, Decide, RefreshRefused,
             RefreshLost, StoreDone, StoreFails
        <5> QED
          BY <5>1 DEF IsolationInv
      <4> QED
        BY <4>1, <4>2
    <3>3. \A k \in TokenKeys : Own(client'[c].got[k], client'[c].op, minted, owner)
      <4>1. ASSUME client'[c].got = Nothing
            PROVE  \A k \in TokenKeys : Own(client'[c].got[k], client'[c].op, minted, owner)
        BY <1>0, <4>1 DEF Own, Nothing
      <4>2. CASE \/ \E s \in StateIds : StartCallback(c, s)
                 \/ ConsumeState(c) \/ Over(c)
                 \/ \E o \in Operators : StartToken(c, o)
        <5>1. client'[c].got = Nothing
          <6>1. CASE \E s \in StateIds : StartCallback(c, s)
            <7>1. PICK s \in StateIds : StartCallback(c, s)
              BY <6>1
            <7>2. client'[c] = [Done("other") EXCEPT !.step = "consume", !.state = s]
              BY <7>1, CallbackMoves
            <7> QED
              BY <7>2 DEF Done
          <6>2. CASE ConsumeState(c)
            BY <6>2, ConsumeMoves
          <6>3. CASE Over(c)
            BY <6>3, OverMoves DEF Done
          <6>4. CASE \E o \in Operators : StartToken(c, o)
            BY <6>4, TokenMoves DEF Done
          <6> QED
            BY <4>2, <6>1, <6>2, <6>3, <6>4
        <5> QED
          BY <4>1, <5>1
      <4>3. ASSUME NEW j \in Keys, ReadKey(c, j)
            PROVE  \A k \in TokenKeys : Own(client'[c].got[k], client'[c].op, minted, owner)
        <5>1. /\ client[c] \in Client /\ client[c].op \in Operators
              /\ client'[c] = [client[c] EXCEPT !.due = @ \ {j},
                   !.got = [@ EXCEPT ![j] = Stored(client[c].op, j)]]
          BY <1>0, <4>3, ReadMoves DEF AuthTypeOK
        <5>2. /\ client'[c].op = client[c].op
              /\ client'[c].got = [client[c].got EXCEPT ![j] = Stored(client[c].op, j)]
          BY <5>1 DEF Client
        <5>3. j \in TokenKeys => Own(Stored(client[c].op, j), client[c].op, minted, owner)
          BY <5>1 DEF Stored, IsolationInv, Own
        <5> QED
          BY <1>0, <5>1, <5>2, <5>3 DEF IsolationInv, Client
      <4>4. CASE Decide(c)
        <5>1. client[c] \in Client
          BY <1>0 DEF AuthTypeOK
        <5>2. CASE \E answer \in Answers : client'[c] = Done(answer)
          BY <4>1, <5>2 DEF Done
        <5>3. CASE client'[c] = [client[c] EXCEPT !.step = "refresh"]
          BY <5>1, <5>3 DEF IsolationInv, Client
        <5> QED
          BY <4>4, <5>2, <5>3, DecideMoves
      <4>5. ASSUME NEW j \in Keys, PutKey(c, j)
            PROVE  \A k \in TokenKeys : Own(client'[c].got[k], client'[c].op, minted, owner)
        <5>1. client[c] \in Client /\ client'[c] = [client[c] EXCEPT !.due = @ \ {j}]
          BY <1>0, <4>5, PutMoves DEF AuthTypeOK
        <5> QED
          BY <5>1 DEF IsolationInv, Client
      <4> QED
        BY <2>1, <2>4, <4>2, <4>3, <4>4, <4>5 DEF AuthStep, Over, Minting
    <3>4. \A d \in Clients, k \in TokenKeys : Own(client'[d].got[k], client'[d].op, minted, owner)
      BY <2>2, <3>3 DEF ClientMoves, IsolationInv
    <3> QED
      BY <3>1, <3>2, <3>4 DEF IsolationInv, Own
  <2> QED
    BY <2>3, <2>4
<1>2. CASE UNCHANGED <<kv, client, minted, owner, honoured>>
  BY <1>2 DEF IsolationInv, Own
<1> QED
  BY <1>1, <1>2 DEF AuthNext, IssueState, PurgeStates, NextDay, authVars

\* Tokens never cross operators (operator-scoped keys, Sec-18), in the store or
\* on their way, whatever overlaps or fails.
THEOREM TokensIsolated == AuthSpec => []OperatorsIsolated
<1>1. IsolationInv => OperatorsIsolated
  BY DEF IsolationInv, OperatorsIsolated, Own, TokenKeys
<1> QED
  BY <1>1, IsolationInit, IsolationStep, AuthShapeAlways, PTL DEF AuthSpec

-----------------------------------------------------------------------------
(* The three keys agree.                                                   *)

KvWhole(o) ==
  LET access == kv[o]["access"].value
      refresh == kv[o]["refresh"].value
  IN access # 0 => /\ kv[o]["expires"].value = expiry[access]
                   /\ refresh # 0 => refresh \in honoured

\* What c has read is what is stored, or nothing.
HasRead(c) == \A k \in Keys : client[c].got[k] \in {0, kv[client[c].op][k].value}

\* What c stores is whole, and what is no longer due is stored.
Storing(c) ==
  LET got == client[c].got
  IN /\ got["access"] # 0 /\ got["expires"] = expiry[got["access"]]
     /\ got["refresh"] # 0 => got["refresh"] \in honoured
     /\ \A k \in Keys \ client[c].due : kv[client[c].op][k].value = got[k]

\* One request at a time, and the keys are whole unless it is storing.
Alone(o) ==
  /\ \A c, d \in Clients : Handling(c, o) /\ Handling(d, o) => c = d
  /\ (\A c \in Clients : Handling(c, o) => client[c].step # "store") => KvWhole(o)
  /\ \A c \in Clients : Handling(c, o) =>
       IF client[c].step = "store" THEN Storing(c) ELSE HasRead(c)

SerialInv == \A o \in serial : Alone(o)

LEMMA SerialInit == AuthInit => SerialInv
BY DEF AuthInit, SerialInv, Alone, Handling, Done, KvWhole, NoEntry, Keys

\* A step elsewhere.
LEMMA AloneStays ==
  ASSUME AuthShape, IsolationInv, NEW o \in Operators, Alone(o),
         kv'[o] = kv[o],
         \A d \in Clients : /\ Handling(d, o)' <=> Handling(d, o)
                            /\ Handling(d, o) => client'[d] = client[d],
         \A n \in 1..minted : owner[n] = o =>
           expiry'[n] = expiry[n] /\ (n \in honoured => n \in honoured')
  PROVE  Alone(o)'
<1>0. AuthTypeOK
  BY DEF AuthShape
<1>1. KvWhole(o) => KvWhole(o)'
  <2>1. \A k \in TokenKeys : Own(kv[o][k].value, o, minted, owner)
    BY DEF IsolationInv
  <2> QED
    BY <2>1 DEF KvWhole, Own, TokenKeys
<1>2. ASSUME NEW d \in Clients, Handling(d, o)
      PROVE  /\ Storing(d) => Storing(d)'
             /\ HasRead(d) => HasRead(d)'
  <2>1. client'[d] = client[d] /\ client[d].op = o
    BY <1>2 DEF Handling
  <2>2. \A k \in TokenKeys : Own(client[d].got[k], o, minted, owner)
    BY <2>1 DEF IsolationInv
  <2> QED
    BY <2>1, <2>2 DEF Storing, HasRead, Own, TokenKeys
<1> QED
  BY <1>1, <1>2 DEF Alone

\* A request that has nothing to do with the tokens of o, before or after.
LEMMA AloneElsewhere ==
  ASSUME AuthShape, IsolationInv, NEW o \in Operators, Alone(o), kv'[o] = kv[o],
         NEW c \in Clients, ClientMoves(c), ~Handling(c, o), ~Handling(c, o)',
         \A n \in 1..minted : owner[n] = o =>
           expiry'[n] = expiry[n] /\ (n \in honoured => n \in honoured')
  PROVE  Alone(o)'
BY AloneStays DEF ClientMoves, Handling

\* The only request on the tokens of o starts, or goes on.
LEMMA AloneMoves ==
  ASSUME AuthShape, NEW o \in Operators, NEW c \in Clients, ClientMoves(c),
         \A d \in Clients \ {c} : ~Handling(d, o),
         ~Handling(c, o)' \/ client'[c].step # "store" => KvWhole(o)',
         Handling(c, o)' =>
           IF client'[c].step = "store" THEN Storing(c)' ELSE HasRead(c)'
  PROVE  Alone(o)'
<1>1. \A d \in Clients : Handling(d, o)' => d = c
  BY DEF ClientMoves, Handling
<1> QED
  BY <1>1 DEF Alone

\* The same premises for each action below: o is serial before and after.
LEMMA SerialBefore ==
  ASSUME AuthShape, IsolationInv, NEW o \in Operators, Alone(o), NEW c \in Clients,
         \/ \E s \in StateIds : StartCallback(c, s)
         \/ ConsumeState(c)
         \/ ExchangeFails(c) \/ RejectState(c)
  PROVE  Alone(o)'
<1>1. UNCHANGED <<kv, honoured, expiry>> /\ ~Handling(c, o)
  BY DEF StartCallback, ConsumeState, ExchangeFails, RejectState, AtStep, Handling
<1>2. client'[c].step \notin {"read", "refresh", "store"} /\ ClientMoves(c)
  <2>1. CASE \E s \in StateIds : StartCallback(c, s)
    <3>1. PICK s \in StateIds : StartCallback(c, s)
      BY <2>1
    <3>2. ClientMoves(c) /\ client'[c] = [Done("other") EXCEPT !.step = "consume", !.state = s]
      BY <3>1, CallbackMoves
    <3> QED
      BY <3>2 DEF Done
  <2>2. CASE ConsumeState(c)
    BY <2>2, ConsumeMoves
  <2>3. CASE ExchangeFails(c) \/ RejectState(c)
    BY <2>3, OverMoves DEF Done, Over
  <2> QED
    BY <2>1, <2>2, <2>3
<1>3. ~Handling(c, o)'
  BY <1>2 DEF Handling
<1> QED
  BY <1>1, <1>2, <1>3, AloneElsewhere

LEMMA SerialToken ==
  ASSUME AuthShape, IsolationInv, NEW o \in Operators, o \in serial', Alone(o),
         NEW c \in Clients, NEW p \in Operators, StartToken(c, p)
  PROVE  Alone(o)'
<1>1. /\ UNCHANGED <<kv, honoured, expiry>> /\ ~Handling(c, o) /\ Enter(c, p)
  BY DEF StartToken, AtStep, Handling
<1>2. /\ ClientMoves(c)
      /\ client'[c] = [Done("other") EXCEPT !.step = "read", !.op = p, !.due = Keys]
  BY TokenMoves
<1>3. client'[c].step = "read" /\ client'[c].op = p /\ client'[c].got = Nothing
  BY <1>2 DEF Done
<1>4. CASE p # o
  <2>1. ~Handling(c, o)'
    BY <1>3, <1>4 DEF Handling
  <2> QED
    BY <1>1, <1>2, <2>1, AloneElsewhere
<1>5. CASE p = o
  <2>1. \A d \in Clients \ {c} : ~Handling(d, o)
    BY <1>1, <1>5 DEF Enter
  <2>2. KvWhole(o)'
    BY <1>1, <2>1 DEF Alone, KvWhole
  <2>3. HasRead(c)'
    BY <1>3 DEF HasRead, Nothing
  <2> QED
    BY <1>2, <1>3, <2>1, <2>2, <2>3, AloneMoves
<1> QED
  BY <1>4, <1>5

\* Who else is on the tokens of o while c is.
LEMMA OnlyClient ==
  ASSUME NEW o \in Operators, Alone(o), NEW c \in Clients, Handling(c, o)
  PROVE  /\ \A d \in Clients \ {c} : ~Handling(d, o)
         /\ IF client[c].step = "store" THEN Storing(c) ELSE HasRead(c) /\ KvWhole(o)
BY DEF Alone

LEMMA SerialRead ==
  ASSUME AuthShape, IsolationInv, NEW o \in Operators, Alone(o),
         NEW c \in Clients, NEW k \in Keys, ReadKey(c, k)
  PROVE  Alone(o)'
<1>1. UNCHANGED <<kv, honoured, expiry>> /\ client[c].step = "read"
  BY DEF ReadKey, AtStep
<1>2. /\ ClientMoves(c) /\ client[c] \in Client
      /\ client'[c] = [client[c] EXCEPT !.due = @ \ {k},
                                        !.got = [@ EXCEPT ![k] = Stored(client[c].op, k)]]
  BY ReadMoves DEF AuthShape, AuthTypeOK
<1>3. /\ client'[c].step = "read" /\ client'[c].op = client[c].op
      /\ client'[c].got = [client[c].got EXCEPT ![k] = Stored(client[c].op, k)]
      /\ client[c].got \in [Keys -> Nat]
  BY <1>1, <1>2 DEF Client
<1>4. CASE client[c].op # o
  <2>1. ~Handling(c, o) /\ ~Handling(c, o)'
    BY <1>3, <1>4 DEF Handling
  <2> QED
    BY <1>1, <1>2, <2>1, AloneElsewhere
<1>5. CASE client[c].op = o
  <2>1. Handling(c, o)
    BY <1>1, <1>5 DEF Handling
  <2>2. (\A d \in Clients \ {c} : ~Handling(d, o)) /\ HasRead(c) /\ KvWhole(o)
    BY <1>1, <2>1, OnlyClient
  <2>3. KvWhole(o)'
    BY <1>1, <2>2 DEF KvWhole
  <2>4. Stored(o, k) \in {0, kv[o][k].value}
    BY DEF Stored
  <2>5. HasRead(c)'
    BY <1>1, <1>3, <1>5, <2>2, <2>4 DEF HasRead
  <2> QED
    BY <1>2, <1>3, <2>2, <2>3, <2>5, AloneMoves
<1> QED
  BY <1>4, <1>5

LEMMA SerialDecide ==
  ASSUME AuthShape, IsolationInv, NEW o \in Operators, Alone(o),
         NEW c \in Clients, Decide(c)
  PROVE  Alone(o)'
<1>1. UNCHANGED <<kv, honoured, expiry>> /\ client[c].step = "read" /\ ClientMoves(c)
  BY DecideMoves DEF Decide, AtStep
<1>2. \/ client'[c].step = "idle"
      \/ /\ client'[c].step = "refresh" /\ client'[c].op = client[c].op
         /\ client'[c].got = client[c].got
  <2>1. CASE \E answer \in Answers : client'[c] = Done(answer)
    BY <2>1 DEF Done
  <2>2. CASE client'[c] = [client[c] EXCEPT !.step = "refresh"]
    BY <2>2 DEF AuthShape, AuthTypeOK, Client
  <2> QED
    BY <2>1, <2>2, DecideMoves
<1>3. CASE client[c].op # o
  <2>1. ~Handling(c, o) /\ ~Handling(c, o)'
    BY <1>2, <1>3 DEF Handling
  <2> QED
    BY <1>1, <2>1, AloneElsewhere
<1>4. CASE client[c].op = o
  <2>1. Handling(c, o)
    BY <1>1, <1>4 DEF Handling
  <2>2. (\A d \in Clients \ {c} : ~Handling(d, o)) /\ HasRead(c) /\ KvWhole(o)
    BY <1>1, <2>1, OnlyClient
  <2>3. KvWhole(o)'
    BY <1>1, <2>2 DEF KvWhole
  <2>4. Handling(c, o)' => client'[c].step # "store" /\ HasRead(c)'
    BY <1>1, <1>2, <2>2 DEF HasRead, Handling
  <2> QED
    BY <1>1, <2>2, <2>3, <2>4, AloneMoves
<1> QED
  BY <1>3, <1>4

LEMMA SerialPut ==
  ASSUME AuthShape, IsolationInv, NEW o \in Operators, Alone(o),
         NEW c \in Clients, NEW k \in Keys, PutKey(c, k)
  PROVE  Alone(o)'
<1>1. UNCHANGED <<honoured, expiry>> /\ client[c].step = "store"
  BY DEF PutKey, AtStep
<1>2. /\ ClientMoves(c) /\ client[c] \in Client /\ client[c].op \in Operators
      /\ client'[c] = [client[c] EXCEPT !.due = @ \ {k}]
  BY PutMoves DEF AuthShape, AuthTypeOK
<1>3. /\ client'[c].step = "store" /\ client'[c].op = client[c].op
      /\ client'[c].got = client[c].got /\ client'[c].due = client[c].due \ {k}
  BY <1>1, <1>2 DEF Client
<1>4. \A p \in Operators, j \in Keys :
        IF p = client[c].op /\ j = k THEN kv'[p][j].value = client[c].got[k]
                                     ELSE kv'[p][j] = kv[p][j]
  BY <1>2 DEF PutKey, AuthShape, AuthTypeOK
<1>5. CASE client[c].op # o
  <2>1. ~Handling(c, o) /\ ~Handling(c, o)' /\ kv'[o] = kv[o]
    BY <1>3, <1>5 DEF Handling, PutKey, AuthShape, AuthTypeOK
  <2> QED
    BY <1>1, <1>2, <2>1, AloneElsewhere
<1>6. CASE client[c].op = o
  <2>1. Handling(c, o)
    BY <1>1, <1>6 DEF Handling
  <2>2. (\A d \in Clients \ {c} : ~Handling(d, o)) /\ Storing(c)
    BY <1>1, <2>1, OnlyClient
  <2>3. Storing(c)'
    BY <1>1, <1>2, <1>3, <1>4, <2>2 DEF Storing
  <2>4. Handling(c, o)'
    BY <1>3, <1>6 DEF Handling
  <2> QED
    BY <1>2, <1>3, <2>2, <2>3, <2>4, AloneMoves
<1> QED
  BY <1>5, <1>6

LEMMA SerialMint ==
  ASSUME AuthShape, IsolationInv, NEW o \in Operators, o \in serial', Alone(o),
         NEW c \in Clients, Minting(c)
  PROVE  Alone(o)'
<1>1. /\ ClientMoves(c) /\ client[c].op \in Operators
      /\ minted + 1 \in Tokens /\ Mint(minted + 1, client[c].op)
      /\ client'[c].step = "store" /\ client'[c].op = client[c].op
      /\ client'[c].due = Keys
      /\ client'[c].got["access"] = minted + 1
      /\ client'[c].got["expires"] = day + Life
  BY MintMoves
<1>2. /\ AuthTypeOK /\ minted' = minted + 1 /\ expiry'[minted + 1] = day + Life
      /\ \A n \in 1..minted : expiry'[n] = expiry[n]
  BY <1>1, MintKept DEF AuthShape
<1>3. UNCHANGED kv /\ client[c].step \in {"exchange", "refresh"}
  BY DEF Minting, ExchangeCode, Refresh, AtStep
<1>4. \A n \in honoured : n # client[c].got["refresh"] => n \in honoured'
  BY DEF Minting, ExchangeCode, Refresh
<1>5. CASE client[c].op # o
  <2>1. ~Handling(c, o) /\ ~Handling(c, o)'
    BY <1>1, <1>5 DEF Handling
  <2>2. \A n \in 1..minted : owner[n] = o => n # client[c].got["refresh"]
    BY <1>2, <1>5, Numbers DEF IsolationInv, Own, TokenKeys
  <2> QED
    BY <1>1, <1>2, <1>3, <1>4, <2>1, <2>2, AloneElsewhere
<1>6. CASE client[c].op = o
  <2>1. \A d \in Clients \ {c} : ~Handling(d, o)
    <3>1. CASE ExchangeCode(c)
      BY <1>6, <3>1 DEF ExchangeCode, Enter
    <3>2. CASE Refresh(c)
      <4>1. Handling(c, o)
        BY <1>6, <3>2 DEF Refresh, AtStep, Handling
      <4> QED
        BY <4>1, OnlyClient
    <3> QED
      BY <3>1, <3>2 DEF Minting
  <2>2. client'[c].got["refresh"] # 0 => client'[c].got["refresh"] \in honoured'
    <3>1. \/ \E b \in {minted + 1, 0} : ToStore(c, minted + 1, b) /\ (b # 0 => b \in honoured')
          \/ ToStore(c, minted + 1, client[c].got["refresh"])
             /\ client[c].got["refresh"] \in honoured'
      BY DEF Minting, ExchangeCode, Refresh
    <3>2. client[c] \in Client /\ minted + 1 \in Nat /\ client[c].got["refresh"] \in Nat
      BY <1>2, Numbers DEF AuthTypeOK, Client, Keys
    <3> QED
      BY <1>1, <3>1, <3>2, StoreMoves
  <2>3. Storing(c)'
    <3>1. minted + 1 # 0
      BY <1>2, Numbers
    <3> QED
      BY <1>1, <1>2, <2>2, <3>1 DEF Storing
  <2>4. Handling(c, o)'
    BY <1>1, <1>6 DEF Handling
  <2> QED
    BY <1>1, <2>1, <2>3, <2>4, AloneMoves
<1> QED
  BY <1>5, <1>6

LEMMA SerialOver ==
  ASSUME AuthShape, IsolationInv, NEW o \in Operators, o \in serial', Alone(o),
         NEW c \in Clients,
         RefreshRefused(c) \/ RefreshLost(c) \/ StoreDone(c) \/ StoreFails(c)
  PROVE  Alone(o)'
<1>1. ClientMoves(c) /\ client'[c].step = "idle" /\ UNCHANGED <<kv, expiry>>
  <2>1. Over(c) /\ UNCHANGED <<kv, expiry>>
    BY DEF Over, RefreshRefused, RefreshLost, StoreDone, StoreFails
  <2> QED
    BY <2>1, OverMoves DEF Done
<1>2. ~Handling(c, o)' /\ client[c].step \in {"refresh", "store"}
  BY <1>1 DEF Handling, RefreshRefused, RefreshLost, StoreDone, StoreFails, AtStep
<1>3. CASE client[c].op # o
  <2>1. ~Handling(c, o)
    BY <1>3 DEF Handling
  <2>2. \A n \in 1..minted : owner[n] = o => (n \in honoured => n \in honoured')
    <3>1. \A n \in honoured : n # client[c].got["refresh"] => n \in honoured'
      BY DEF RefreshRefused, RefreshLost, StoreDone, StoreFails
    <3>2. \A n \in 1..minted : owner[n] = o => n # client[c].got["refresh"]
      <4>1. Own(client[c].got["refresh"], client[c].op, minted, owner) /\ minted \in Nat
        BY Numbers DEF IsolationInv, TokenKeys, AuthShape
      <4> QED
        BY <1>3, <4>1 DEF Own
    <3> QED
      BY <3>1, <3>2
  <2> QED
    BY <1>1, <1>2, <2>1, <2>2, AloneElsewhere
<1>4. CASE client[c].op = o
  <2>1. Handling(c, o)
    BY <1>2, <1>4 DEF Handling
  <2>2. \A d \in Clients \ {c} : ~Handling(d, o)
    BY <2>1, OnlyClient
  <2>3. UNCHANGED honoured
    BY <1>4 DEF RefreshRefused, RefreshLost, StoreDone, StoreFails
  <2>4. KvWhole(o)
    <3>1. CASE StoreDone(c)
      <4>1. Storing(c) /\ client[c].due = {}
        BY <2>1, <3>1, OnlyClient DEF StoreDone, AtStep
      <4> QED
        BY <1>4, <4>1 DEF Storing, KvWhole, Keys
    <3>2. CASE RefreshRefused(c)
      BY <2>1, <3>2, OnlyClient DEF RefreshRefused, AtStep
    <3>3. ~RefreshLost(c) /\ ~StoreFails(c)
      BY <1>4 DEF RefreshLost, StoreFails
    <3> QED
      BY <3>1, <3>2, <3>3
  <2>5. KvWhole(o)'
    BY <1>1, <2>3, <2>4 DEF KvWhole
  <2> QED
    BY <1>1, <1>2, <2>2, <2>5, AloneMoves
<1> QED
  BY <1>3, <1>4

LEMMA SerialStep ==
  AuthShape /\ IsolationInv /\ SerialInv /\ [AuthNext]_authVars => SerialInv'
<1> SUFFICES ASSUME AuthShape, IsolationInv, SerialInv, [AuthNext]_authVars,
                    NEW o \in serial'
             PROVE  Alone(o)'
  BY DEF SerialInv
<1>0. AuthTypeOK /\ o \in Operators /\ Alone(o)
  <2>1. serial' \subseteq serial
    BY DEF AuthNext, AuthStep, authVars, IssueState, PurgeStates, NextDay, StartCallback,
       ConsumeState, RejectState, ExchangeCode, ExchangeFails, StartToken, ReadKey, PutKey,
       Decide, Refresh, RefreshRefused, RefreshLost, StoreDone, StoreFails, Enter
  <2> QED
    BY <2>1 DEF AuthShape, AuthTypeOK, SerialInv
<1>1. CASE UNCHANGED <<kv, client, expiry, honoured>>
  BY <1>0, <1>1, AloneStays DEF Handling
<1>2. ASSUME NEW c \in Clients, AuthStep(c)
      PROVE  Alone(o)'
  <2>0. ClientMoves(c) /\ client[c] \in Placed /\ client[c] \in Client
    BY <1>2, StepMoves DEF AuthShape, Placed
  <2>1. CASE \/ \E s \in StateIds : StartCallback(c, s)
             \/ ConsumeState(c)
             \/ ExchangeFails(c) \/ RejectState(c)
    BY <1>0, <1>2, <2>1, SerialBefore
  <2>2. CASE \E p \in Operators : StartToken(c, p)
    BY <1>0, <2>2, SerialToken
  <2>3. CASE \E k \in Keys : ReadKey(c, k)
    BY <1>0, <2>3, SerialRead
  <2>4. CASE \E k \in Keys : PutKey(c, k)
    BY <1>0, <2>4, SerialPut
  <2>5. CASE Decide(c)
    BY <1>0, <2>5, SerialDecide
  <2>6. CASE Minting(c)
    BY <1>0, <2>6, SerialMint
  <2>7. CASE RefreshRefused(c) \/ RefreshLost(c) \/ StoreDone(c) \/ StoreFails(c)
    BY <1>0, <2>7, SerialOver
  <2> QED
    BY <1>2, <2>1, <2>2, <2>3, <2>4, <2>5, <2>6, <2>7 DEF AuthStep, Minting
<1> QED
  BY <1>1, <1>2 DEF AuthNext, authVars, IssueState, PurgeStates, NextDay

\* The expiry stored is the access token's, and the refresh token one the
\* provider honours, as long as an operator's requests neither overlap nor
\* fail: what the four separate KV writes of storeTokens rest on.
THEOREM SerialWhole == AuthSpec => []SerialTokensWhole
<1>1. SerialInv => SerialTokensWhole
  BY DEF SerialInv, Alone, KvWhole, SerialTokensWhole
<1>2. AuthSpec => []IsolationInv
  BY IsolationInit, IsolationStep, AuthShapeAlways, PTL DEF AuthSpec
<1> QED
  BY <1>1, <1>2, SerialInit, SerialStep, AuthShapeAlways, PTL DEF AuthSpec

\* In a request that has read all three keys and serves, they were of one
\* generation and not due for a refresh.
LEMMA ServedFresh ==
  ASSUME AuthShape, SerialInv, [AuthNext]_authVars, NEW c \in Clients,
         AtStep(c, "read"), client'[c] = Done("served"), client[c].op \in serial
  PROVE  expiry[client[c].got["access"]] >= day + Buffer
<1> DEFINE o == client[c].op
           got == client[c].got
<1>1. /\ o \in Operators /\ Handling(c, o) /\ client[c].step = "read"
      /\ got \in [Keys -> Nat] /\ client[c] \in Client
  BY DEF AuthShape, AuthTypeOK, AtStep, Handling, Placed, Client
<1>2. Decide(c)
  <2>1. client' # client /\ Done("served").step = "idle" /\ Done("served").answer = "served"
    BY <1>1 DEF Done
  <2>2. PICK d \in Clients : AuthStep(d)
    BY <2>1 DEF AuthNext, authVars, IssueState, PurgeStates, NextDay
  <2>3. d = c
    BY <1>1, <2>1, <2>2, StepMoves DEF ClientMoves
  <2>4. \A k \in Keys : ~ReadKey(c, k)
    <3> SUFFICES ASSUME NEW k \in Keys, ReadKey(c, k) PROVE FALSE
      OBVIOUS
    <3>1. client'[c].step = client[c].step
      BY <1>1, ReadMoves DEF Client
    <3> QED
      BY <1>1, <2>1, <3>1
  <2> QED
    BY <1>1, <2>2, <2>3, <2>4 DEF AuthStep, AtStep, StartCallback, ConsumeState, RejectState,
       ExchangeCode, ExchangeFails, StartToken, PutKey, Refresh, RefreshRefused, RefreshLost,
       StoreDone, StoreFails
<1>3. got["access"] # 0 /\ ~NeedsRefresh(got)
  <2>1. Done("served") # Done("unauthorized") /\ Done("served").step = "idle"
    BY DEF Done
  <2>2. ~Reply(c, "unauthorized")
    BY <2>1 DEF Reply, Become, AuthShape, AuthTypeOK
  <2>3. client' # [client EXCEPT ![c].step = "refresh"]
    BY <1>1, <2>1 DEF AuthShape, AuthTypeOK, Client
  <2> QED
    BY <1>2, <2>2, <2>3 DEF Decide
<1>4. HasRead(c) /\ KvWhole(o)
  BY <1>1, OnlyClient DEF SerialInv
<1>5. got["expires"] = expiry[got["access"]]
  <2>1. got["access"] = kv[o]["access"].value /\ got["expires"] = kv[o]["expires"].value
    BY <1>3, <1>4 DEF HasRead, NeedsRefresh, Keys
  <2> QED
    BY <1>3, <1>4, <2>1 DEF KvWhole
<1>6. got["expires"] >= day + Buffer
  <2>1. got["expires"] \in Nat /\ day \in Nat /\ Buffer \in Nat
    BY <1>1, Numbers, AuthAssumption DEF Keys, AuthShape
  <2> QED
    BY <1>3, <2>1 DEF NeedsRefresh
<1> QED
  BY <1>5, <1>6

\* A token handed out without a refresh is good for the buffer
\* (getValidAccessToken), for an operator whose requests do not overlap or fail.
THEOREM SerialFresh == AuthSpec => SerialTokensFresh
<1>1. AuthShape /\ SerialInv /\ [AuthNext]_authVars =>
        [\A c \in Clients :
           AtStep(c, "read") /\ client'[c] = Done("served") /\ client[c].op \in serial =>
             expiry[client[c].got["access"]] >= day + Buffer]_authVars
  BY ServedFresh
<1>2. AuthSpec => []SerialInv
  <2>1. AuthSpec => []IsolationInv
    BY IsolationInit, IsolationStep, AuthShapeAlways, PTL DEF AuthSpec
  <2> QED
    BY <2>1, SerialInit, SerialStep, AuthShapeAlways, PTL DEF AuthSpec
<1> QED
  BY <1>1, <1>2, AuthShapeAlways, PTL DEF AuthSpec, SerialTokensFresh

=============================================================================
