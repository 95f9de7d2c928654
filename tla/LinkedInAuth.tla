---------------------------- MODULE LinkedInAuth ----------------------------
(***************************************************************************)
(* The LinkedIn authorization flow: the OAuth state rows in D1, the token  *)
(* set of each operator in three KV keys with lifetimes of their own, the  *)
(* requests that authorize, refresh and use it, and the provider that      *)
(* rotates refresh tokens.  One action per D1 statement, KV call or answer *)
(* of the provider; calls made in one Promise.all come in any order.       *)
(***************************************************************************)
EXTENDS Naturals, FiniteSets

CONSTANTS
  Clients,     \* slots for requests in flight
  Operators,   \* operator ids
  StateIds,    \* bound: the state values that can be drawn
  MaxTokens,   \* bound: token pairs the provider mints
  MaxDay,      \* bound: the last day
  StateTtl,    \* OAUTH_STATE_TTL_SECONDS
  Life,        \* expires_in, chosen by the provider
  Buffer,      \* REFRESH_BUFFER_MS
  AccessTtl,   \* ttl90Days
  RefreshTtl,  \* ttl12Months
  NoOne        \* no operator

Tokens == 1..MaxTokens

ASSUME AuthAssumption ==
  /\ MaxTokens \in Nat
  /\ MaxDay \in Nat
  /\ {StateTtl, Life, Buffer, AccessTtl, RefreshTtl} \subseteq Nat \ {0}
  /\ NoOne \notin Operators

VARIABLES
  day,        \* the clock
  states,     \* oauth_state: operator and expiry by state; NoOne if no row
  kv,         \* by operator and key: the value and the day it lapses
  minted,     \* token pairs minted by the provider so far
  honoured,   \* the refresh tokens the provider accepts
  client,     \* the requests in flight and their answers
  \* History, read by properties only:
  issued,     \* the operator each state was drawn for
  spent,      \* how many callbacks each state has let through
  owner,      \* the operator each token pair was minted for
  expiry,     \* the day each access token expires
  serial      \* operators whose token requests never overlapped nor failed

authVars == <<day, states, kv, minted, honoured, client, issued, spent, owner,
              expiry, serial>>

\* linkedin:access_token, linkedin:refresh_token, linkedin:token_expires.
\* Values are token numbers, or a day for "expires"; 0 is an empty or missing
\* value.  linkedin:token_meta is only displayed.
Keys == {"access", "refresh", "expires"}

Row == [op : Operators \cup {NoOne}, until : Nat]

NoRow == [op |-> NoOne, until |-> 0]

Entry == [value : Nat, until : Nat]

NoEntry == [value |-> 0, until |-> 0]

Steps == {"idle", "consume", "exchange", "read", "refresh", "store"}

\* How a slot's last request ended: served is with a stored token found good,
\* unauthorized the call to authorize again; the rest are not told apart.
Answers == {"served", "unauthorized", "other"}

\* got: what has been read, or is to be stored; due: the KV calls under way.
Client == [step : Steps, op : Operators \cup {NoOne}, state : StateIds \cup {NoOne},
           got : [Keys -> Nat], due : SUBSET Keys, answer : Answers]

AuthTypeOK ==
  /\ day \in 0..MaxDay
  /\ states \in [StateIds -> Row]
  /\ kv \in [Operators -> [Keys -> Entry]]
  /\ minted \in 0..MaxTokens
  /\ honoured \subseteq Tokens
  /\ client \in [Clients -> Client]
  /\ issued \in [StateIds -> Operators \cup {NoOne}]
  /\ spent \in [StateIds -> Nat]
  /\ owner \in [Tokens -> Operators \cup {NoOne}]
  /\ expiry \in [Tokens -> Nat]
  /\ serial \subseteq Operators

Nothing == [k \in Keys |-> 0]

Done(answer) == [step |-> "idle", op |-> NoOne, state |-> NoOne,
                 got |-> Nothing, due |-> {}, answer |-> answer]

AuthInit ==
  /\ day = 0
  /\ states = [s \in StateIds |-> NoRow]
  /\ kv = [o \in Operators |-> [k \in Keys |-> NoEntry]]
  /\ minted = 0
  /\ honoured = {}
  /\ client = [c \in Clients |-> Done("other")]
  /\ issued = [s \in StateIds |-> NoOne]
  /\ spent = [s \in StateIds |-> 0]
  /\ owner = [t \in Tokens |-> NoOne]
  /\ expiry = [t \in Tokens |-> 0]
  /\ serial = Operators

-----------------------------------------------------------------------------

AtStep(c, step) == client[c].step = step

Become(c, r) == client' = [client EXCEPT ![c] = r]

Reply(c, answer) == Become(c, Done(answer))

\* Requests that read or write the tokens of an operator.
Handling(c, o) == client[c].op = o /\ client[c].step \in {"read", "refresh", "store"}

\* History: operator o stays serial if nobody else handles its tokens.
Enter(c, o) ==
  serial' = IF \E d \in Clients \ {c} : Handling(d, o) THEN serial \ {o} ELSE serial

(* GET /auth/linkedin/init.                                                *)

\* The rows whose expiry lies before t go.
Pruned(t) ==
  [s \in StateIds |-> IF states[s].op # NoOne /\ states[s].until < t
                      THEN NoRow ELSE states[s]]

\* handleLinkedInAuthInit, in one step: what another request does between
\* the two statements commutes with the first.
IssueState(o, s) ==
  /\ issued[s] = NoOne
  /\ issued' = [issued EXCEPT ![s] = o]
  /\ states' = [Pruned(day) EXCEPT ![s] = [op |-> o, until |-> day + StateTtl]]
  /\ UNCHANGED <<day, kv, minted, honoured, client, spent, owner, expiry, serial>>

(* GET /auth/linkedin/callback.                                            *)

\* The redirect, also when repeated or late.
StartCallback(c, s) ==
  /\ AtStep(c, "idle")
  /\ issued[s] # NoOne
  /\ Become(c, [Done("other") EXCEPT !.step = "consume", !.state = s])
  /\ UNCHANGED <<day, states, kv, minted, honoured, issued, spent, owner, expiry,
                 serial>>

Valid(s) == states[s].op # NoOne /\ states[s].until > day

\* Faulty: the row is looked up and left, to be deleted later.
LookUpState(c) ==
  LET s == client[c].state
  IN /\ AtStep(c, "consume")
     /\ Valid(s)
     /\ spent' = [spent EXCEPT ![s] = @ + 1]
     /\ \/ Become(c, [Done("other") EXCEPT !.step = "exchange", !.op = states[s].op])
        \/ Reply(c, "other")
     /\ UNCHANGED <<day, states, kv, minted, honoured, issued, owner, expiry, serial>>

\* consumeOAuthState: one DELETE ... RETURNING.  The provider has sent a
\* code, or an error, or neither.
ConsumeState(c) ==
  LET s == client[c].state
  IN /\ AtStep(c, "consume")
     /\ Valid(s)
     /\ states' = [states EXCEPT ![s] = NoRow]
     /\ spent' = [spent EXCEPT ![s] = @ + 1]
     /\ \/ Become(c, [Done("other") EXCEPT !.step = "exchange", !.op = states[s].op])
        \/ Reply(c, "other")
     /\ UNCHANGED <<day, kv, minted, honoured, issued, owner, expiry, serial>>

RejectState(c) ==
  /\ AtStep(c, "consume")
  /\ ~Valid(client[c].state)
  /\ Reply(c, "other")
  /\ UNCHANGED <<day, states, kv, minted, honoured, issued, spent, owner, expiry,
                 serial>>

\* The provider mints the pair numbered t for operator o.
Mint(t, o) ==
  /\ t \in Tokens
  /\ minted' = t
  /\ owner' = [owner EXCEPT ![t] = o]
  /\ expiry' = [expiry EXCEPT ![t] = day + Life]

\* Faulty: the expiry that was read is stored again.
ToStoreStale(c, access, refresh) ==
  client' = [client EXCEPT ![c].step = "store", ![c].due = Keys, ![c].got =
    [k \in Keys |-> CASE k = "access" -> access
                      [] k = "refresh" -> refresh
                      [] k = "expires" -> client[c].got["expires"]]]

ToStore(c, access, refresh) ==
  client' = [client EXCEPT ![c].step = "store", ![c].due = Keys, ![c].got =
    [k \in Keys |-> CASE k = "access" -> access
                      [] k = "refresh" -> refresh
                      [] k = "expires" -> day + Life]]

\* exchangeCodeForTokens; a missing refresh token becomes the empty string.
ExchangeCode(c) ==
  LET o == client[c].op
      t == minted + 1
  IN /\ AtStep(c, "exchange")
     /\ Mint(t, o)
     /\ \/ honoured' = honoured \cup {t} /\ ToStore(c, t, t)
        \/ honoured' = honoured /\ ToStore(c, t, 0)
     /\ Enter(c, o)
     /\ UNCHANGED <<day, states, kv, issued, spent>>

ExchangeFails(c) ==
  /\ AtStep(c, "exchange")
  /\ Reply(c, "other")
  /\ UNCHANGED <<day, states, kv, minted, honoured, issued, spent, owner, expiry,
                 serial>>

(* getValidAccessToken, called by the activation adapter and its routes.   *)

StartToken(c, o) ==
  /\ AtStep(c, "idle")
  /\ Become(c, [Done("other") EXCEPT !.step = "read", !.op = o, !.due = Keys])
  /\ Enter(c, o)
  /\ UNCHANGED <<day, states, kv, minted, honoured, issued, spent, owner, expiry>>

Stored(o, k) == IF kv[o][k].until > day THEN kv[o][k].value ELSE 0

ReadKey(c, k) ==
  /\ AtStep(c, "read")
  /\ k \in client[c].due
  /\ client' = [client EXCEPT ![c].due = @ \ {k},
                              ![c].got[k] = Stored(client[c].op, k)]
  /\ UNCHANGED <<day, states, kv, minted, honoured, issued, spent, owner, expiry,
                 serial>>

\* Faulty: the token is used until it has expired.
NeedsRefreshLate(got) == got["expires"] = 0 \/ got["expires"] < day

NeedsRefresh(got) == got["expires"] = 0 \/ got["expires"] < day + Buffer

\* What follows the three reads, up to the next await.
Decide(c) ==
  LET got == client[c].got
      present == got["access"] # 0 /\ got["refresh"] # 0
  IN /\ AtStep(c, "read")
     /\ client[c].due = {}
     /\ \/ ~present /\ Reply(c, "unauthorized")
        \/ present /\ ~NeedsRefresh(got) /\ Reply(c, "served")
        \/ present /\ NeedsRefresh(got) /\ client' = [client EXCEPT
             ![c].step = "refresh"]
     /\ UNCHANGED <<day, states, kv, minted, honoured, issued, spent, owner,
                    expiry, serial>>

\* refreshAccessToken: the provider rotates the refresh token, or answers
\* without one and the old one is kept.
Refresh(c) ==
  LET o == client[c].op
      old == client[c].got["refresh"]
      t == minted + 1
  IN /\ AtStep(c, "refresh")
     /\ old \in honoured
     /\ Mint(t, o)
     /\ \/ honoured' = (honoured \ {old}) \cup {t} /\ ToStore(c, t, t)
        \/ honoured' = honoured /\ ToStore(c, t, old)
     /\ UNCHANGED <<day, states, kv, issued, spent, serial>>

RefreshRefused(c) ==
  /\ AtStep(c, "refresh")
  /\ client[c].got["refresh"] \notin honoured
  /\ Reply(c, "other")
  /\ UNCHANGED <<day, states, kv, minted, honoured, issued, spent, owner, expiry,
                 serial>>

\* The provider has rotated, but its answer times out.
RefreshLost(c) ==
  LET old == client[c].got["refresh"]
  IN /\ AtStep(c, "refresh")
     /\ old \in honoured
     /\ honoured' = honoured \ {old}
     /\ serial' = serial \ {client[c].op}
     /\ Reply(c, "other")
     /\ UNCHANGED <<day, states, kv, minted, issued, spent, owner, expiry>>

Earlier(a, b) == IF a < b THEN a ELSE b

(* storeTokens, the end of both.                                           *)

\* The day a value put now lapses; later days than the last are one.
Lapses(k) ==
  CASE k = "access" -> Earlier(day + AccessTtl, MaxDay + 1)
    [] k = "refresh" -> Earlier(day + RefreshTtl, MaxDay + 1)
    [] k = "expires" -> MaxDay + 1

\* Faulty: one set of keys for all operators, as before Sec-18.
PutShared(c, k) ==
  /\ AtStep(c, "store")
  /\ k \in client[c].due
  /\ kv' = [o \in Operators |-> [kv[o] EXCEPT ![k] =
       [value |-> client[c].got[k], until |-> Lapses(k)]]]
  /\ client' = [client EXCEPT ![c].due = @ \ {k}]
  /\ UNCHANGED <<day, states, minted, honoured, issued, spent, owner, expiry, serial>>

PutKey(c, k) ==
  /\ AtStep(c, "store")
  /\ k \in client[c].due
  /\ kv' = [kv EXCEPT ![client[c].op][k] =
       [value |-> client[c].got[k], until |-> Lapses(k)]]
  /\ client' = [client EXCEPT ![c].due = @ \ {k}]
  /\ UNCHANGED <<day, states, minted, honoured, issued, spent, owner, expiry, serial>>

\* The callback answers a page, the token call the new access token.
StoreDone(c) ==
  /\ AtStep(c, "store")
  /\ client[c].due = {}
  /\ Reply(c, "other")
  /\ UNCHANGED <<day, states, kv, minted, honoured, issued, spent, owner, expiry,
                 serial>>

\* A put that throws, or the request dies: the other puts may have been made.
StoreFails(c) ==
  /\ AtStep(c, "store")
  /\ client[c].due # {}
  /\ serial' = serial \ {client[c].op}
  /\ Reply(c, "other")
  /\ UNCHANGED <<day, states, kv, minted, honoured, issued, spent, owner, expiry>>

\* Step 4 of runScheduledPurge.
PurgeStates ==
  /\ states' = Pruned(day)
  /\ UNCHANGED <<day, kv, minted, honoured, client, issued, spent, owner, expiry,
                 serial>>

NextDay ==
  /\ day < MaxDay
  /\ day' = day + 1
  /\ UNCHANGED <<states, kv, minted, honoured, client, issued, spent, owner,
                 expiry, serial>>

AuthStep(c) ==
  \/ \E s \in StateIds : StartCallback(c, s)
  \/ ConsumeState(c)
  \/ RejectState(c)
  \/ ExchangeCode(c)
  \/ ExchangeFails(c)
  \/ \E o \in Operators : StartToken(c, o)
  \/ \E k \in Keys : ReadKey(c, k) \/ PutKey(c, k)
  \/ Decide(c)
  \/ Refresh(c)
  \/ RefreshRefused(c)
  \/ RefreshLost(c)
  \/ StoreDone(c)
  \/ StoreFails(c)

AuthNext ==
  \/ \E o \in Operators, s \in StateIds : IssueState(o, s)
  \/ \E c \in Clients : AuthStep(c)
  \/ PurgeStates
  \/ NextDay

AuthSpec == AuthInit /\ [][AuthNext]_authVars

-----------------------------------------------------------------------------

\* A state lets at most one callback through (linkedin.ts 303: strictly
\* single-use), however often and late the redirect is repeated.
StateUsedOnce == \A s \in StateIds : spent[s] <= 1

\* Tokens never cross operators: what an operator's keys hold, and what its
\* requests hold on their way, was minted for a callback whose state that
\* operator had drawn.
OperatorsIsolated ==
  /\ \A o \in Operators, k \in {"access", "refresh"} :
       kv[o][k].value # 0 => owner[kv[o][k].value] = o
  /\ \A c \in Clients, k \in {"access", "refresh"} :
       client[c].got[k] # 0 => owner[client[c].got[k]] = client[c].op

\* As long as the requests on an operator's tokens have not overlapped nor
\* failed half-way, the three keys agree between requests: the expiry is the
\* access token's, and the refresh token is one the provider will honour.
SerialTokensWhole ==
  \A o \in serial :
    LET access == kv[o]["access"].value
        refresh == kv[o]["refresh"].value
    IN (\A c \in Clients : ~Handling(c, o)) /\ access # 0 =>
         /\ kv[o]["expires"].value = expiry[access]
         /\ refresh # 0 => refresh \in honoured

\* Under the same condition a token is handed out unrefreshed only if it is
\* good for the length of the buffer.
SerialTokensFresh ==
  [][\A c \in Clients :
       AtStep(c, "read") /\ client'[c] = Done("served") /\ client[c].op \in serial =>
         expiry[client[c].got["access"]] >= day + Buffer]_authVars

=============================================================================
