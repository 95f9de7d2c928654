--------------------------- MODULE ActivateSignal ---------------------------
(***************************************************************************)
(* activate_signal, from its two entrances (MCP tool and REST route) down  *)
(* to the job row: resolve the signal (D1 catalog, caller-supplied         *)
(* proposal, KV proposal cache), check that it can be activated, enforce   *)
(* the idempotency key, insert the job, log the first event.  Each action  *)
(* runs from one await to the next, so requests interleave exactly where   *)
(* the code suspends.                                                      *)
(***************************************************************************)
EXTENDS ActivationStore

CONSTANTS
  Activators,  \* request slots: requests that can be in flight at once
  Requests,    \* the activation requests clients send
  Supported,   \* signals whose activation_supported is set
  Dynamic      \* signals generated from a brief; the others are seeded

\* via: the entrance; body: the raw arguments; data: the id of the signal
\* the REST body carries as proposalData, if any (the MCP handler never
\* passes it on).  Nothing checks that it is the id being activated.
Request == [via : {"mcp", "rest"}, key : Keys \cup {None}, signal : Signals,
            destination : Destinations, hook : Hooks, body : Bodies,
            data : Signals \cup {None}]

\* The raw arguments determine the fields read from them.
ASSUME RequestAssumption ==
  /\ Requests \subseteq Request
  /\ None \notin Requests
  /\ None \notin Signals
  /\ Supported \subseteq Signals
  /\ Dynamic \subseteq Signals
  /\ \A r \in Requests : r.data # None => r.via = "rest"
  /\ \A r, s \in Requests : r.body = s.body =>
        /\ r.key = s.key
        /\ r.signal = s.signal
        /\ r.destination = s.destination

VARIABLES
  catalog,    \* signals in the D1 signals table
  proposals,  \* signals in the KV proposal cache
  nextOp,     \* the next operation id
  actPc,      \* where each request is suspended
  actReq,     \* its request
  actOp,      \* the operation id it minted
  actOut,     \* what the slot's last request answered
  \* History, read by properties only:
  origin,     \* the request each operation id was minted for
  sawAt       \* the job ids stored when that request looked its key up

actVars == <<catalog, proposals, nextOp, actPc, actReq, actOp, actOut,
             origin, sawAt>>

ActPcs == {"idle", "cache", "store", "promote", "evict", "lookup", "insert",
           "log"}

Outcomes == {"none", "accepted", "replayed", "conflict", "not_found",
             "unsupported", "failed"}

ActTypeOK ==
  /\ catalog \in SUBSET Signals
  /\ proposals \in SUBSET Signals
  /\ nextOp \in Nat \ {0}
  /\ actPc \in [Activators -> ActPcs]
  /\ actReq \in [Activators -> Requests \cup {None}]
  /\ actOp \in [Activators -> Ops \cup {0}]
  /\ actOut \in [Activators -> [kind : Outcomes, op : Ops \cup {0}]]
  /\ origin \in [Ops -> Requests \cup {None}]
  /\ sawAt \in [Ops -> SUBSET Ops]

\* A seeded catalog, and nothing searched for yet.
ActInit ==
  /\ catalog = Signals \ Dynamic
  /\ proposals = {}
  /\ nextOp = 1
  /\ actPc = [a \in Activators |-> "idle"]
  /\ actReq = [a \in Activators |-> None]
  /\ actOp = [a \in Activators |-> 0]
  /\ actOut = [a \in Activators |-> [kind |-> "none", op |-> 0]]
  /\ origin = [o \in Ops |-> None]
  /\ sawAt = [o \in Ops |-> {}]

-----------------------------------------------------------------------------

\* The request fingerprint: computed by the MCP handler only, and only for a
\* request with a key.
Fingerprint(r) == IF r.via = "mcp" /\ r.key # None THEN r.body ELSE None

ColumnsOf(r) == [key |-> r.key, print |-> Fingerprint(r), signal |-> r.signal,
                 destination |-> r.destination, hook |-> r.hook]

\* Faulty: the fingerprints are never compared.
TargetMatches(cols, r) ==
  cols.signal = r.signal /\ cols.destination = r.destination

\* Replay or conflict: fingerprints decide when both sides have one, the
\* stored signal and destination otherwise.
BodyMatches(cols, r) ==
  IF cols.print # None /\ Fingerprint(r) # None
  THEN cols.print = Fingerprint(r)
  ELSE cols.signal = r.signal /\ cols.destination = r.destination

\* Faulty: rows without a fingerprint are not looked at.
PrintedRowsWithKey(k) ==
  {o \in Ops : Stored(o) /\ jobs[o].req.key = k /\ jobs[o].req.print # None}

\* The rows a key lookup selects: by key alone, whatever they activate.
RowsWithKey(k) == {o \in Ops : Stored(o) /\ jobs[o].req.key = k}

\* ORDER BY submitted_at ASC LIMIT 1.
IsOriginal(o, k) == o \in RowsWithKey(k) /\ \A q \in RowsWithKey(k) : o <= q

Goto(a, pc) == actPc' = [actPc EXCEPT ![a] = pc]

Answer(a, kind, o) ==
  /\ Goto(a, "idle")
  /\ actOut' = [actOut EXCEPT ![a] = [kind |-> kind, op |-> o]]

\* operationId() and the submittedAt reading (bound: MaxOps of them).
Mint(a, r) ==
  /\ nextOp \in Ops
  /\ nextOp' = nextOp + 1
  /\ actOp' = [actOp EXCEPT ![a] = nextOp]
  /\ origin' = [origin EXCEPT ![nextOp] = r]
  /\ sawAt' = [sawAt EXCEPT ![nextOp] = {o \in Ops : Stored(o)}]

\* The code between resolving the request to signal s and the next await:
\* the activation_supported check, then the key lookup or, without a key,
\* the INSERT.
Resolved(a, r, s) ==
  \/ /\ s \notin Supported
     /\ Answer(a, "unsupported", 0)
     /\ UNCHANGED <<nextOp, actOp, origin, sawAt>>
  \/ /\ s \in Supported
     /\ r.key # None
     /\ Goto(a, "lookup")
     /\ UNCHANGED <<nextOp, actOp, actOut, origin, sawAt>>
  \/ /\ s \in Supported
     /\ r.key = None
     /\ Mint(a, r)
     /\ Goto(a, "insert")
     /\ UNCHANGED actOut

\* A request arrives; its first statement looks the signal up in D1.
Receive(a, r) ==
  /\ actPc[a] = "idle"
  /\ actReq' = [actReq EXCEPT ![a] = r]
  /\ \/ /\ r.signal \in catalog
        /\ Resolved(a, r, r.signal)
     \/ /\ r.signal \notin catalog
        /\ Goto(a, IF r.data # None THEN "store" ELSE "cache")
        /\ UNCHANGED <<nextOp, actOp, actOut, origin, sawAt>>
  /\ UNCHANGED <<storeVars, catalog, proposals>>

\* The caller's own proposalData goes straight into the catalog.
StoreCallerProposal(a) ==
  /\ actPc[a] = "store"
  /\ catalog' = catalog \cup {actReq[a].data}
  /\ Resolved(a, actReq[a], actReq[a].data)
  /\ UNCHANGED <<storeVars, proposals, actReq>>

\* Faulty: the proposal is evicted as it is read, before it is promoted.
TakeProposal(a) ==
  /\ actPc[a] = "cache"
  /\ \/ /\ actReq[a].signal \in proposals
        /\ proposals' = proposals \ {actReq[a].signal}
        /\ Goto(a, "promote")
        /\ UNCHANGED actOut
     \/ /\ actReq[a].signal \notin proposals
        /\ Answer(a, "not_found", 0)
        /\ UNCHANGED proposals
  /\ UNCHANGED <<storeVars, catalog, nextOp, actReq, actOp, origin, sawAt>>

\* The KV read of the proposal cache; a miss is NotFoundError.
ReadProposal(a) ==
  /\ actPc[a] = "cache"
  /\ \/ /\ actReq[a].signal \in proposals
        /\ Goto(a, "promote")
        /\ UNCHANGED actOut
     \/ /\ actReq[a].signal \notin proposals
        /\ Answer(a, "not_found", 0)
  /\ UNCHANGED <<storeVars, catalog, proposals, nextOp, actReq, actOp,
                 origin, sawAt>>

PromoteProposal(a) ==
  /\ actPc[a] = "promote"
  /\ catalog' = catalog \cup {actReq[a].signal}
  /\ Goto(a, "evict")
  /\ UNCHANGED <<storeVars, proposals, nextOp, actReq, actOp, actOut,
                 origin, sawAt>>

\* deleteProposal is best effort: its failure is swallowed and the request
\* goes on.
EvictProposal(a) ==
  /\ actPc[a] = "evict"
  /\ \/ proposals' = proposals \ {actReq[a].signal}
     \/ UNCHANGED proposals
  /\ Resolved(a, actReq[a], actReq[a].signal)
  /\ UNCHANGED <<storeVars, catalog, actReq>>

LookupMiss(a) ==
  /\ actPc[a] = "lookup"
  /\ RowsWithKey(actReq[a].key) = {}
  /\ Mint(a, actReq[a])
  /\ Goto(a, "insert")
  /\ UNCHANGED <<storeVars, catalog, proposals, actReq, actOut>>

LookupReplay(a) ==
  /\ actPc[a] = "lookup"
  /\ \E o \in Ops :
        /\ IsOriginal(o, actReq[a].key)
        /\ BodyMatches(jobs[o].req, actReq[a])
        /\ Answer(a, "replayed", o)
  /\ UNCHANGED <<storeVars, catalog, proposals, nextOp, actReq, actOp,
                 origin, sawAt>>

LookupConflict(a) ==
  /\ actPc[a] = "lookup"
  /\ \E o \in Ops :
        /\ IsOriginal(o, actReq[a].key)
        /\ ~BodyMatches(jobs[o].req, actReq[a])
        /\ Answer(a, "conflict", o)
  /\ UNCHANGED <<storeVars, catalog, proposals, nextOp, actReq, actOp,
                 origin, sawAt>>

Insert(a) ==
  /\ actPc[a] = "insert"
  /\ InsertJob(actOp[a], ColumnsOf(actReq[a]))
  /\ Goto(a, "log")
  /\ UNCHANGED <<events, faults, catalog, proposals, nextOp, actReq, actOp,
                 actOut, origin, sawAt>>

LogSubmitted(a) ==
  /\ actPc[a] = "log"
  /\ AppendEvent(actOp[a], "submitted")
  /\ Answer(a, "accepted", actOp[a])
  /\ UNCHANGED <<jobs, faults, catalog, proposals, nextOp, actReq, actOp,
                 origin, sawAt>>

\* A statement throws or the isolate dies: whatever was written stays, and
\* the client gets an error or no answer at all.
AbortActivate(a) ==
  /\ actPc[a] # "idle"
  /\ Fault
  /\ Answer(a, "failed", 0)
  /\ UNCHANGED <<jobs, events, catalog, proposals, nextOp, actReq, actOp,
                 origin, sawAt>>

-----------------------------------------------------------------------------
(* The rest of the system, as far as signals are concerned.                *)

\* A search caches a generated proposal.
CacheProposal(s) ==
  /\ s \in Dynamic
  /\ proposals' = proposals \cup {s}
  /\ UNCHANGED <<storeVars, catalog, nextOp, actPc, actReq, actOp, actOut,
                 origin, sawAt>>

\* The one-hour TTL of the cached proposal runs out.
ExpireProposal(s) ==
  /\ s \in proposals
  /\ proposals' = proposals \ {s}
  /\ UNCHANGED <<storeVars, catalog, nextOp, actPc, actReq, actOp, actOut,
                 origin, sawAt>>

\* The weekly purge removes a dynamic signal that is a week old, so not one
\* that a running request has just promoted.
PurgeSignal(s) ==
  /\ s \in catalog \cap Dynamic
  /\ \A a \in Activators : ~(actPc[a] = "evict" /\ actReq[a].signal = s)
  /\ catalog' = catalog \ {s}
  /\ UNCHANGED <<storeVars, proposals, nextOp, actPc, actReq, actOp, actOut,
                 origin, sawAt>>

ActivateStep(a) ==
  \/ \E r \in Requests : Receive(a, r)
  \/ StoreCallerProposal(a)
  \/ ReadProposal(a)
  \/ PromoteProposal(a)
  \/ EvictProposal(a)
  \/ LookupMiss(a)
  \/ LookupReplay(a)
  \/ LookupConflict(a)
  \/ Insert(a)
  \/ LogSubmitted(a)
  \/ AbortActivate(a)

SignalStep(s) == CacheProposal(s) \/ ExpireProposal(s) \/ PurgeSignal(s)

=============================================================================
