-------------------------- MODULE ActivationSystem --------------------------
(***************************************************************************)
(* The activation subsystem: concurrent activate_signal requests, status   *)
(* polls, webhook deliveries and purge runs over the two D1 tables.  No    *)
(* statement of one request is ordered after one of another except by D1   *)
(* executing them one at a time.                                           *)
(***************************************************************************)
EXTENDS ActivateSignal, PollOperation, JobPurge

vars == <<storeVars, actVars, pollVars, purgeVars>>

Init == StoreInit /\ ActInit /\ PollInit /\ PurgeInit

ActivateNext ==
  /\ \/ \E a \in Activators : ActivateStep(a)
     \/ \E s \in Dynamic : SignalStep(s)
  /\ UNCHANGED <<pollVars, purgeVars>>

PollNext ==
  /\ (\E p \in Pollers : PollStep(p)) \/ Tick
  /\ UNCHANGED <<actVars, purgeVars>>

\* No request runs for thirty days.
JobAges ==
  /\ aged + 1 < nextOp
  /\ \A a \in Activators : actPc[a] \in {"insert", "log"} => actOp[a] # aged + 1
  /\ AgeJob

PurgeNext ==
  /\ (\E g \in Purgers : PurgeStep(g)) \/ JobAges
  /\ UNCHANGED <<actVars, pollVars>>

Next == ActivateNext \/ PollNext \/ PurgeNext

Spec == Init /\ [][Next]_vars

(***************************************************************************)
(* A Worker request that is not evicted runs to its end, a purge run too,  *)
(* and time passes.  A job advances only when it is polled, so what must   *)
(* eventually happen also assumes a client that keeps polling it, and the  *)
(* weekly cron that keeps starting purges (SelectDoomed).                  *)
(***************************************************************************)
PollFairness ==
  /\ \A p \in Pollers : WF_vars(PollProgress(p) /\ UNCHANGED <<actVars, purgeVars>>)
  /\ \A o \in Ops : SF_vars((\E p \in Pollers : PollRead(p, o))
                              /\ UNCHANGED <<actVars, purgeVars>>)
  /\ WF_vars(Tick /\ UNCHANGED <<actVars, purgeVars>>)

PurgeFairness ==
  \A g \in Purgers : WF_vars(PurgeProgress(g) /\ UNCHANGED <<actVars, pollVars>>)

FairSpec == Spec /\ PollFairness /\ PurgeFairness

-----------------------------------------------------------------------------

\* Every variable has its type.
TypeOK == StoreTypeOK /\ ActTypeOK /\ PollTypeOK /\ PurgeTypeOK

Minted(o) == origin[o] # None

\* No row has been inserted under this id yet, but one may be.
Awaited(o) ==
  o >= nextOp \/ \E a \in Activators : actPc[a] = "insert" /\ actOp[a] = o

\* Idempotency: a second operation is minted for a key only by a request
\* whose lookup ran before the first one's row was inserted, or after it was
\* purged.
DuplicatesOnlyFromRaces ==
  \A o, q \in Ops :
    /\ Minted(o)
    /\ Minted(q)
    /\ o # q
    /\ origin[o].key # None
    /\ origin[o].key = origin[q].key
    => o \notin sawAt[q]

\* What an answer says about a key already used is true of the request the
\* operation was minted for.
FaithfulTo(out, r) ==
  LET first == origin[out.op]
  IN /\ out.kind = "accepted" => first = r
     /\ out.kind = "replayed" =>
          /\ first.key = r.key
          /\ first.signal = r.signal
          /\ first.destination = r.destination
          /\ first.via = "mcp" /\ r.via = "mcp" => first.body = r.body
     /\ out.kind = "conflict" =>
          /\ first.key = r.key
          /\ first.body # r.body

\* A reused key is replayed only for the same signal, destination and (where
\* both requests came through MCP) body, and is a conflict only for another
\* body, although the row compared with may be any request's.
AnswersFaithful ==
  \A a \in Activators : actPc[a] = "idle" => FaithfulTo(actOut[a], actReq[a])

\* A generated proposal that is in the catalog or in the proposal cache
\* leaves them only by its TTL or the weekly purge, never because an
\* activation that was promoting it failed half way.
NoProposalLost ==
  [][\A s \in Dynamic :
       /\ s \in catalog \cup proposals
       /\ s \notin catalog' \cup proposals'
       => ExpireProposal(s) \/ PurgeSignal(s)]_vars

\* Whatever polls interleave, a job that shows as completed, has logged its
\* completion or has had its webhook touched keeps its completed_at, and
\* the audit log never shows a job further than its row has been.
LifecycleConsistent ==
  \A o \in Ops : Stored(o) =>
    /\ jobs[o].status = "completed" => jobs[o].completedAt
    /\ "completed" \in events[o] => jobs[o].completedAt
    /\ events[o] \cap {"working", "completed"} # {}
         => jobs[o].status # "submitted"
    /\ jobs[o].fired \/ jobs[o].attempts > 0 \/ tries[o] > 0
         => jobs[o].completedAt

\* The stored attempt count, an absolute write computed from a stale copy,
\* may fall behind the deliveries made but never runs ahead of them, so a
\* webhook is never given up before MaxAttempts deliveries.
AttemptsAccounted ==
  \A o \in Ops : Stored(o) =>
    /\ jobs[o].attempts <= tries[o]
    /\ jobs[o].attempts <= MaxAttempts

\* webhook_fired, the "don't retry" receipt, is set only on evidence that
\* the receiver accepted a delivery, or for a URL that can never be called.
FiredHasReason ==
  \A o \in Ops : Stored(o) /\ jobs[o].fired =>
    acks[o] > 0 \/ jobs[o].req.hook = "invalid"

\* As long as no statement fails, an accepted delivery is recorded or about
\* to be: no stale write of another poll undoes the receipt.
AckRecorded ==
  faults = 0 =>
    \A o \in Ops : Stored(o) /\ acks[o] > 0 =>
      jobs[o].fired \/ \E p \in Pollers : pollPc[p] = "mark" /\ pollOp[p] = o

\* What a client can know of an operation.  An id that was minted but is
\* neither stored nor about to be is closed.
Phase(o) ==
  CASE Stored(o) /\ jobs[o].completedAt -> "completed"
    [] Stored(o) /\ ~jobs[o].completedAt -> "accepted"
    [] ~Stored(o) /\ Awaited(o) -> "unknown"
    [] OTHER -> "closed"

\* What it was accepted for, and whether its webhook is done with.
Agreed(o) == IF Stored(o) THEN jobs[o].req ELSE None

Receipted(o) == Stored(o) /\ jobs[o].fired

Contract == INSTANCE ActivationContract WITH
  Operations <- Ops,
  Terms <- Columns,
  phase <- [o \in Ops |-> Phase(o)],
  terms <- [o \in Ops |-> Agreed(o)],
  receipt <- [o \in Ops |-> Receipted(o)],
  sent <- tries,
  heard <- [o \in Ops |-> acks[o] > 0]

\* The handlers, polls and purges together keep the contract of
\* ActivationContract: no stale write reverts a completion or a receipt,
\* changes what a job was accepted for or revives a purged job, and nothing is
\* delivered for a job that has not completed.
KeepsContract == Contract!ContractSpec

\* A job whose polls never overlapped is delivered as the retry policy says:
\* at most MaxAttempts deliveries, at most one accepted, and its status
\* never falls back once it has completed.
SerialDeliveries ==
  faults = 0 =>
    \A o \in Ops \ overlapped :
      /\ tries[o] <= MaxAttempts
      /\ acks[o] <= 1
      /\ Stored(o) /\ jobs[o].completedAt => jobs[o].status = "completed"

\* Every webhook is settled in the end: accepted, given up after MaxAttempts
\* attempts, or gone with its job.
Settled(o) ==
  Stored(o) /\ jobs[o].req.hook # "none" =>
    jobs[o].fired \/ jobs[o].attempts >= MaxAttempts

WebhookSettles == \A o \in Ops : <>[]Settled(o)

\* A job past retention is purged in the end, although a poll that logs an
\* event between the purge's two deletes makes the whole run fail.
AgedJobsGo == \A o \in Ops : (Stored(o) /\ o <= aged) ~> ~Stored(o)

-----------------------------------------------------------------------------
(* What the repository's comments promise and the code does not keep.      *)

\* migrations/0007: a request whose key was already accepted gets the
\* original response, "without re-processing".
OneJobPerKey ==
  \A o, q \in Ops :
    Stored(o) /\ Stored(q) /\ jobs[o].req.key # None
      /\ jobs[o].req.key = jobs[q].req.key
    => o = q

\* activationService: same key and a different body is never "a silent
\* replay of the original result".
NoSilentReplay ==
  \A a \in Activators :
    actPc[a] = "idle" /\ actOut[a].kind = "replayed"
    => origin[actOut[a].op].body = actReq[a].body

\* activationService: "Receiver gets at most this many delivery attempts
\* before we stop firing."
DeliveriesBounded == \A o \in Ops : tries[o] <= MaxAttempts

=============================================================================
