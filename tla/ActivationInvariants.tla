------------------------ MODULE ActivationInvariants ------------------------
(***************************************************************************)
(* The inductive strengthening of ActivationSystem's safety invariants:    *)
(* what the suspended requests know about the rows they will write, which  *)
(* is what makes the invariants survive every interleaving.                *)
(***************************************************************************)
EXTENDS ActivationSystem

\* What a request holds while it is suspended.
ActShape ==
  \A a \in Activators :
    /\ actPc[a] # "idle" => actReq[a] \in Requests
    /\ actPc[a] = "store" => actReq[a].data \in Signals
    /\ actPc[a] = "lookup" => actReq[a].key # None
    /\ actPc[a] \in {"insert", "log"} => actOp[a] \in Ops

PollShape ==
  \A p \in Pollers :
    pollPc[p] # "idle" => pollOp[p] \in Ops /\ pollRow[p] \in JobRow

TypeInv == TypeOK /\ ActShape /\ PollShape

-----------------------------------------------------------------------------
(* Operation ids.                                                          *)

\* No row, event, delivery or poll knows the id yet.
Fresh(o) ==
  /\ ~Stored(o)
  /\ events[o] = {}
  /\ tries[o] = 0
  /\ acks[o] = 0
  /\ \A p \in Pollers : ~InFlight(p, o)

\* An id is fresh until its row is inserted, so a purged id never returns.
FreshOps ==
  /\ \A o \in Ops : o >= nextOp => Fresh(o)
  /\ \A a \in Activators : actPc[a] = "insert" => Fresh(actOp[a])

Writing(a) == actPc[a] \in {"insert", "log"}

\* Every id belongs to one request, whose arguments its row holds.
OwnedOps ==
  /\ \A o \in Ops : Minted(o) => o < nextOp
  /\ \A a \in Activators : Writing(a) => Minted(actOp[a])
                                        /\ origin[actOp[a]] = actReq[a]
  /\ \A a, b \in Activators : Writing(a) /\ Writing(b) /\ a # b
                                => actOp[a] # actOp[b]
  /\ \A o \in Ops : Stored(o) => Minted(o)
                                 /\ jobs[o].req = ColumnsOf(origin[o])
  /\ \A q \in Ops : \A o \in sawAt[q] : o < nextOp

\* An answer that names an operation names a minted one.
AnsweredOps ==
  \A a \in Activators :
    actOut[a].kind \in {"accepted", "replayed", "conflict"}
    => actOut[a].op \in Ops /\ Minted(actOut[a].op)

IdemInv == /\ FreshOps
           /\ OwnedOps
           /\ AnsweredOps
           /\ DuplicatesOnlyFromRaces
           /\ AnswersFaithful

-----------------------------------------------------------------------------
(* Promotion.                                                              *)

\* Whoever is about to evict a proposal from the cache has promoted it, and it
\* is still in the catalog.
PromotedFirst ==
  \A a \in Activators : actPc[a] = "evict" => actReq[a].signal \in catalog

-----------------------------------------------------------------------------
(* Deliveries.                                                             *)

Delivering == {"post", "mark", "count", "retry"}

\* What a poll's stale copy still says about the row and its history.
PollClaim(p) ==
  pollPc[p] # "idle" =>
    /\ pollRow[p].attempts <= tries[pollOp[p]]
    /\ pollRow[p].attempts <= MaxAttempts
    /\ pollPc[p] \in Delivering => /\ pollRow[p].attempts < tries[pollOp[p]]
                                   /\ pollRow[p].attempts < MaxAttempts
    /\ pollPc[p] \in {"mark", "count"} => acks[pollOp[p]] > 0
    /\ Stored(pollOp[p]) =>
         /\ pollRow[p].req = jobs[pollOp[p]].req
         /\ pollPc[p] # "start" => jobs[pollOp[p]].status # "submitted"
         /\ pollPc[p] \in {"logCompleted", "gate"} \cup Delivering
              => jobs[pollOp[p]].completedAt

\* LifecycleConsistent, AttemptsAccounted and FiredHasReason of one job.
JobClaim(o) ==
  Stored(o) =>
    /\ jobs[o].status = "completed" => jobs[o].completedAt
    /\ "completed" \in events[o] => jobs[o].completedAt
    /\ events[o] \cap {"working", "completed"} # {}
         => jobs[o].status # "submitted"
    /\ jobs[o].fired \/ jobs[o].attempts > 0 \/ tries[o] > 0
         => jobs[o].completedAt
    /\ jobs[o].attempts <= tries[o]
    /\ jobs[o].attempts <= MaxAttempts
    /\ jobs[o].fired => acks[o] > 0 \/ jobs[o].req.hook = "invalid"

\* AckRecorded of one job.
AckClaim(o) ==
  Stored(o) /\ acks[o] > 0 =>
    jobs[o].fired \/ \E p \in Pollers : pollPc[p] = "mark" /\ pollOp[p] = o

DeliveryInv == /\ \A p \in Pollers : PollClaim(p)
               /\ \A o \in Ops : JobClaim(o)
               /\ faults = 0 => \A o \in Ops : AckClaim(o)

\* For a job whose polls never overlapped the copy is not stale at all.
SerialCopy(p) ==
  LET o == pollOp[p]
      row == pollRow[p]
  IN /\ tries[o] = row.attempts + (IF pollPc[p] \in Delivering THEN 1 ELSE 0)
     /\ pollPc[p] \in {"mark", "count"} => acks[o] = 1
     /\ pollPc[p] \in {"post", "retry"} => acks[o] = 0
     /\ acks[o] > 0 => row.fired \/ pollPc[p] \in {"mark", "count"}
     /\ Stored(o) =>
          /\ jobs[o].attempts = row.attempts
          /\ jobs[o].fired <=> (row.fired \/ pollPc[p] = "count")
          /\ pollPc[p] \in {"start", "logWorking", "finish"}
               => ~jobs[o].completedAt

\* Nobody polls it: the row tells the whole history.
SerialRest(o) ==
  /\ tries[o] = jobs[o].attempts
  /\ acks[o] > 0 => jobs[o].fired

SerialJob(o) ==
  /\ tries[o] <= MaxAttempts
  /\ acks[o] <= 1
  /\ Stored(o) /\ jobs[o].completedAt => jobs[o].status = "completed"
  /\ \A p, q \in Pollers : InFlight(p, o) /\ InFlight(q, o) => p = q
  /\ \A p \in Pollers : InFlight(p, o) => SerialCopy(p)
  /\ Stored(o) /\ (\A p \in Pollers : ~InFlight(p, o)) => SerialRest(o)

SerialInv == faults = 0 => \A o \in Ops \ overlapped : SerialJob(o)

=============================================================================
