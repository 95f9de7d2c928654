--------------------------- MODULE DeliveryProofs ---------------------------
(***************************************************************************)
(* Proofs about polls and webhook deliveries, for any number of polls of   *)
(* one job running at the same time, and the proof that the whole          *)
(* activation system implements the contract of an operation.              *)
(***************************************************************************)
EXTENDS ActivationProofs

LEMMA DeliveryInvMeans ==
  DeliveryInv => /\ LifecycleConsistent
                 /\ AttemptsAccounted
                 /\ FiredHasReason
                 /\ AckRecorded
BY DEF DeliveryInv, JobClaim, AckClaim, LifecycleConsistent, AttemptsAccounted,
   FiredHasReason, AckRecorded

LEMMA DeliveryInit == Init => DeliveryInv
BY StoreAssumption DEF Init, StoreInit, PollInit, DeliveryInv, PollClaim,
   JobClaim, AckClaim, Stored

-----------------------------------------------------------------------------
(* Steps of activations and purges.                                        *)

\* The row is a job's first: no poll can have read it.
NewRow(o) ==
  /\ Fresh(o)
  /\ events'[o] = {}
  /\ jobs'[o].status = "submitted"
  /\ ~jobs'[o].completedAt
  /\ ~jobs'[o].fired
  /\ jobs'[o].attempts = 0

\* Rows come into being as new rows or are left alone or removed.
ElsewhereStep ==
  /\ UNCHANGED pollVars
  /\ faults' = 0 => faults = 0
  /\ \A o \in Ops : events'[o] \cap {"working", "completed"} \subseteq events[o]
  /\ \A o \in Ops : Stored(o)' => jobs'[o] = jobs[o] \/ NewRow(o)

LEMMA DeliveryElsewhere ==
  ASSUME TypeInv, DeliveryInv, ElsewhereStep
  PROVE  DeliveryInv'
<1> USE DEF DeliveryInv, ElsewhereStep
<1>1. UNCHANGED <<clock, pollPc, pollOp, pollRow, tries, acks, overlapped>>
  BY DEF pollVars
<1>2. ASSUME NEW p \in Pollers
      PROVE  PollClaim(p)'
  <2>1. CASE pollPc[p] = "idle"
    BY <1>1, <2>1 DEF PollClaim
  <2>2. CASE pollPc[p] # "idle"
    <3>1. pollOp[p] \in Ops /\ InFlight(p, pollOp[p])
      BY <2>2 DEF TypeInv, PollShape, InFlight
    <3>2. Stored(pollOp[p])' => jobs'[pollOp[p]] = jobs[pollOp[p]] /\ Stored(pollOp[p])
      BY <1>1, <3>1 DEF NewRow, Fresh, Stored
    <3> QED
      BY <1>1, <2>2, <3>2 DEF PollClaim
  <2> QED
    BY <2>1, <2>2
<1>3. ASSUME NEW o \in Ops
      PROVE  JobClaim(o)'
  <2>1. CASE NewRow(o)
    BY <1>1, <2>1, PollAssumption DEF JobClaim, NewRow, Fresh
  <2>2. CASE jobs'[o] = jobs[o] /\ Stored(o)
    BY <1>1, <2>2 DEF JobClaim
  <2>3. CASE ~Stored(o)'
    BY <2>3 DEF JobClaim
  <2> QED
    BY <2>1, <2>2, <2>3 DEF Stored
<1>4. ASSUME NEW o \in Ops, faults' = 0
      PROVE  AckClaim(o)'
  <2>1. CASE NewRow(o)
    BY <1>1, <2>1 DEF AckClaim, NewRow, Fresh
  <2>2. CASE jobs'[o] = jobs[o] /\ Stored(o)
    BY <1>1, <1>4, <2>2 DEF AckClaim
  <2>3. CASE ~Stored(o)'
    BY <2>3 DEF AckClaim
  <2> QED
    BY <2>1, <2>2, <2>3 DEF Stored
<1> QED
  BY <1>2, <1>3, <1>4

LEMMA ActivateElsewhere ==
  ASSUME TypeInv, IdemInv, ActivateNext
  PROVE  ElsewhereStep
<1> USE DEF TypeInv, TypeOK
<1>1. UNCHANGED pollVars
  BY DEF ActivateNext
<1>2. ASSUME NEW s \in Dynamic, SignalStep(s)
      PROVE  ElsewhereStep
  BY <1>1, <1>2 DEF SignalStep, CacheProposal, ExpireProposal, PurgeSignal,
     storeVars, ElsewhereStep
<1>3. ASSUME NEW a \in Activators, ActivateStep(a)
      PROVE  ElsewhereStep
  <2>1. CASE Insert(a)
    <3>1. actOp[a] \in Ops /\ actReq[a] \in Requests /\ Fresh(actOp[a])
      BY <2>1 DEF Insert, ActShape, IdemInv, FreshOps
    <3>2. UNCHANGED <<events, faults>>
      BY <2>1 DEF Insert
    <3>3. NewRow(actOp[a])
      BY <2>1, <3>1, <3>2, InsertEffect DEF Insert, NewRow, Fresh
    <3>4. \A o \in Ops : o # actOp[a] => jobs'[o] = jobs[o]
      BY <2>1, <3>1, InsertEffect DEF Insert
    <3> QED
      BY <1>1, <3>2, <3>3, <3>4 DEF ElsewhereStep
  <2>2. CASE LogSubmitted(a)
    BY <1>1, <2>2 DEF LogSubmitted, AppendEvent, ElsewhereStep, StoreTypeOK
  <2>3. CASE AbortActivate(a)
    BY <1>1, <2>3 DEF AbortActivate, Fault, ElsewhereStep, StoreTypeOK
  <2>4. CASE UNCHANGED storeVars
    BY <1>1, <2>4 DEF storeVars, ElsewhereStep
  <2> QED
    BY <1>3, <2>1, <2>2, <2>3, <2>4 DEF ActivateStep, Receive,
       StoreCallerProposal, ReadProposal, PromoteProposal, EvictProposal,
       LookupMiss, LookupReplay, LookupConflict
<1> QED
  BY <1>2, <1>3 DEF ActivateNext

LEMMA PurgeElsewhere ==
  ASSUME TypeInv, PurgeNext
  PROVE  ElsewhereStep
<1>1. /\ \A o \in Ops : jobs'[o] \in {jobs[o], None}
      /\ \A o \in Ops : events'[o] \in {events[o], {}}
      /\ faults' = 0 => faults = 0
  BY StoreAssumption DEF TypeInv, TypeOK, PurgeNext, PurgeStep, PurgeProgress,
     SelectDoomed, DeleteEvents, DeleteJobs, AbortPurge, Fault, JobAges, AgeJob,
     storeVars, StoreTypeOK
<1> QED
  BY <1>1 DEF PurgeNext, ElsewhereStep, Stored

-----------------------------------------------------------------------------
(* Steps of a poll.                                                        *)

\* What every step of poll p after its read leaves alone, and never undoes.
ActsOnOwnJob(p) ==
  /\ pollPc[p] # "idle"
  /\ \A q \in Pollers \ {p} : pollPc'[q] = pollPc[q]
  /\ UNCHANGED <<pollOp, pollRow>>
  /\ jobs' = jobs \/ OnlyTouches(pollOp[p])
  /\ \A o \in Ops \ {pollOp[p]} : /\ events'[o] = events[o]
                                   /\ tries'[o] = tries[o]
                                   /\ acks'[o] = acks[o]
  /\ tries'[pollOp[p]] >= tries[pollOp[p]]
  /\ acks'[pollOp[p]] >= acks[pollOp[p]]
  /\ Stored(pollOp[p]) =>
       /\ jobs[pollOp[p]].status # "submitted" => jobs'[pollOp[p]].status # "submitted"
       /\ jobs[pollOp[p]].completedAt => jobs'[pollOp[p]].completedAt
  /\ faults' = 0 => faults = 0

\* So only the acting poll and its job need looking at.
LEMMA PollFrame ==
  ASSUME TypeInv, TypeInv', DeliveryInv, NEW p \in Pollers, ActsOnOwnJob(p),
         PollClaim(p)', JobClaim(pollOp[p])', faults' = 0 => AckClaim(pollOp[p])'
  PROVE  DeliveryInv'
<1> USE DEF ActsOnOwnJob
<1> DEFINE o == pollOp[p]
<1>1. /\ o \in Ops
      /\ o' = o
      /\ tries[o] \in Nat /\ tries'[o] >= tries[o]
      /\ acks[o] \in Nat /\ acks'[o] >= acks[o]
  BY DEF TypeInv, TypeOK, PollShape, PollTypeOK
<1>2. \A q \in Ops \ {o} : jobs'[q] = jobs[q]
  BY DEF OnlyTouches
<1>3. \A q \in Ops : Stored(q)' => Stored(q) /\ jobs'[q].req = jobs[q].req
  BY DEF OnlyTouches, Stored
<1>4. ASSUME NEW q \in Pollers, q # p
      PROVE  PollClaim(q)'
  <2>1. PollClaim(q)
    BY DEF DeliveryInv
  <2>2. CASE pollPc[q] = "idle"
    BY <1>4, <2>2 DEF PollClaim
  <2>3. CASE pollPc[q] # "idle" /\ pollOp[q] # o
    <3>1. pollOp[q] \in Ops
      BY <2>3 DEF TypeInv, PollShape
    <3>2. pollPc'[q] = pollPc[q] /\ jobs'[pollOp[q]] = jobs[pollOp[q]]
      BY <1>2, <1>4, <2>3, <3>1
    <3> QED
      BY <2>1, <2>3, <3>1, <3>2 DEF PollClaim, Stored
  <2>4. CASE pollPc[q] # "idle" /\ pollOp[q] = o
    <3>1. pollRow[q] \in JobRow /\ pollRow[q].attempts \in Nat
      BY <2>4, RowFields DEF TypeInv, PollShape
    <3>2. pollPc'[q] = pollPc[q]
      BY <1>4
    <3>3. /\ pollRow[q].attempts <= tries'[o]
          /\ pollPc[q] \in Delivering => pollRow[q].attempts < tries'[o]
          /\ pollPc[q] \in {"mark", "count"} => acks'[o] > 0
      <4>1. tries'[o] \in Nat /\ acks'[o] \in Nat
        BY <1>1 DEF TypeInv, TypeOK, PollTypeOK
      <4> QED
        BY <1>1, <2>1, <2>4, <3>1, <4>1 DEF PollClaim
    <3> QED
      BY <1>1, <1>3, <2>1, <2>4, <3>2, <3>3 DEF PollClaim
  <2> QED
    BY <2>2, <2>3, <2>4
<1>5. ASSUME NEW q \in Ops, q # o
      PROVE  JobClaim(q)'
  BY <1>2, <1>5 DEF DeliveryInv, JobClaim, Stored
<1>6. ASSUME NEW q \in Ops, q # o, faults' = 0
      PROVE  AckClaim(q)'
  <2>1. AckClaim(q) /\ jobs'[q] = jobs[q] /\ acks'[q] = acks[q]
    BY <1>2, <1>6 DEF DeliveryInv
  <2>2. \A r \in Pollers : pollPc[r] = "mark" /\ pollOp[r] = q
                            => pollPc'[r] = "mark" /\ pollOp'[r] = q
    BY <1>6
  <2> QED
    BY <2>1, <2>2 DEF AckClaim, Stored
<1>7. JobClaim(o)' /\ (faults' = 0 => AckClaim(o)')
  OBVIOUS
<1>8. \A q \in Ops : JobClaim(q)'
  BY <1>1, <1>5, <1>7 DEF JobClaim, Stored
<1>9. faults' = 0 => \A q \in Ops : AckClaim(q)'
  BY <1>1, <1>6, <1>7 DEF AckClaim, Stored
<1> QED
  BY <1>4, <1>8, <1>9 DEF DeliveryInv

\* The types a step of poll p relies on.
LEMMA PollTypes ==
  ASSUME TypeInv, NEW p \in Pollers, pollPc[p] # "idle"
  PROVE  /\ pollOp[p] \in Ops
         /\ pollRow[p] \in JobRow
         /\ pollRow[p].attempts \in Nat
         /\ tries[pollOp[p]] \in Nat
         /\ acks[pollOp[p]] \in Nat
         /\ Stored(pollOp[p]) => jobs[pollOp[p]].attempts \in Nat
         /\ StoreTypeOK
<1>1. pollOp[p] \in Ops /\ pollRow[p] \in JobRow
  BY DEF TypeInv, PollShape
<1>2. Stored(pollOp[p]) => jobs[pollOp[p]] \in JobRow
  BY <1>1 DEF TypeInv, TypeOK, StoreTypeOK, Stored
<1> QED
  BY <1>1, <1>2, RowFields DEF TypeInv, TypeOK, PollTypeOK

LEMMA DeliveryRead ==
  ASSUME TypeInv, TypeInv', DeliveryInv, NEW p \in Pollers, NEW o \in Ops,
         PollRead(p, o)
  PROVE  DeliveryInv'
<1>1. /\ Stored(o)
      /\ UNCHANGED <<jobs, events, faults, tries, acks>>
      /\ pollPc[p] = "idle"
      /\ pollPc'[p] = FirstStep[jobs[o].status]
      /\ pollOp'[p] = o
      /\ pollRow'[p] = jobs[o]
      /\ \A q \in Pollers \ {p} : /\ pollPc'[q] = pollPc[q]
                                  /\ pollOp'[q] = pollOp[q]
                                  /\ pollRow'[q] = pollRow[q]
  BY DEF PollRead, PollGoto, storeVars, TypeInv, TypeOK, PollTypeOK
<1>2. jobs[o] \in JobRow /\ jobs[o].status \in Statuses
  BY <1>1, RowFields DEF TypeInv, TypeOK, StoreTypeOK, Stored
<1>3. JobClaim(o)
  BY DEF DeliveryInv
<1>4. PollClaim(p)'
  <2>1. /\ pollPc'[p] \notin Delivering \cup {"mark", "count", "logCompleted"}
        /\ pollPc'[p] # "start" => jobs[o].status # "submitted"
        /\ pollPc'[p] = "gate" => jobs[o].status = "completed"
    BY <1>1, <1>2 DEF FirstStep, Statuses, Delivering
  <2> QED
    BY <1>1, <1>3, <2>1 DEF PollClaim, JobClaim
<1>5. ASSUME NEW q \in Pollers, q # p
      PROVE  PollClaim(q)'
  BY <1>1, <1>5 DEF DeliveryInv, PollClaim, Stored
<1>6. ASSUME NEW q \in Ops
      PROVE  JobClaim(q)' /\ (faults' = 0 => AckClaim(q)')
  BY <1>1, <1>6 DEF DeliveryInv, JobClaim, AckClaim, Stored
<1> QED
  BY <1>4, <1>5, <1>6 DEF DeliveryInv

LEMMA DeliveryPoll ==
  ASSUME TypeInv, TypeInv', DeliveryInv, NEW p \in Pollers, PollStep(p)
  PROVE  DeliveryInv'
<1> DEFINE o == pollOp[p]
<1> USE DEF PollGoto
<1>1. ASSUME NEW q \in Ops, PollRead(p, q)
      PROVE  DeliveryInv'
  BY <1>1, DeliveryRead
<1> SUFFICES ASSUME PollProgress(p) \/ CatchStatement(p) \/ AbortPoll(p)
             PROVE  DeliveryInv'
  BY <1>1 DEF PollStep
<1>2. /\ pollPc[p] # "idle"
      /\ pollPc' = [pollPc EXCEPT ![p] = pollPc'[p]]
      /\ pollPc \in [Pollers -> PollPcs]
      /\ UNCHANGED <<pollOp, pollRow>>
  BY DEF PollProgress, SetWorking, LogWorking, SetCompleted, LogCompleted,
     LogOnPurgedJob, SkipDelivery, RejectUrl, StartDelivery, DeliveryAccepted,
     DeliveryFailed, MarkFired, CountSuccess, ScheduleRetry, CatchStatement,
     AbortPoll, TypeInv, TypeOK, PollTypeOK
<1>3. /\ PollClaim(p)
      /\ JobClaim(o)
      /\ faults = 0 => AckClaim(o)
      /\ o \in Ops
  BY <1>2, PollTypes DEF DeliveryInv
<1>4. \A q \in Pollers \ {p} : pollPc'[q] = pollPc[q]
  BY <1>2
<1> SUFFICES /\ ActsOnOwnJob(p)
             /\ PollClaim(p)'
             /\ JobClaim(o)'
             /\ faults' = 0 => AckClaim(o)'
  BY PollFrame
<1>5. CASE SetWorking(p) \/ SetCompleted(p)
  <2>1. /\ OnlyTouches(o)
        /\ Stored(o) => /\ jobs'[o].status \in {"working", "completed"}
                        /\ jobs'[o].status = "completed" => jobs'[o].completedAt
                        /\ jobs[o].completedAt => jobs'[o].completedAt
                        /\ SetCompleted(p) => jobs'[o].completedAt
                        /\ jobs'[o].fired = jobs[o].fired
                        /\ jobs'[o].attempts = jobs[o].attempts
                        /\ jobs'[o].req = jobs[o].req
        /\ Stored(o)' <=> Stored(o)
    BY <1>2, <1>5, PollTypes, UpdateStatusEffect
    DEF SetWorking, SetCompleted, Statuses, OnlyTouches
  <2>2. /\ UNCHANGED <<events, faults, tries, acks, pollOp, pollRow>>
        /\ pollPc'[p] = IF SetWorking(p) THEN "logWorking" ELSE "logCompleted"
    BY <1>2, <1>5 DEF SetWorking, SetCompleted
  <2>3. pollPc[p] \in {"start", "finish"}
    BY <1>5 DEF SetWorking, SetCompleted
  <2>4. ActsOnOwnJob(p)
    BY <1>2, <1>4, <2>1, <2>2, PollTypes DEF ActsOnOwnJob
  <2>5. PollClaim(p)'
    BY <1>3, <1>5, <2>1, <2>2, <2>3 DEF PollClaim, Delivering
  <2>6. JobClaim(o)' /\ (faults' = 0 => AckClaim(o)')
    <3>1. JobClaim(o)'
      BY <1>3, <2>1, <2>2 DEF JobClaim
    <3>2. \A q \in Pollers : pollPc[q] = "mark" /\ pollOp[q] = o
                              => pollPc'[q] = "mark" /\ pollOp'[q] = o
      BY <1>2, <1>4, <2>3
    <3> QED
      BY <1>3, <2>1, <2>2, <3>1, <3>2 DEF AckClaim
  <2> QED
    BY <2>4, <2>5, <2>6
<1>6. CASE LogWorking(p) \/ LogCompleted(p)
  <2>1. /\ UNCHANGED <<jobs, faults, tries, acks, pollOp, pollRow>>
        /\ Stored(o)
        /\ events' = [events EXCEPT ![o] = @ \cup
                        {IF LogWorking(p) THEN "working" ELSE "completed"}]
        /\ pollPc[p] = IF LogWorking(p) THEN "logWorking" ELSE "logCompleted"
        /\ pollPc'[p] = IF LogWorking(p) THEN "finish" ELSE "gate"
    BY <1>2, <1>6 DEF LogWorking, LogCompleted, AppendEvent
  <2>2. ActsOnOwnJob(p)
    BY <1>2, <1>4, <2>1, PollTypes DEF ActsOnOwnJob
  <2>3. PollClaim(p)'
    BY <1>2, <1>3, <2>1 DEF PollClaim, Delivering, Stored
  <2>4. JobClaim(o)'
    <3>1. events'[o] \subseteq events[o] \cup
            {IF LogWorking(p) THEN "working" ELSE "completed"}
      BY <1>3, <2>1 DEF TypeInv, TypeOK, StoreTypeOK
    <3> QED
      BY <1>2, <1>3, <2>1, <3>1 DEF PollClaim, JobClaim, Stored
  <2>5. faults' = 0 => AckClaim(o)'
    BY <1>2, <1>3, <1>4, <2>1 DEF AckClaim, Stored
  <2> QED
    BY <2>2, <2>3, <2>4, <2>5
<1>7. CASE LogOnPurgedJob(p) \/ SkipDelivery(p)
  <2>1. /\ UNCHANGED <<jobs, events, faults, tries, acks, pollOp, pollRow>>
        /\ pollPc[p] # "mark" /\ pollPc'[p] = "idle"
    BY <1>2, <1>7 DEF LogOnPurgedJob, SkipDelivery, storeVars
  <2>2. ActsOnOwnJob(p)
    BY <1>2, <1>4, <2>1, PollTypes DEF ActsOnOwnJob
  <2>3. PollClaim(p)' /\ JobClaim(o)' /\ (faults' = 0 => AckClaim(o)')
    BY <1>2, <1>3, <1>4, <2>1 DEF PollClaim, JobClaim, AckClaim, Stored
  <2> QED
    BY <2>2, <2>3
<1>8. CASE RejectUrl(p) \/ MarkFired(p)
  <2>1. /\ OnlyTouches(o)
        /\ Stored(o) => /\ jobs'[o].fired
                        /\ jobs'[o].status = jobs[o].status
                        /\ jobs'[o].completedAt = jobs[o].completedAt
                        /\ jobs'[o].attempts = jobs[o].attempts
                        /\ jobs'[o].req = jobs[o].req
        /\ Stored(o)' <=> Stored(o)
    BY <1>2, <1>8, PollTypes, MarkFiredEffect DEF RejectUrl, MarkFired, OnlyTouches
  <2>2. /\ UNCHANGED <<events, faults, tries, acks, pollOp, pollRow>>
        /\ pollPc[p] \in {"gate", "mark"}
        /\ pollPc[p] = "gate" => pollRow[p].req.hook = "invalid"
        /\ pollPc'[p] = IF pollPc[p] = "mark" THEN "count" ELSE "idle"
    BY <1>2, <1>8 DEF RejectUrl, MarkFired
  <2>3. ActsOnOwnJob(p)
    BY <1>2, <1>4, <2>1, <2>2, PollTypes DEF ActsOnOwnJob
  <2>4. PollClaim(p)'
    BY <1>3, <2>1, <2>2 DEF PollClaim, Delivering
  <2>5. JobClaim(o)'
    BY <1>3, <2>1, <2>2 DEF JobClaim, PollClaim, Delivering
  <2>6. faults' = 0 => AckClaim(o)'
    BY <2>1, <2>2 DEF AckClaim, Stored
  <2> QED
    BY <2>3, <2>4, <2>5, <2>6
<1>9. CASE StartDelivery(p)
  <2>1. /\ UNCHANGED <<jobs, events, faults, acks, pollOp, pollRow>>
        /\ tries'[o] = tries[o] + 1
        /\ \A q \in Ops \ {o} : tries'[q] = tries[q]
        /\ pollPc[p] = "gate" /\ pollPc'[p] = "post"
        /\ pollRow[p].attempts < MaxAttempts
    BY <1>2, <1>3, <1>9 DEF StartDelivery, DeliveryDue, storeVars, TypeInv, TypeOK,
       PollTypeOK
  <2>2. ActsOnOwnJob(p)
    BY <1>2, <1>4, <2>1, PollTypes DEF ActsOnOwnJob
  <2>3. PollClaim(p)'
    BY <1>2, <1>3, <2>1, PollTypes DEF PollClaim, Delivering, Stored
  <2>4. JobClaim(o)'
    BY <1>2, <1>3, <2>1, PollTypes DEF JobClaim, PollClaim, Stored
  <2>5. faults' = 0 => AckClaim(o)'
    BY <1>2, <1>3, <1>4, <2>1 DEF AckClaim, Stored
  <2> QED
    BY <2>2, <2>3, <2>4, <2>5
<1>10. CASE DeliveryAccepted(p)
  <2>1. /\ UNCHANGED <<jobs, events, faults, tries, pollOp, pollRow>>
        /\ acks'[o] = acks[o] + 1
        /\ \A q \in Ops \ {o} : acks'[q] = acks[q]
        /\ pollPc[p] = "post" /\ pollPc'[p] = "mark"
    BY <1>2, <1>3, <1>10 DEF DeliveryAccepted, storeVars, TypeInv, TypeOK, PollTypeOK
  <2>2. ActsOnOwnJob(p)
    BY <1>2, <1>4, <2>1, PollTypes DEF ActsOnOwnJob
  <2>3. PollClaim(p)'
    BY <1>2, <1>3, <2>1, PollTypes DEF PollClaim, Delivering, Stored
  <2>4. JobClaim(o)'
    BY <1>2, <1>3, <2>1, PollTypes DEF JobClaim, Stored
  <2>5. faults' = 0 => AckClaim(o)'
    BY <2>1 DEF AckClaim
  <2> QED
    BY <2>2, <2>3, <2>4, <2>5
<1>11. CASE DeliveryFailed(p)
  <2>1. /\ UNCHANGED <<jobs, events, faults, tries, acks, pollOp, pollRow>>
        /\ pollPc[p] = "post" /\ pollPc'[p] = "retry"
    BY <1>2, <1>11 DEF DeliveryFailed, storeVars
  <2>2. ActsOnOwnJob(p)
    BY <1>2, <1>4, <2>1, PollTypes DEF ActsOnOwnJob
  <2>3. PollClaim(p)' /\ JobClaim(o)' /\ (faults' = 0 => AckClaim(o)')
    BY <1>2, <1>3, <1>4, <2>1 DEF PollClaim, Delivering, JobClaim, AckClaim, Stored
  <2> QED
    BY <2>2, <2>3
<1>12. CASE CountSuccess(p) \/ ScheduleRetry(p)
  <2>1. pollRow[p].attempts + 1 \in Nat \ {0}
    BY <1>2, PollTypes
  <2>2. /\ OnlyTouches(o)
        /\ Stored(o) => /\ jobs'[o].attempts = pollRow[p].attempts + 1
                        /\ jobs'[o].status = jobs[o].status
                        /\ jobs'[o].completedAt = jobs[o].completedAt
                        /\ jobs'[o].fired = jobs[o].fired
                        /\ jobs'[o].req = jobs[o].req
        /\ Stored(o)' <=> Stored(o)
    BY <1>2, <1>12, <2>1, PollTypes, RecordAttemptEffect, NextAttemptType
    DEF CountSuccess, ScheduleRetry, OnlyTouches, TypeInv, TypeOK
  <2>3. /\ UNCHANGED <<events, faults, tries, acks, pollOp, pollRow>>
        /\ pollPc[p] \in {"count", "retry"}
        /\ pollPc'[p] = "idle"
    BY <1>2, <1>12 DEF CountSuccess, ScheduleRetry
  <2>4. ActsOnOwnJob(p)
    BY <1>2, <1>4, <2>2, <2>3, PollTypes DEF ActsOnOwnJob
  <2>5. PollClaim(p)'
    BY <2>3 DEF PollClaim
  <2>6. JobClaim(o)'
    BY <1>3, <2>2, <2>3, PollTypes, PollAssumption DEF JobClaim, PollClaim, Delivering
  <2>7. faults' = 0 => AckClaim(o)'
    BY <1>2, <1>3, <1>4, <2>2, <2>3 DEF AckClaim
  <2> QED
    BY <2>4, <2>5, <2>6, <2>7
<1>13. CASE CatchStatement(p) \/ AbortPoll(p)
  <2>1. /\ UNCHANGED <<jobs, events, tries, acks, pollOp, pollRow>>
        /\ faults' # 0
        /\ pollPc'[p] # "idle" =>
             pollPc[p] \in {"mark", "count"} /\ pollPc'[p] = "retry"
    BY <1>2, <1>13 DEF CatchStatement, AbortPoll, Fault, TypeInv, TypeOK, StoreTypeOK
  <2>2. ActsOnOwnJob(p)
    BY <1>2, <1>4, <2>1, PollTypes DEF ActsOnOwnJob
  <2>3. PollClaim(p)' /\ JobClaim(o)'
    BY <1>2, <1>3, <2>1 DEF PollClaim, Delivering, JobClaim, Stored
  <2> QED
    BY <2>1, <2>2, <2>3
<1> QED
  BY <1>5, <1>6, <1>7, <1>8, <1>9, <1>10, <1>11, <1>12, <1>13 DEF PollProgress

LEMMA DeliveryStep ==
  TypeInv /\ TypeInv' /\ IdemInv /\ DeliveryInv /\ [Next]_vars => DeliveryInv'
<1> SUFFICES ASSUME TypeInv, TypeInv', IdemInv, DeliveryInv, [Next]_vars
             PROVE  DeliveryInv'
  OBVIOUS
<1>1. CASE ActivateNext
  BY <1>1, ActivateElsewhere, DeliveryElsewhere
<1>2. CASE PurgeNext
  BY <1>2, PurgeElsewhere, DeliveryElsewhere
<1>3. CASE PollNext
  <2>1. CASE Tick
    BY <2>1 DEF Tick, storeVars, DeliveryInv, PollClaim, JobClaim, AckClaim, Stored
  <2> QED
    BY <1>3, <2>1, DeliveryPoll DEF PollNext
<1>4. CASE UNCHANGED vars
  BY <1>4 DEF vars, storeVars, pollVars, DeliveryInv, PollClaim, JobClaim,
     AckClaim, Stored
<1> QED
  BY <1>1, <1>2, <1>3, <1>4 DEF Next

LEMMA AlwaysDelivery == Spec => []DeliveryInv
BY AlwaysTyped, AlwaysIdem, DeliveryInit, DeliveryStep, PTL DEF Spec

\* However polls interleave, completed_at and the audit log stay consistent.
THEOREM LifecycleHolds == Spec => []LifecycleConsistent
BY AlwaysDelivery, DeliveryInvMeans, PTL

\* The stored attempt count never runs ahead of the deliveries made.
THEOREM AttemptsHold == Spec => []AttemptsAccounted
BY AlwaysDelivery, DeliveryInvMeans, PTL

\* webhook_fired is set only on an accepted delivery or a URL that can
\* never be called.
THEOREM ReceiptsHaveReasons == Spec => []FiredHasReason
BY AlwaysDelivery, DeliveryInvMeans, PTL

\* Without failed statements no accepted delivery goes unrecorded.
THEOREM AcksRecorded == Spec => []AckRecorded
BY AlwaysDelivery, DeliveryInvMeans, PTL

-----------------------------------------------------------------------------
(* The retry policy is kept for every job whose polls never overlap: the   *)
(* copy such a poll decides from is never stale.                           *)

LEMMA SerialInit == Init => SerialInv
BY PollAssumption DEF Init, StoreInit, PollInit, SerialInv, SerialJob, Stored, InFlight

LEMMA SerialElsewhere ==
  ASSUME TypeInv, SerialInv, ElsewhereStep
  PROVE  SerialInv'
<1> USE DEF ElsewhereStep
<1>1. UNCHANGED <<clock, pollPc, pollOp, pollRow, tries, acks, overlapped>>
  BY DEF pollVars
<1> SUFFICES ASSUME faults' = 0, NEW o \in Ops \ overlapped
             PROVE  SerialJob(o)'
  BY <1>1 DEF SerialInv
<1>2. SerialJob(o)
  BY DEF SerialInv
<1>3. CASE NewRow(o)
  <2>1. /\ tries[o] = 0 /\ acks[o] = 0
        /\ \A p \in Pollers : ~InFlight(p, o)
    BY <1>3 DEF NewRow, Fresh
  <2> QED
    BY <1>1, <1>3, <2>1, PollAssumption DEF SerialJob, SerialRest, InFlight, NewRow
<1>4. CASE jobs'[o] = jobs[o]
  <2>1. ASSUME NEW p \in Pollers, InFlight(p, o)'
        PROVE  SerialCopy(p)'
    <3>1. InFlight(p, o) /\ pollOp[p] = o /\ SerialCopy(p)
      BY <1>1, <1>2, <2>1 DEF SerialJob, InFlight
    <3> QED
      BY <1>1, <1>4, <3>1 DEF SerialCopy, Stored
  <2> QED
    BY <1>1, <1>2, <1>4, <2>1 DEF SerialJob, SerialRest, InFlight, Stored
<1>5. CASE ~Stored(o)'
  <2>1. ASSUME NEW p \in Pollers, InFlight(p, o)'
        PROVE  SerialCopy(p)'
    <3>1. InFlight(p, o) /\ pollOp[p] = o /\ SerialCopy(p)
      BY <1>1, <1>2, <2>1 DEF SerialJob, InFlight
    <3> QED
      BY <1>1, <1>5, <3>1 DEF SerialCopy
  <2> QED
    BY <1>1, <1>2, <1>5, <2>1 DEF SerialJob, InFlight
<1> QED
  BY <1>3, <1>4, <1>5

LEMMA SerialRead ==
  ASSUME TypeInv, DeliveryInv, SerialInv, NEW p \in Pollers, NEW o \in Ops,
         PollRead(p, o)
  PROVE  SerialInv'
<1>1. /\ Stored(o)
      /\ UNCHANGED <<jobs, events, faults, tries, acks>>
      /\ pollPc[p] = "idle"
      /\ pollPc'[p] = FirstStep[jobs[o].status]
      /\ pollOp'[p] = o
      /\ pollRow'[p] = jobs[o]
      /\ \A q \in Pollers \ {p} : /\ pollPc'[q] = pollPc[q]
                                  /\ pollOp'[q] = pollOp[q]
                                  /\ pollRow'[q] = pollRow[q]
      /\ overlapped \subseteq overlapped'
      /\ (\E q \in Pollers : InFlight(q, o)) => o \in overlapped'
  BY DEF PollRead, PollGoto, storeVars, TypeInv, TypeOK, PollTypeOK
<1>2. jobs[o] \in JobRow /\ jobs[o].status \in Statuses
      /\ FirstStep[jobs[o].status] \in {"start", "finish", "gate"}
      /\ jobs[o].attempts \in Nat
  BY <1>1, RowFields DEF TypeInv, TypeOK, StoreTypeOK, Stored
<1> SUFFICES ASSUME faults' = 0, NEW j \in Ops \ overlapped'
             PROVE  SerialJob(j)'
  BY DEF SerialInv
<1>3. SerialJob(j)
  BY <1>1 DEF SerialInv
<1>4. CASE j # o
  <2>1. \A q \in Pollers : InFlight(q, j)' <=> InFlight(q, j)
    BY <1>1, <1>4 DEF InFlight
  <2>2. ASSUME NEW q \in Pollers, InFlight(q, j)'
        PROVE  SerialCopy(q)'
    <3>1. q # p /\ SerialCopy(q)
      BY <1>1, <1>3, <1>4, <2>1, <2>2 DEF SerialJob, InFlight
    <3> QED
      BY <1>1, <3>1 DEF SerialCopy, Stored
  <2> QED
    BY <1>1, <1>3, <2>1, <2>2 DEF SerialJob, SerialRest, Stored
<1>5. CASE j = o
  <2>1. \A q \in Pollers : ~InFlight(q, o)
    BY <1>1, <1>5
  <2>2. SerialRest(o)
    BY <1>1, <1>3, <1>5, <2>1 DEF SerialJob
  <2>3. \A q \in Pollers : InFlight(q, o)' <=> q = p
    BY <1>1, <1>2, <2>1 DEF InFlight
  <2>4. jobs[o].status # "completed" => ~jobs[o].completedAt
    BY <1>1, <1>3, <1>5 DEF SerialJob
  <2>5. pollPc'[p] \in {"start", "logWorking", "finish"} => jobs[o].status # "completed"
    BY <1>1, <1>2 DEF FirstStep, Statuses
  <2>6. SerialCopy(p)'
    BY <1>1, <1>2, <2>2, <2>4, <2>5 DEF SerialCopy, SerialRest, Delivering, Stored
  <2> QED
    BY <1>1, <1>3, <1>5, <2>3, <2>6 DEF SerialJob, Stored
<1> QED
  BY <1>4, <1>5

\* A later step of poll p concerns its own job only.
LEMMA SerialFrame ==
  ASSUME TypeInv, SerialInv, NEW p \in Pollers, ActsOnOwnJob(p),
         UNCHANGED overlapped,
         /\ faults' = 0 /\ SerialJob(pollOp[p]) =>
              /\ tries'[pollOp[p]] <= MaxAttempts
              /\ acks'[pollOp[p]] <= 1
              /\ Stored(pollOp[p])' /\ jobs'[pollOp[p]].completedAt
                   => jobs'[pollOp[p]].status = "completed"
              /\ pollPc'[p] # "idle" => SerialCopy(p)'
              /\ pollPc'[p] = "idle" /\ Stored(pollOp[p])' => SerialRest(pollOp[p])'
  PROVE  SerialInv'
<1> DEFINE o == pollOp[p]
<1> USE DEF ActsOnOwnJob
<1>1. /\ o \in Ops
      /\ o' = o
      /\ InFlight(p, o)
      /\ \A q \in Ops \ {o} : jobs'[q] = jobs[q]
  BY DEF TypeInv, PollShape, OnlyTouches, InFlight
<1> SUFFICES ASSUME faults' = 0, NEW j \in Ops \ overlapped
             PROVE  SerialJob(j)'
  BY DEF SerialInv
<1>2. SerialJob(j)
  BY DEF SerialInv
<1>3. CASE j # o
  <2>1. \A q \in Pollers : InFlight(q, j)' <=> InFlight(q, j)
    BY <1>1, <1>3 DEF InFlight
  <2>2. ASSUME NEW q \in Pollers, InFlight(q, j)'
        PROVE  SerialCopy(q)'
    <3>1. q # p /\ pollOp[q] = j /\ SerialCopy(q)
      BY <1>1, <1>2, <1>3, <2>1, <2>2 DEF SerialJob, InFlight
    <3> QED
      BY <1>1, <1>3, <3>1 DEF SerialCopy, Stored
  <2> QED
    BY <1>1, <1>2, <1>3, <2>1, <2>2 DEF SerialJob, SerialRest, Stored
<1>4. CASE j = o
  <2>1. \A q \in Pollers : InFlight(q, o) => q = p
    BY <1>1, <1>2, <1>4 DEF SerialJob
  <2>2. \A q \in Pollers : InFlight(q, o)' => q = p /\ pollPc'[p] # "idle"
    BY <1>1, <2>1 DEF InFlight
  <2>3. pollPc'[p] # "idle" => InFlight(p, o)'
    BY <1>1 DEF InFlight
  <2>4. /\ tries'[o] <= MaxAttempts
        /\ acks'[o] <= 1
        /\ Stored(o)' /\ jobs'[o].completedAt => jobs'[o].status = "completed"
        /\ pollPc'[p] # "idle" => SerialCopy(p)'
        /\ pollPc'[p] = "idle" /\ Stored(o)' => SerialRest(o)'
    BY <1>1, <1>2, <1>4
  <2> QED
    BY <1>1, <1>4, <2>2, <2>3, <2>4 DEF SerialJob, SerialRest, Stored
<1> QED
  BY <1>3, <1>4

\* What every step after the read leaves alone: the other polls, and its own copy.
LEMMA ProgressFrame ==
  ASSUME TypeInv, NEW p \in Pollers, PollProgress(p)
  PROVE  /\ pollPc[p] # "idle"
         /\ \A q \in Pollers \ {p} : pollPc'[q] = pollPc[q]
         /\ UNCHANGED <<pollOp, pollRow, faults, overlapped>>
BY DEF PollProgress, SetWorking, LogWorking, SetCompleted, LogCompleted,
   LogOnPurgedJob, SkipDelivery, RejectUrl, StartDelivery, DeliveryAccepted,
   DeliveryFailed, MarkFired, CountSuccess, ScheduleRetry, storeVars, PollGoto,
   TypeInv, TypeOK, PollTypeOK

LEMMA SerialPoll ==
  ASSUME TypeInv, TypeInv', DeliveryInv, SerialInv, NEW p \in Pollers, PollStep(p)
  PROVE  SerialInv'
<1> DEFINE o == pollOp[p]
<1> USE DEF PollGoto
<1>1. ASSUME NEW q \in Ops, PollRead(p, q)
      PROVE  SerialInv'
  BY <1>1, SerialRead
<1>2. CASE CatchStatement(p) \/ AbortPoll(p)
  BY <1>2 DEF CatchStatement, AbortPoll, Fault, TypeInv, TypeOK, StoreTypeOK, SerialInv
<1> SUFFICES ASSUME PollProgress(p)
             PROVE  SerialInv'
  BY <1>1, <1>2 DEF PollStep
<1>3. /\ pollPc[p] # "idle"
      /\ \A q \in Pollers \ {p} : pollPc'[q] = pollPc[q]
      /\ UNCHANGED <<pollOp, pollRow, faults, overlapped>>
  BY ProgressFrame
<1>4. /\ o \in Ops
      /\ pollRow[p].attempts \in Nat
      /\ tries[o] \in Nat
      /\ acks[o] \in Nat
      /\ StoreTypeOK
      /\ pollPc \in [Pollers -> PollPcs]
      /\ tries \in [Ops -> Nat]
      /\ acks \in [Ops -> Nat]
      /\ events \in [Ops -> SUBSET Statuses]
  BY <1>3, PollTypes DEF TypeInv, TypeOK, PollTypeOK, StoreTypeOK
<1>5. SerialJob(o) => SerialCopy(p)
  BY <1>3, <1>4 DEF SerialJob, InFlight
<1>6. JobClaim(o)
  BY <1>4 DEF DeliveryInv
<1> DEFINE Step ==
      SerialJob(o) =>
        /\ tries'[o] <= MaxAttempts
        /\ acks'[o] <= 1
        /\ Stored(o)' /\ jobs'[o].completedAt => jobs'[o].status = "completed"
        /\ pollPc'[p] # "idle" => SerialCopy(p)'
        /\ pollPc'[p] = "idle" /\ Stored(o)' => SerialRest(o)'
<1> SUFFICES ActsOnOwnJob(p) /\ Step
  BY <1>3, SerialFrame
<1>7. CASE SetWorking(p) \/ SetCompleted(p)
  <2>1. /\ OnlyTouches(o)
        /\ Stored(o) => /\ jobs'[o].status = IF SetWorking(p) THEN "working" ELSE "completed"
                        /\ jobs'[o].completedAt <=> jobs[o].completedAt \/ ~SetWorking(p)
                        /\ jobs'[o].fired = jobs[o].fired
                        /\ jobs'[o].attempts = jobs[o].attempts
        /\ Stored(o)' <=> Stored(o)
    BY <1>4, <1>7, UpdateStatusEffect
    DEF SetWorking, SetCompleted, Statuses, OnlyTouches
  <2>2. /\ UNCHANGED <<events, tries, acks>>
        /\ pollPc[p] = IF SetWorking(p) THEN "start" ELSE "finish"
        /\ pollPc'[p] = IF SetWorking(p) THEN "logWorking" ELSE "logCompleted"
    BY <1>4, <1>7 DEF SetWorking, SetCompleted
  <2>3. ActsOnOwnJob(p)
    BY <1>3, <1>4, <2>1, <2>2 DEF ActsOnOwnJob
  <2>4. Step
    BY <1>3, <1>5, <2>1, <2>2 DEF SerialJob, SerialCopy, Delivering
  <2> QED
    BY <2>3, <2>4
<1>8. CASE LogWorking(p) \/ LogCompleted(p)
  <2>1. /\ UNCHANGED <<jobs, tries, acks>>
        /\ \A q \in Ops \ {o} : events'[q] = events[q]
        /\ pollPc[p] = IF LogWorking(p) THEN "logWorking" ELSE "logCompleted"
        /\ pollPc'[p] = IF LogWorking(p) THEN "finish" ELSE "gate"
    BY <1>4, <1>8 DEF LogWorking, LogCompleted, AppendEvent
  <2>2. ActsOnOwnJob(p)
    BY <1>3, <1>4, <2>1 DEF ActsOnOwnJob
  <2>3. Step
    BY <1>3, <1>5, <2>1 DEF SerialJob, SerialCopy, Delivering, Stored
  <2> QED
    BY <2>2, <2>3
<1>9. CASE LogOnPurgedJob(p) \/ SkipDelivery(p)
  <2>1. /\ UNCHANGED <<jobs, events, tries, acks>>
        /\ pollPc'[p] = "idle"
        /\ Stored(o) => pollPc[p] = "gate"
    BY <1>4, <1>9 DEF LogOnPurgedJob, SkipDelivery, storeVars
  <2>2. ActsOnOwnJob(p)
    BY <1>3, <1>4, <2>1 DEF ActsOnOwnJob
  <2>3. Step
    BY <1>3, <1>4, <1>5, <2>1 DEF SerialJob, SerialCopy, SerialRest, Delivering, Stored
  <2> QED
    BY <2>2, <2>3
<1>10. CASE RejectUrl(p) \/ MarkFired(p)
  <2>1. /\ OnlyTouches(o)
        /\ Stored(o) => /\ jobs'[o].fired
                        /\ jobs'[o].status = jobs[o].status
                        /\ jobs'[o].completedAt = jobs[o].completedAt
                        /\ jobs'[o].attempts = jobs[o].attempts
        /\ Stored(o)' <=> Stored(o)
    BY <1>4, <1>10, MarkFiredEffect DEF RejectUrl, MarkFired, OnlyTouches
  <2>2. /\ UNCHANGED <<events, tries, acks>>
        /\ pollPc[p] \in {"gate", "mark"}
        /\ pollPc'[p] = IF pollPc[p] = "mark" THEN "count" ELSE "idle"
    BY <1>4, <1>10 DEF RejectUrl, MarkFired
  <2>3. ActsOnOwnJob(p)
    BY <1>3, <1>4, <2>1, <2>2 DEF ActsOnOwnJob
  <2>4. Step
    BY <1>3, <1>4, <1>5, <2>1, <2>2 DEF SerialJob, SerialCopy, SerialRest, Delivering
  <2> QED
    BY <2>3, <2>4
<1>11. CASE StartDelivery(p)
  <2>1. /\ UNCHANGED <<jobs, events, acks>>
        /\ tries'[o] = tries[o] + 1
        /\ \A q \in Ops \ {o} : tries'[q] = tries[q]
        /\ pollPc[p] = "gate" /\ pollPc'[p] = "post"
        /\ pollRow[p].attempts < MaxAttempts
        /\ ~pollRow[p].fired
    BY <1>4, <1>11 DEF StartDelivery, DeliveryDue, storeVars
  <2>2. ActsOnOwnJob(p)
    BY <1>3, <1>4, <2>1 DEF ActsOnOwnJob
  <2>3. Step
    BY <1>3, <1>4, <1>5, <2>1, PollAssumption DEF SerialJob, SerialCopy, Delivering, Stored
  <2> QED
    BY <2>2, <2>3
<1>12. CASE DeliveryAccepted(p)
  <2>1. /\ UNCHANGED <<jobs, events, tries>>
        /\ acks'[o] = acks[o] + 1
        /\ \A q \in Ops \ {o} : acks'[q] = acks[q]
        /\ pollPc[p] = "post" /\ pollPc'[p] = "mark"
    BY <1>4, <1>12 DEF DeliveryAccepted, storeVars
  <2>2. ActsOnOwnJob(p)
    BY <1>3, <1>4, <2>1 DEF ActsOnOwnJob
  <2>3. Step
    BY <1>3, <1>4, <1>5, <2>1 DEF SerialJob, SerialCopy, Delivering, Stored
  <2> QED
    BY <2>2, <2>3
<1>13. CASE DeliveryFailed(p)
  <2>1. /\ UNCHANGED <<jobs, events, tries, acks>>
        /\ pollPc[p] = "post" /\ pollPc'[p] = "retry"
    BY <1>4, <1>13 DEF DeliveryFailed, storeVars
  <2>2. ActsOnOwnJob(p)
    BY <1>3, <1>4, <2>1 DEF ActsOnOwnJob
  <2>3. Step
    BY <1>3, <1>4, <1>5, <2>1 DEF SerialJob, SerialCopy, Delivering, Stored
  <2> QED
    BY <2>2, <2>3
<1>14. CASE CountSuccess(p) \/ ScheduleRetry(p)
  <2>1. pollRow[p].attempts + 1 \in Nat \ {0}
    BY <1>4
  <2>2. /\ OnlyTouches(o)
        /\ Stored(o) => /\ jobs'[o].attempts = pollRow[p].attempts + 1
                        /\ jobs'[o].status = jobs[o].status
                        /\ jobs'[o].completedAt = jobs[o].completedAt
                        /\ jobs'[o].fired = jobs[o].fired
        /\ Stored(o)' <=> Stored(o)
    BY <1>4, <1>14, <2>1, RecordAttemptEffect, NextAttemptType
    DEF CountSuccess, ScheduleRetry, OnlyTouches, TypeInv, TypeOK
  <2>3. /\ UNCHANGED <<events, tries, acks>>
        /\ pollPc[p] \in {"count", "retry"}
        /\ pollPc'[p] = "idle"
    BY <1>4, <1>14 DEF CountSuccess, ScheduleRetry
  <2>4. ActsOnOwnJob(p)
    BY <1>3, <1>4, <2>2, <2>3 DEF ActsOnOwnJob
  <2>5. Step
    BY <1>3, <1>4, <1>5, <2>2, <2>3 DEF SerialJob, SerialCopy, SerialRest, Delivering
  <2> QED
    BY <2>4, <2>5
<1> QED
  BY <1>7, <1>8, <1>9, <1>10, <1>11, <1>12, <1>13, <1>14 DEF PollProgress

LEMMA SerialStep ==
  /\ TypeInv /\ TypeInv' /\ IdemInv /\ DeliveryInv /\ SerialInv /\ [Next]_vars
  => SerialInv'
<1> SUFFICES ASSUME TypeInv, TypeInv', IdemInv, DeliveryInv, SerialInv, [Next]_vars
             PROVE  SerialInv'
  OBVIOUS
<1>1. CASE ActivateNext
  BY <1>1, ActivateElsewhere, SerialElsewhere
<1>2. CASE PurgeNext
  BY <1>2, PurgeElsewhere, SerialElsewhere
<1>3. CASE PollNext
  <2>1. CASE Tick
    BY <2>1 DEF Tick, storeVars, SerialInv, SerialJob, SerialCopy, SerialRest,
       InFlight, Stored
  <2> QED
    BY <1>3, <2>1, SerialPoll DEF PollNext
<1>4. CASE UNCHANGED vars
  BY <1>4 DEF vars, storeVars, pollVars, SerialInv, SerialJob, SerialCopy,
     SerialRest, InFlight, Stored
<1> QED
  BY <1>1, <1>2, <1>3, <1>4 DEF Next

\* At most MaxAttempts deliveries, at most one of them accepted, and no
\* status regression, for every job whose polls never overlapped.
THEOREM SerialPolicyKept == Spec => []SerialDeliveries
<1>1. SerialInv => SerialDeliveries
  BY DEF SerialInv, SerialJob, SerialDeliveries
<1> QED
  BY <1>1, AlwaysTyped, AlwaysIdem, AlwaysDelivery, SerialInit, SerialStep, PTL
  DEF Spec

-----------------------------------------------------------------------------
(* The contract: what each step is to a client.                            *)

ContractStep == [Contract!ContractNext]_(Contract!contractVars)

\* The row of q looks the same.
Unseen(q) ==
  /\ Phase(q)' = Phase(q)
  /\ Agreed(q)' = Agreed(q)
  /\ Receipted(q)' = Receipted(q)

LEMMA NothingSeen ==
  ASSUME \A q \in Ops : Unseen(q), UNCHANGED <<tries, acks>>
  PROVE  UNCHANGED Contract!contractVars
BY DEF Unseen, Contract!contractVars

\* An id in use is no longer awaited.
LEMMA InUse ==
  ASSUME IdemInv, NEW o \in Ops, Awaited(o)
  PROVE  ~Stored(o) /\ \A p \in Pollers : ~InFlight(p, o)
BY DEF IdemInv, FreshOps, Fresh, Awaited

LEMMA PhaseCases ==
  ASSUME NEW o \in Ops
  PROVE  /\ Stored(o) /\ jobs[o].completedAt => Phase(o) = "completed"
         /\ Stored(o) /\ ~jobs[o].completedAt => Phase(o) = "accepted"
         /\ ~Stored(o) /\ Awaited(o) => Phase(o) = "unknown"
         /\ ~Stored(o) /\ ~Awaited(o) => Phase(o) = "closed"
BY DEF Phase

LEMMA PhaseCasesNext ==
  ASSUME NEW o \in Ops
  PROVE  /\ Stored(o)' /\ jobs'[o].completedAt => Phase(o)' = "completed"
         /\ Stored(o)' /\ ~jobs'[o].completedAt => Phase(o)' = "accepted"
         /\ ~Stored(o)' /\ Awaited(o)' => Phase(o)' = "unknown"
         /\ ~Stored(o)' /\ ~Awaited(o)' => Phase(o)' = "closed"
BY DEF Phase

\* A row that stays as it is, under an id that is awaited as before, is unseen;
\* so is one whose bookkeeping only changes.
LEMMA SameRow ==
  ASSUME NEW q \in Ops,
         Stored(q)' <=> Stored(q),
         Stored(q) => /\ jobs'[q].req = jobs[q].req
                      /\ jobs'[q].completedAt = jobs[q].completedAt
                      /\ jobs'[q].fired = jobs[q].fired,
         ~Stored(q) => (Awaited(q)' <=> Awaited(q))
  PROVE  Unseen(q)
<1>1. Phase(q)' = Phase(q)
  BY PhaseCases, PhaseCasesNext
<1>2. Agreed(q)' = Agreed(q)
  BY DEF Agreed
<1>3. Receipted(q)' = Receipted(q)
  BY DEF Receipted
<1> QED
  BY <1>1, <1>2, <1>3 DEF Unseen

LEMMA ContractForgoes ==
  ASSUME NEW o \in Ops, \A q \in Ops : q # o => Unseen(q),
         UNCHANGED <<jobs, tries, acks>>, ~Stored(o), Awaited(o), ~Awaited(o)'
  PROVE  ContractStep
<1>1. Phase(o) = "unknown" /\ Phase(o)' = "closed"
  BY PhaseCases, PhaseCasesNext DEF Stored
<1>2. Agreed(o)' = Agreed(o) /\ Receipted(o)' = Receipted(o)
  BY DEF Agreed, Receipted, Stored
<1>3. Contract!Forgo(o)
  BY <1>1, <1>2 DEF Contract!Forgo, Unseen
<1> QED
  BY <1>3 DEF ContractStep, Contract!ContractNext

LEMMA ContractAccepts ==
  ASSUME NEW o \in Ops, \A q \in Ops : q # o => Unseen(q),
         UNCHANGED <<tries, acks>>, ~Stored(o), Awaited(o),
         Stored(o)', jobs'[o].req \in Columns, ~jobs'[o].completedAt,
         ~jobs'[o].fired
  PROVE  ContractStep
<1>1. Phase(o) = "unknown" /\ Phase(o)' = "accepted"
  BY PhaseCases, PhaseCasesNext
<1>2. Agreed(o)' = jobs'[o].req
  BY DEF Agreed
<1>3. Receipted(o)' = Receipted(o)
  BY DEF Receipted
<1>4. Contract!Accept(o, jobs'[o].req)
  BY <1>1, <1>2, <1>3 DEF Contract!Accept, Unseen
<1> QED
  BY <1>4 DEF ContractStep, Contract!ContractNext

LEMMA ContractCompletes ==
  ASSUME NEW o \in Ops, \A q \in Ops : q # o => Unseen(q),
         UNCHANGED <<tries, acks>>, Stored(o), ~jobs[o].completedAt,
         Stored(o)', jobs'[o].completedAt,
         jobs'[o].req = jobs[o].req, jobs'[o].fired = jobs[o].fired
  PROVE  ContractStep
<1>1. Phase(o) = "accepted" /\ Phase(o)' = "completed"
  BY PhaseCases, PhaseCasesNext
<1>2. Agreed(o)' = Agreed(o)
  BY DEF Agreed
<1>3. Receipted(o)' = Receipted(o)
  BY DEF Receipted
<1>4. Contract!Complete(o)
  BY <1>1, <1>2, <1>3 DEF Contract!Complete, Unseen
<1> QED
  BY <1>4 DEF ContractStep, Contract!ContractNext

LEMMA ContractEarns ==
  ASSUME NEW o \in Ops, \A q \in Ops : q # o => Unseen(q),
         UNCHANGED <<tries, acks>>, Stored(o), jobs[o].completedAt,
         Stored(o)', jobs'[o].completedAt, jobs'[o].req = jobs[o].req,
         jobs'[o].fired = TRUE, acks[o] > 0 \/ jobs[o].req.hook = "invalid"
  PROVE  ContractStep
<1>1. Phase(o) = "completed" /\ Phase(o)' = "completed"
  BY PhaseCases, PhaseCasesNext
<1>2. Agreed(o)' = Agreed(o) /\ Agreed(o) = jobs[o].req
  BY DEF Agreed
<1>3. Receipted(o)' = TRUE
  BY DEF Receipted
<1>4. Contract!EarnReceipt(o)
  BY <1>1, <1>2, <1>3 DEF Contract!EarnReceipt, Unseen
<1> QED
  BY <1>4 DEF ContractStep, Contract!ContractNext

LEMMA ContractSends ==
  ASSUME NEW o \in Ops, \A q \in Ops : Unseen(q), UNCHANGED acks,
         tries' = [tries EXCEPT ![o] = @ + 1],
         \/ Stored(o) /\ jobs[o].completedAt /\ jobs[o].req.hook = "https"
         \/ ~Stored(o) /\ ~Awaited(o)
  PROVE  ContractStep
<1>1. \/ Phase(o) = "completed" /\ Agreed(o).hook = "https"
      \/ Phase(o) = "closed"
  BY PhaseCases DEF Agreed
<1>2. Contract!Send(o)
  BY <1>1 DEF Contract!Send, Unseen
<1> QED
  BY <1>2 DEF ContractStep, Contract!ContractNext

LEMMA ContractHears ==
  ASSUME NEW o \in Ops, \A q \in Ops : Unseen(q), UNCHANGED tries,
         acks \in [Ops -> Nat], acks' = [acks EXCEPT ![o] = @ + 1], tries[o] > 0
  PROVE  ContractStep
<1>1. /\ \A q \in Ops : q # o => acks'[q] = acks[q]
      /\ acks'[o] > 0
  OBVIOUS
<1>2. Contract!Hear(o)
  BY <1>1 DEF Contract!Hear, Unseen
<1> QED
  BY <1>2 DEF ContractStep, Contract!ContractNext

LEMMA ContractCloses ==
  ASSUME TypeInv, IdemInv, \A q \in Ops : jobs'[q] \in {jobs[q], None},
         UNCHANGED <<tries, acks, nextOp, actPc, actOp>>
  PROVE  ContractStep
<1> DEFINE S == {q \in Ops : Stored(q) /\ ~Stored(q)'}
<1>1. \A q \in Ops : Awaited(q)' <=> Awaited(q)
  BY DEF Awaited
<1>2. ASSUME NEW q \in Ops, q \notin S
      PROVE  Unseen(q)
  BY <1>1, <1>2, SameRow DEF Stored
<1>3. ASSUME NEW q \in S
      PROVE  /\ Phase(q) \in {"accepted", "completed"}
             /\ Phase(q)' = "closed"
             /\ Agreed(q)' = None
             /\ Receipted(q)' = FALSE
  <2>1. ~Awaited(q)'
    BY <1>1, InUse
  <2>2. Phase(q) \in {"accepted", "completed"} /\ Phase(q)' = "closed"
    BY <2>1, PhaseCases, PhaseCasesNext
  <2> QED
    BY <2>2 DEF Agreed, Receipted
<1> HIDE DEF S
<1>4. S \in SUBSET Ops
  BY DEF S
<1>5. Contract!Close(S)
  BY <1>2, <1>3, <1>4 DEF Contract!Close, Unseen
<1> QED
  BY <1>4, <1>5 DEF ContractStep, Contract!ContractNext

\* A request that inserts nothing gives up one id at most.
LEMMA ContractGivesUp ==
  ASSUME UNCHANGED <<jobs, tries, acks>>, NEW x,
         \A q \in Ops : q # x => (Awaited(q)' <=> Awaited(q)),
         \A q \in Ops : Awaited(q)' => Awaited(q)
  PROVE  ContractStep
<1>1. ASSUME NEW q \in Ops, Stored(q) \/ (Awaited(q)' <=> Awaited(q))
      PROVE  Unseen(q)
  BY <1>1, SameRow DEF Stored
<1>2. CASE x \in Ops /\ ~Stored(x) /\ Awaited(x) /\ ~Awaited(x)'
  BY <1>1, <1>2, ContractForgoes
<1>3. CASE ~(x \in Ops /\ ~Stored(x) /\ Awaited(x) /\ ~Awaited(x)')
  <2>1. \A q \in Ops : Unseen(q)
    BY <1>1, <1>3
  <2> QED
    BY <2>1, NothingSeen DEF ContractStep
<1> QED
  BY <1>2, <1>3

LEMMA ContractActivate ==
  ASSUME TypeInv, IdemInv, ActivateNext
  PROVE  ContractStep
<1> USE DEF TypeInv, TypeOK
<1>1. UNCHANGED <<tries, acks>>
  BY DEF ActivateNext, pollVars
<1>2. ASSUME NEW s \in Dynamic, SignalStep(s)
      PROVE  ContractStep
  <2>1. UNCHANGED <<jobs, nextOp, actPc, actOp>>
    BY <1>2 DEF SignalStep, CacheProposal, ExpireProposal, PurgeSignal, storeVars
  <2> QED
    BY <1>1, <2>1, ContractGivesUp DEF Awaited
<1>3. ASSUME NEW a \in Activators, ActivateStep(a)
      PROVE  ContractStep
  <2>1. OthersKept(a)
    BY <1>3, StepKinds
  <2>2. CASE MintStep(a)
    <3>1. /\ UNCHANGED jobs
          /\ nextOp \in Nat /\ nextOp' = nextOp + 1
          /\ actPc'[a] = "insert" /\ actOp'[a] = nextOp
      BY <2>2 DEF MintStep, Mint, ActTypeOK, storeVars
    <3>2. ASSUME NEW q \in Ops
          PROVE  /\ Awaited(q)' => Awaited(q)
                 /\ q # actOp[a] => (Awaited(q)' <=> Awaited(q))
      <4>1. q \in Nat
        BY StoreAssumption DEF Ops
      <4> QED
        BY <2>1, <3>1, <4>1 DEF Awaited, OthersKept
    <3> QED
      BY <1>1, <3>1, <3>2, ContractGivesUp
  <2>3. CASE QuietStep(a)
    <3>1. UNCHANGED <<jobs, nextOp, actOp>> /\ actPc'[a] # "insert"
      BY <2>3 DEF QuietStep, Writing
    <3>2. ASSUME NEW q \in Ops
          PROVE  /\ Awaited(q)' => Awaited(q)
                 /\ q # actOp[a] => (Awaited(q)' <=> Awaited(q))
      BY <2>1, <3>1 DEF Awaited, OthersKept
    <3> QED
      BY <1>1, <3>1, <3>2, ContractGivesUp
  <2>4. CASE Insert(a)
    <3> DEFINE o == actOp[a]
    <3>1. /\ o \in Ops /\ actReq[a] \in Requests
          /\ Awaited(o) /\ ~Stored(o)
          /\ actPc'[a] = "log"
          /\ UNCHANGED <<nextOp, actOp>>
      BY <2>4 DEF Insert, Goto, ActShape, ActTypeOK, Awaited, IdemInv, FreshOps, Fresh
    <3>2. /\ \A q \in Ops : q # o => jobs'[q] = jobs[q]
          /\ Stored(o)'
          /\ jobs'[o].req \in Columns
          /\ ~jobs'[o].completedAt
          /\ ~jobs'[o].fired
      BY <2>4, <3>1, InsertEffect, RequestFields DEF Insert, Stored
    <3>3. ASSUME NEW q \in Ops, q # o
          PROVE  Unseen(q)
      <4>1. Awaited(q)' <=> Awaited(q)
        BY <2>1, <3>1, <3>3 DEF Awaited, OthersKept
      <4> QED
        BY <3>2, <3>3, <4>1, SameRow DEF Stored
    <3> QED
      BY <1>1, <3>1, <3>2, <3>3, ContractAccepts
  <2> QED
    BY <1>3, <2>2, <2>3, <2>4, StepKinds
<1> QED
  BY <1>2, <1>3 DEF ActivateNext

LEMMA ContractPoll ==
  ASSUME TypeInv, IdemInv, DeliveryInv, NEW p \in Pollers, PollStep(p),
         UNCHANGED actVars
  PROVE  ContractStep
<1>1. \A q \in Ops : Awaited(q)' <=> Awaited(q)
  BY DEF actVars, Awaited
<1>2. ASSUME UNCHANGED <<jobs, tries, acks>>
      PROVE  ContractStep
  BY <1>1, <1>2, SameRow, NothingSeen DEF Stored, ContractStep
<1>3. ASSUME NEW q \in Ops, PollRead(p, q)
      PROVE  ContractStep
  BY <1>2, <1>3 DEF PollRead, storeVars
<1>4. CASE LogWorking(p) \/ LogCompleted(p) \/ LogOnPurgedJob(p) \/ SkipDelivery(p)
             \/ DeliveryFailed(p) \/ CatchStatement(p) \/ AbortPoll(p)
  BY <1>2, <1>4 DEF LogWorking, LogCompleted, LogOnPurgedJob, SkipDelivery,
     DeliveryFailed, CatchStatement, AbortPoll, storeVars
<1> SUFFICES ASSUME \/ SetWorking(p) \/ SetCompleted(p) \/ RejectUrl(p)
                    \/ StartDelivery(p) \/ DeliveryAccepted(p) \/ MarkFired(p)
                    \/ CountSuccess(p) \/ ScheduleRetry(p)
             PROVE  ContractStep
  BY <1>3, <1>4 DEF PollStep, PollProgress
<1>5. pollPc[p] # "idle"
  BY DEF SetWorking, SetCompleted, RejectUrl, StartDelivery, DeliveryAccepted,
     MarkFired, CountSuccess, ScheduleRetry
<1>6. PICK o \in Ops : o = pollOp[p]
  BY <1>5, PollTypes
<1>7. /\ pollRow[p].attempts \in Nat
      /\ tries[o] \in Nat
      /\ StoreTypeOK
  BY <1>5, <1>6, PollTypes
<1>8. ~Awaited(o)
  BY <1>5, <1>6, <1>7, InUse DEF InFlight
<1>9. PollClaim(p)
  BY DEF DeliveryInv
<1>10. ASSUME OnlyTouches(o)
      PROVE  \A q \in Ops : q # o => Unseen(q)
  BY <1>1, <1>10, SameRow DEF OnlyTouches, Stored
<1>11. ASSUME UNCHANGED <<tries, acks>>, OnlyTouches(o),
              Stored(o) => /\ jobs'[o].completedAt = jobs[o].completedAt
                           /\ jobs'[o].fired = jobs[o].fired
       PROVE  ContractStep
  <2>1. Unseen(o)
    BY <1>1, <1>6, <1>7, <1>11, SameRow DEF OnlyTouches
  <2> QED
    BY <1>10, <1>11, <2>1, NothingSeen DEF ContractStep
<1>12. Stored(o) => jobs[o] \in JobRow
  BY <1>6, <1>7 DEF StoreTypeOK, Stored
<1>13. ASSUME OnlyTouches(o), Stored(o)
       PROVE  /\ Stored(o)'
              /\ jobs'[o] \in JobRow
              /\ jobs'[o].req = jobs[o].req
  BY <1>6, <1>7, <1>13 DEF OnlyTouches, Stored
<1>14. ASSUME NEW row \in JobRow
       PROVE  row.completedAt \in BOOLEAN /\ row.fired \in BOOLEAN
  BY DEF JobRow
<1>15. CASE SetWorking(p)
  <2>1. UNCHANGED <<tries, acks>> /\ UpdateStatus(o, "working")
    BY <1>6, <1>15 DEF SetWorking
  <2>2. /\ OnlyTouches(o)
        /\ Stored(o) => /\ jobs'[o].completedAt <=> jobs[o].completedAt
                        /\ jobs'[o].fired = jobs[o].fired
    BY <1>6, <1>7, <2>1, UpdateStatusEffect DEF Statuses
  <2>3. Stored(o) => jobs'[o].completedAt = jobs[o].completedAt
    BY <1>12, <1>13, <1>14, <2>2
  <2> QED
    BY <1>11, <2>1, <2>2, <2>3
<1>16. CASE SetCompleted(p)
  <2>1. UNCHANGED <<tries, acks>> /\ UpdateStatus(o, "completed")
    BY <1>6, <1>16 DEF SetCompleted
  <2>2. /\ OnlyTouches(o)
        /\ Stored(o) => jobs'[o].completedAt /\ jobs'[o].fired = jobs[o].fired
    BY <1>6, <1>7, <2>1, UpdateStatusEffect DEF Statuses
  <2>3. CASE Stored(o) /\ ~jobs[o].completedAt
    BY <1>6, <1>7, <1>10, <1>13, <2>1, <2>2, <2>3, ContractCompletes
  <2>4. CASE Stored(o) => jobs[o].completedAt
    <3>1. Stored(o) => jobs'[o].completedAt = jobs[o].completedAt
      BY <1>12, <1>13, <1>14, <2>2, <2>4
    <3> QED
      BY <1>11, <2>1, <2>2, <3>1
  <2> QED
    BY <2>3, <2>4
<1>17. CASE RejectUrl(p) \/ MarkFired(p)
  <2>1. UNCHANGED <<tries, acks>> /\ MarkWebhookFired(o)
    BY <1>6, <1>17 DEF RejectUrl, MarkFired
  <2>2. /\ OnlyTouches(o)
        /\ Stored(o) => /\ jobs'[o].fired
                        /\ jobs'[o].completedAt = jobs[o].completedAt
    BY <1>6, <1>7, <2>1, MarkFiredEffect
  <2>3. CASE Stored(o)
    <3>1. /\ jobs[o].completedAt
          /\ acks[o] > 0 \/ jobs[o].req.hook = "invalid"
      BY <1>5, <1>6, <1>9, <1>17, <2>3 DEF PollClaim, RejectUrl, MarkFired, Delivering
    <3>2. jobs'[o].fired = TRUE
      BY <1>13, <1>14, <2>2, <2>3
    <3> QED
      BY <1>6, <1>7, <1>10, <1>13, <2>1, <2>2, <2>3, <3>1, <3>2, ContractEarns
  <2>4. CASE ~Stored(o)
    BY <1>11, <2>1, <2>2, <2>4
  <2> QED
    BY <2>3, <2>4
<1>18. CASE StartDelivery(p)
  <2>1. /\ UNCHANGED <<jobs, acks>>
        /\ tries' = [tries EXCEPT ![o] = @ + 1]
    BY <1>6, <1>18 DEF StartDelivery, storeVars
  <2>2. \A q \in Ops : Unseen(q)
    BY <1>1, <2>1, SameRow DEF Stored
  <2>3. Stored(o) => jobs[o].completedAt /\ jobs[o].req.hook = "https"
    BY <1>5, <1>6, <1>9, <1>18 DEF PollClaim, StartDelivery
  <2> QED
    BY <1>6, <1>7, <1>8, <2>1, <2>2, <2>3, ContractSends
<1>19. CASE DeliveryAccepted(p)
  <2>1. /\ UNCHANGED <<jobs, tries>>
        /\ acks' = [acks EXCEPT ![o] = @ + 1]
        /\ acks \in [Ops -> Nat]
    BY <1>6, <1>19 DEF DeliveryAccepted, storeVars, TypeInv, TypeOK, PollTypeOK
  <2>2. \A q \in Ops : Unseen(q)
    BY <1>1, <2>1, SameRow DEF Stored
  <2>3. tries[o] > 0
    BY <1>5, <1>6, <1>7, <1>9, <1>19 DEF PollClaim, DeliveryAccepted, Delivering
  <2> QED
    BY <1>6, <1>7, <2>1, <2>2, <2>3, ContractHears
<1>20. CASE CountSuccess(p) \/ ScheduleRetry(p)
  <2>1. pollRow[p].attempts + 1 \in Nat \ {0}
    BY <1>6, <1>7
  <2>2. /\ UNCHANGED <<tries, acks>>
        /\ \E t \in Nat : RecordWebhookAttempt(o, pollRow[p].attempts + 1, t)
    BY <1>6, <1>20, <2>1, NextAttemptType DEF CountSuccess, ScheduleRetry, TypeInv, TypeOK
  <2>3. /\ OnlyTouches(o)
        /\ Stored(o) => /\ jobs'[o].completedAt = jobs[o].completedAt
                        /\ jobs'[o].fired = jobs[o].fired
    BY <1>6, <1>7, <2>1, <2>2, RecordAttemptEffect
  <2> QED
    BY <1>11, <2>2, <2>3
<1> QED
  BY <1>15, <1>16, <1>17, <1>18, <1>19, <1>20

LEMMA ContractSteps ==
  TypeInv /\ IdemInv /\ DeliveryInv /\ [Next]_vars => ContractStep
<1> SUFFICES ASSUME TypeInv, IdemInv, DeliveryInv, [Next]_vars
             PROVE  ContractStep
  OBVIOUS
<1>1. CASE ActivateNext
  BY <1>1, ContractActivate
<1>2. ASSUME UNCHANGED <<tries, acks, actVars>>,
             \A q \in Ops : jobs'[q] \in {jobs[q], None}
      PROVE  ContractStep
  BY <1>2, ContractCloses DEF actVars
<1>3. CASE PollNext
  BY <1>2, <1>3, ContractPoll DEF PollNext, Tick, storeVars
<1>4. CASE PurgeNext
  <2>1. \A q \in Ops : jobs'[q] \in {jobs[q], None}
    BY <1>4 DEF PurgeNext, PurgeStep, PurgeProgress, SelectDoomed, DeleteEvents,
       DeleteJobs, AbortPurge, JobAges, AgeJob, storeVars
  <2> QED
    BY <1>2, <1>4, <2>1 DEF PurgeNext, pollVars
<1>5. CASE UNCHANGED vars
  BY <1>2, <1>5 DEF vars, storeVars, pollVars
<1> QED
  BY <1>1, <1>3, <1>4, <1>5 DEF Next

LEMMA ContractBegins == Init => Contract!ContractInit
<1> SUFFICES ASSUME Init
             PROVE  Contract!ContractInit
  OBVIOUS
<1>1. ASSUME NEW o \in Ops
      PROVE  /\ Phase(o) = "unknown"
             /\ Agreed(o) = None
             /\ Receipted(o) = FALSE
  <2>1. ~Stored(o)
    BY DEF Init, StoreInit, Stored
  <2>2. Awaited(o)
    BY StoreAssumption DEF Init, ActInit, Awaited, Ops
  <2> QED
    BY <2>1, <2>2, PhaseCases DEF Agreed, Receipted
<1>2. /\ tries = [o \in Ops |-> 0]
      /\ \A o \in Ops : (acks[o] > 0) = FALSE
  BY DEF Init, PollInit
<1>3. /\ [o \in Ops |-> Phase(o)] = [o \in Ops |-> "unknown"]
      /\ [o \in Ops |-> Agreed(o)] = [o \in Ops |-> None]
  BY <1>1
<1>4. /\ [o \in Ops |-> Receipted(o)] = [o \in Ops |-> FALSE]
      /\ [o \in Ops |-> acks[o] > 0] = [o \in Ops |-> FALSE]
  BY <1>1, <1>2
<1> QED
  BY <1>2, <1>3, <1>4 DEF Contract!ContractInit

\* Requests, polls, deliveries and purges keep the contract of an operation on
\* all interleavings: each step of one of them is one step of the contract, or
\* none that a client could see.
THEOREM ContractKept == Spec => KeepsContract
BY AlwaysTyped, AlwaysIdem, AlwaysDelivery, ContractBegins, ContractSteps, PTL
DEF Spec, KeepsContract, Contract!ContractSpec, ContractStep

=============================================================================
