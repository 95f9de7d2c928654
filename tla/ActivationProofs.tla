-------------------------- MODULE ActivationProofs --------------------------
(***************************************************************************)
(* Proofs about ActivationSystem, for every set of keys, signals,          *)
(* requests and slots and every bound.                                     *)
(***************************************************************************)
EXTENDS ActivationInvariants, TLAPS

-----------------------------------------------------------------------------
(* What each statement does to the rows.                                   *)

\* A row other than o's is left alone, and o's is neither made nor removed.
OnlyTouches(o) ==
  /\ jobs' \in [Ops -> JobRow \cup {None}]
  /\ \A q \in Ops : Stored(q)' <=> Stored(q)
  /\ \A q \in Ops : Stored(q) => jobs'[q].req = jobs[q].req
  /\ \A q \in Ops : q # o => jobs'[q] = jobs[q]

LEMMA UpdateStatusEffect ==
  ASSUME StoreTypeOK, NEW o \in Ops, NEW s \in Statuses, UpdateStatus(o, s)
  PROVE  /\ OnlyTouches(o)
         /\ Stored(o) => /\ jobs'[o].status = s
                         /\ jobs'[o].completedAt
                              <=> (jobs[o].completedAt \/ s = "completed")
                         /\ jobs'[o].fired = jobs[o].fired
                         /\ jobs'[o].attempts = jobs[o].attempts
<1>1. CASE ~Stored(o)
  BY <1>1 DEF UpdateStatus, OnlyTouches, StoreTypeOK, Stored
<1>2. CASE Stored(o)
  <2> DEFINE row == [jobs[o] EXCEPT !.status = s,
                       !.completedAt = jobs[o].completedAt \/ s = "completed"]
  <2>1. jobs[o] \in JobRow
    BY <1>2 DEF StoreTypeOK, Stored
  <2>2. jobs' = [jobs EXCEPT ![o] = row]
    BY <1>2 DEF UpdateStatus
  <2>3. /\ row \in JobRow
        /\ row.req = jobs[o].req
        /\ row.status = s
        /\ row.fired = jobs[o].fired
        /\ row.attempts = jobs[o].attempts
        /\ row.completedAt <=> (jobs[o].completedAt \/ s = "completed")
    BY <2>1 DEF JobRow
  <2>4. jobs'[o] = row /\ \A q \in Ops : q # o => jobs'[q] = jobs[q]
    BY <2>2 DEF StoreTypeOK
  <2>5. jobs' \in [Ops -> JobRow \cup {None}]
    BY <2>2, <2>3 DEF StoreTypeOK
  <2> HIDE DEF row
  <2> QED
    BY <1>2, <2>3, <2>4, <2>5, StoreAssumption DEF OnlyTouches, Stored
<1> QED
  BY <1>1, <1>2

LEMMA MarkFiredEffect ==
  ASSUME StoreTypeOK, NEW o \in Ops, MarkWebhookFired(o)
  PROVE  /\ OnlyTouches(o)
         /\ Stored(o) => /\ jobs'[o].fired
                         /\ jobs'[o].status = jobs[o].status
                         /\ jobs'[o].completedAt = jobs[o].completedAt
                         /\ jobs'[o].attempts = jobs[o].attempts
<1>1. CASE ~Stored(o)
  BY <1>1 DEF MarkWebhookFired, OnlyTouches, StoreTypeOK, Stored
<1>2. CASE Stored(o)
  <2> DEFINE row == [jobs[o] EXCEPT !.fired = TRUE]
  <2>1. jobs[o] \in JobRow
    BY <1>2 DEF StoreTypeOK, Stored
  <2>2. jobs' = [jobs EXCEPT ![o] = row]
    BY <1>2 DEF MarkWebhookFired
  <2>3. /\ row \in JobRow
        /\ row.req = jobs[o].req
        /\ row.status = jobs[o].status
        /\ row.completedAt = jobs[o].completedAt
        /\ row.attempts = jobs[o].attempts
        /\ row.fired
    BY <2>1 DEF JobRow
  <2>4. jobs'[o] = row /\ \A q \in Ops : q # o => jobs'[q] = jobs[q]
    BY <2>2 DEF StoreTypeOK
  <2>5. jobs' \in [Ops -> JobRow \cup {None}]
    BY <2>2, <2>3 DEF StoreTypeOK
  <2> HIDE DEF row
  <2> QED
    BY <1>2, <2>3, <2>4, <2>5, StoreAssumption DEF OnlyTouches, Stored
<1> QED
  BY <1>1, <1>2

LEMMA RecordAttemptEffect ==
  ASSUME StoreTypeOK, NEW o \in Ops, NEW n \in Nat, NEW t \in Nat,
         RecordWebhookAttempt(o, n, t)
  PROVE  /\ OnlyTouches(o)
         /\ Stored(o) => /\ jobs'[o].attempts = n
                         /\ jobs'[o].status = jobs[o].status
                         /\ jobs'[o].completedAt = jobs[o].completedAt
                         /\ jobs'[o].fired = jobs[o].fired
<1>1. CASE ~Stored(o)
  BY <1>1 DEF RecordWebhookAttempt, OnlyTouches, StoreTypeOK, Stored
<1>2. CASE Stored(o)
  <2> DEFINE row == [jobs[o] EXCEPT !.attempts = n, !.next = t]
  <2>1. jobs[o] \in JobRow
    BY <1>2 DEF StoreTypeOK, Stored
  <2>2. jobs' = [jobs EXCEPT ![o] = row]
    BY <1>2 DEF RecordWebhookAttempt
  <2>3. /\ row \in JobRow
        /\ row.req = jobs[o].req
        /\ row.status = jobs[o].status
        /\ row.completedAt = jobs[o].completedAt
        /\ row.fired = jobs[o].fired
        /\ row.attempts = n
    BY <2>1 DEF JobRow
  <2>4. jobs'[o] = row /\ \A q \in Ops : q # o => jobs'[q] = jobs[q]
    BY <2>2 DEF StoreTypeOK
  <2>5. jobs' \in [Ops -> JobRow \cup {None}]
    BY <2>2, <2>3 DEF StoreTypeOK
  <2> HIDE DEF row
  <2> QED
    BY <1>2, <2>3, <2>4, <2>5, StoreAssumption DEF OnlyTouches, Stored
<1> QED
  BY <1>1, <1>2

-----------------------------------------------------------------------------
(* Type correctness.                                                       *)

LEMMA RequestFields ==
  ASSUME NEW r \in Requests
  PROVE  /\ r \in Request
         /\ r # None
         /\ r.signal \in Signals
         /\ r.data # None => r.data \in Signals
         /\ ColumnsOf(r) \in Columns
<1>1. r \in Request /\ r # None
  BY RequestAssumption
<1> QED
  BY <1>1 DEF Request, ColumnsOf, Columns, Fingerprint

LEMMA InsertEffect ==
  ASSUME StoreTypeOK, NEW o \in Ops, NEW r \in Requests,
         InsertJob(o, ColumnsOf(r))
  PROVE  /\ jobs' \in [Ops -> JobRow \cup {None}]
         /\ \A q \in Ops : q # o => jobs'[q] = jobs[q]
         /\ jobs'[o] # None
         /\ jobs'[o].req = ColumnsOf(r)
         /\ jobs'[o].status = "submitted"
         /\ jobs'[o].completedAt = FALSE
         /\ jobs'[o].fired = FALSE
         /\ jobs'[o].attempts = 0
<1> DEFINE row == [req |-> ColumnsOf(r), status |-> "submitted",
                   completedAt |-> FALSE, fired |-> FALSE,
                   attempts |-> 0, next |-> 0]
<1>1. ColumnsOf(r) \in Columns
  BY RequestFields
<1>2. row \in JobRow
  BY <1>1 DEF JobRow, Statuses
<1>3. jobs' = [jobs EXCEPT ![o] = row]
  BY DEF InsertJob
<1> QED
  BY <1>2, <1>3, StoreAssumption DEF StoreTypeOK

\* Mint and the two ways a resolved request goes on.
LEMMA ResolvedType ==
  ASSUME ActTypeOK, StoreTypeOK, NEW a \in Activators, NEW r \in Requests,
         NEW s, Resolved(a, r, s)
  PROVE  /\ nextOp' \in Nat \ {0}
         /\ actPc' \in [Activators -> ActPcs]
         /\ actOp' \in [Activators -> Ops \cup {0}]
         /\ actOut' \in [Activators -> [kind : Outcomes, op : Ops \cup {0}]]
         /\ origin' \in [Ops -> Requests \cup {None}]
         /\ sawAt' \in [Ops -> SUBSET Ops]
         /\ actPc'[a] \in {"idle", "lookup", "insert"}
         /\ actPc'[a] = "insert" => actOp'[a] \in Ops
         /\ actPc'[a] = "lookup" => r.key # None
         /\ \A b \in Activators \ {a} : actPc'[b] = actPc[b] /\ actOp'[b] = actOp[b]
<1>1. CASE s \notin Supported /\ Answer(a, "unsupported", 0)
           /\ UNCHANGED <<nextOp, actOp, origin, sawAt>>
  BY <1>1 DEF Answer, Goto, ActTypeOK, ActPcs, Outcomes
<1>2. CASE r.key # None /\ Goto(a, "lookup")
           /\ UNCHANGED <<nextOp, actOp, actOut, origin, sawAt>>
  BY <1>2 DEF Goto, ActTypeOK, ActPcs
<1>3. CASE Mint(a, r) /\ Goto(a, "insert") /\ UNCHANGED actOut
  BY <1>3, StoreAssumption DEF Goto, Mint, ActTypeOK, ActPcs, Ops
<1> QED
  BY <1>1, <1>2, <1>3 DEF Resolved

LEMMA ActivateType ==
  ASSUME TypeInv, ActivateNext
  PROVE  TypeInv'
<1> USE DEF TypeInv, TypeOK
<1>1. PollTypeOK' /\ PurgeTypeOK' /\ PollShape'
  BY DEF ActivateNext, pollVars, purgeVars, PollTypeOK, PurgeTypeOK, PollShape
<1>2. ASSUME NEW s \in Dynamic, SignalStep(s)
      PROVE  StoreTypeOK' /\ ActTypeOK' /\ ActShape'
  BY <1>2, RequestAssumption DEF SignalStep, CacheProposal, ExpireProposal,
     PurgeSignal, storeVars, StoreTypeOK, ActTypeOK, ActShape
<1>3. ASSUME NEW a \in Activators, ActivateStep(a)
      PROVE  StoreTypeOK' /\ ActTypeOK' /\ ActShape'
  <2>1. ASSUME NEW r \in Requests, Receive(a, r)
        PROVE  StoreTypeOK' /\ ActTypeOK' /\ ActShape'
    <3>1. StoreTypeOK' /\ catalog' \in SUBSET Signals /\ proposals' \in SUBSET Signals
      BY <2>1 DEF Receive, storeVars, StoreTypeOK, ActTypeOK
    <3>2. actReq' = [actReq EXCEPT ![a] = r] /\ r \in Requests
      BY <2>1 DEF Receive
    <3>3. CASE Resolved(a, r, r.signal)
      BY <3>1, <3>2, <3>3, ResolvedType DEF ActTypeOK, ActShape
    <3>4. CASE /\ Goto(a, IF r.data # None THEN "store" ELSE "cache")
               /\ UNCHANGED <<nextOp, actOp, actOut, origin, sawAt>>
      BY <3>1, <3>2, <3>4, RequestFields DEF Goto, ActTypeOK, ActShape, ActPcs
    <3> QED
      BY <2>1, <3>3, <3>4 DEF Receive
  <2>2. CASE StoreCallerProposal(a)
    <3>1. actReq[a] \in Requests /\ actReq[a].data \in Signals
      BY <2>2 DEF StoreCallerProposal, ActShape
    <3> QED
      BY <2>2, <3>1, ResolvedType
      DEF StoreCallerProposal, storeVars, StoreTypeOK, ActTypeOK, ActShape
  <2>3. CASE ReadProposal(a)
    <3>1. StoreTypeOK' /\ UNCHANGED <<actReq, actOp>>
      BY <2>3 DEF ReadProposal, storeVars, StoreTypeOK
    <3>2. CASE Goto(a, "promote") /\ UNCHANGED actOut
      BY <2>3, <3>1, <3>2 DEF ReadProposal, Goto, ActTypeOK, ActShape, ActPcs
    <3>3. CASE Answer(a, "not_found", 0)
      BY <2>3, <3>1, <3>3 DEF ReadProposal, Goto, Answer, ActTypeOK, ActShape,
         ActPcs, Outcomes
    <3> QED
      BY <2>3, <3>2, <3>3 DEF ReadProposal
  <2>4. CASE PromoteProposal(a)
    <3>1. actReq[a].signal \in Signals
      BY <2>4, RequestFields DEF PromoteProposal, ActShape
    <3> QED
      BY <2>4, <3>1 DEF PromoteProposal, Goto, storeVars, StoreTypeOK,
         ActTypeOK, ActShape, ActPcs
  <2>5. CASE EvictProposal(a)
    <3>1. actReq[a] \in Requests
      BY <2>5 DEF EvictProposal, ActShape
    <3>2. proposals' \in SUBSET Signals
      BY <2>5 DEF EvictProposal, ActTypeOK
    <3> QED
      BY <2>5, <3>1, <3>2, ResolvedType
      DEF EvictProposal, storeVars, StoreTypeOK, ActTypeOK, ActShape
  <2>6. CASE LookupMiss(a)
    <3>1. actReq[a] \in Requests
      BY <2>6 DEF LookupMiss, ActShape
    <3> QED
      BY <2>6, <3>1, StoreAssumption DEF LookupMiss, Mint, Goto, storeVars,
         StoreTypeOK, ActTypeOK, ActShape, ActPcs, Ops
  <2>7. CASE LookupReplay(a)
    BY <2>7 DEF LookupReplay, Answer, Goto, storeVars, StoreTypeOK, ActTypeOK,
       ActShape, ActPcs, Outcomes
  <2>8. CASE LookupConflict(a)
    BY <2>8 DEF LookupConflict, Answer, Goto, storeVars, StoreTypeOK, ActTypeOK,
       ActShape, ActPcs, Outcomes
  <2>9. CASE Insert(a)
    <3>1. actOp[a] \in Ops /\ actReq[a] \in Requests
      BY <2>9 DEF Insert, ActShape
    <3>2. jobs' \in [Ops -> JobRow \cup {None}]
      BY <2>9, <3>1, InsertEffect DEF Insert
    <3> QED
      BY <2>9, <3>1, <3>2 DEF Insert, Goto, StoreTypeOK, ActTypeOK, ActShape,
         ActPcs
  <2>10. CASE LogSubmitted(a)
    BY <2>10 DEF LogSubmitted, AppendEvent, Answer, Goto, StoreTypeOK,
       ActTypeOK, ActShape, ActPcs, Outcomes, Statuses
  <2>11. CASE AbortActivate(a)
    BY <2>11, StoreAssumption DEF AbortActivate, Fault, Answer, Goto,
       StoreTypeOK, ActTypeOK, ActShape, ActPcs, Outcomes
  <2> QED
    BY <1>3, <2>1, <2>2, <2>3, <2>4, <2>5, <2>6, <2>7, <2>8, <2>9, <2>10, <2>11
    DEF ActivateStep
<1> QED
  BY <1>1, <1>2, <1>3 DEF ActivateNext

LEMMA NextAttemptType ==
  ASSUME PollTypeOK, NEW n \in Nat \ {0}
  PROVE  NextAttemptAt(n) \in Nat
<1>1. CASE n >= MaxAttempts
  BY <1>1 DEF NextAttemptAt
<1>2. CASE ~(n >= MaxAttempts)
  <2>1. n \in 1..MaxAttempts
    BY <1>2, PollAssumption
  <2>2. Backoff(n) \in Nat /\ MaxClock \in Nat
    BY <2>1, PollAssumption
  <2> QED
    BY <2>2, PollAssumption DEF NextAttemptAt, PollTypeOK
<1> QED
  BY <1>1, <1>2

\* What a suspended poll's copy of the row looks like to the SMT solver.
LEMMA RowFields ==
  ASSUME NEW row \in JobRow
  PROVE  /\ row # None
         /\ row.attempts \in Nat
         /\ row.status \in Statuses
         /\ FirstStep[row.status] \in {"start", "finish", "gate"}
BY StoreAssumption DEF JobRow, Statuses, FirstStep

LEMMA PollType ==
  ASSUME TypeInv, PollNext
  PROVE  TypeInv'
<1> USE DEF TypeInv, TypeOK
<1>1. ActTypeOK' /\ PurgeTypeOK' /\ ActShape'
  BY DEF PollNext, actVars, purgeVars, ActTypeOK, PurgeTypeOK, ActShape
<1>2. CASE Tick
  BY <1>1, <1>2, PollAssumption
  DEF Tick, storeVars, StoreTypeOK, PollTypeOK, PollShape
<1>3. ASSUME NEW p \in Pollers, PollStep(p)
      PROVE  StoreTypeOK' /\ PollTypeOK' /\ PollShape'
  <2> USE DEF PollPcs, PollGoto
  <2>1. ASSUME NEW o \in Ops, PollRead(p, o)
        PROVE  StoreTypeOK' /\ PollTypeOK' /\ PollShape'
    <3>1. jobs[o] \in JobRow
      BY <2>1 DEF PollRead, Stored, StoreTypeOK
    <3>2. FirstStep[jobs[o].status] \in {"start", "finish", "gate"}
      BY <3>1, RowFields
    <3>3. overlapped' \in SUBSET Ops
      BY <2>1 DEF PollRead, PollTypeOK
    <3> QED
      BY <2>1, <3>1, <3>2, <3>3
      DEF PollRead, storeVars, StoreTypeOK, PollTypeOK, PollShape
  <2>2. CASE SetWorking(p)
    <3>1. OnlyTouches(pollOp[p])
      BY <2>2, UpdateStatusEffect DEF SetWorking, PollShape, Statuses
    <3> QED
      BY <2>2, <3>1 DEF SetWorking, OnlyTouches, StoreTypeOK, PollTypeOK, PollShape
  <2>3. CASE LogWorking(p)
    BY <2>3 DEF LogWorking, AppendEvent, Statuses, StoreTypeOK, PollTypeOK, PollShape
  <2>4. CASE SetCompleted(p)
    <3>1. OnlyTouches(pollOp[p])
      BY <2>4, UpdateStatusEffect DEF SetCompleted, PollShape, Statuses
    <3> QED
      BY <2>4, <3>1 DEF SetCompleted, OnlyTouches, StoreTypeOK, PollTypeOK, PollShape
  <2>5. CASE LogCompleted(p)
    BY <2>5 DEF LogCompleted, AppendEvent, Statuses, StoreTypeOK, PollTypeOK, PollShape
  <2>6. CASE LogOnPurgedJob(p) \/ SkipDelivery(p)
    BY <2>6 DEF LogOnPurgedJob, SkipDelivery, storeVars, StoreTypeOK, PollTypeOK, PollShape
  <2>7. CASE RejectUrl(p)
    <3>1. OnlyTouches(pollOp[p])
      BY <2>7, MarkFiredEffect DEF RejectUrl, PollShape
    <3> QED
      BY <2>7, <3>1 DEF RejectUrl, OnlyTouches, StoreTypeOK, PollTypeOK, PollShape
  <2>8. CASE StartDelivery(p)
    BY <2>8 DEF StartDelivery, storeVars, StoreTypeOK, PollTypeOK, PollShape
  <2>9. CASE DeliveryAccepted(p)
    BY <2>9 DEF DeliveryAccepted, storeVars, StoreTypeOK, PollTypeOK, PollShape
  <2>10. CASE DeliveryFailed(p)
    BY <2>10 DEF DeliveryFailed, storeVars, StoreTypeOK, PollTypeOK, PollShape
  <2>11. CASE MarkFired(p)
    <3>1. OnlyTouches(pollOp[p])
      BY <2>11, MarkFiredEffect DEF MarkFired, PollShape
    <3> QED
      BY <2>11, <3>1 DEF MarkFired, OnlyTouches, StoreTypeOK, PollTypeOK, PollShape
  <2>12. CASE CountSuccess(p)
    <3>1. pollOp[p] \in Ops /\ pollRow[p].attempts + 1 \in Nat
      BY <2>12, RowFields DEF CountSuccess, PollShape
    <3>2. OnlyTouches(pollOp[p])
      BY <2>12, <3>1, RecordAttemptEffect DEF CountSuccess
    <3> QED
      BY <2>12, <3>2 DEF CountSuccess, OnlyTouches, StoreTypeOK, PollTypeOK, PollShape
  <2>13. CASE CatchStatement(p) \/ AbortPoll(p)
    BY <2>13, StoreAssumption
    DEF CatchStatement, AbortPoll, Fault, StoreTypeOK, PollTypeOK, PollShape
  <2>14. CASE ScheduleRetry(p)
    <3>1. pollOp[p] \in Ops /\ pollRow[p].attempts + 1 \in Nat \ {0}
      BY <2>14, RowFields DEF ScheduleRetry, PollShape
    <3>2. OnlyTouches(pollOp[p])
      BY <2>14, <3>1, RecordAttemptEffect, NextAttemptType DEF ScheduleRetry
    <3> QED
      BY <2>14, <3>2 DEF ScheduleRetry, OnlyTouches, StoreTypeOK, PollTypeOK, PollShape
  <2> QED
    BY <1>3, <2>1, <2>2, <2>3, <2>4, <2>5, <2>6, <2>7, <2>8, <2>9, <2>10, <2>11,
       <2>12, <2>13, <2>14 DEF PollStep, PollProgress
<1> QED
  BY <1>1, <1>2, <1>3 DEF PollNext

LEMMA PurgeType ==
  ASSUME TypeInv, PurgeNext
  PROVE  TypeInv'
<1> USE DEF TypeInv, TypeOK
<1>1. ActTypeOK' /\ PollTypeOK' /\ ActShape' /\ PollShape'
  BY DEF PurgeNext, actVars, pollVars, ActTypeOK, PollTypeOK, ActShape, PollShape
<1>2. CASE JobAges
  BY <1>1, <1>2 DEF JobAges, AgeJob, storeVars, StoreTypeOK, PurgeTypeOK
<1>3. ASSUME NEW g \in Purgers, PurgeStep(g)
      PROVE  StoreTypeOK' /\ PurgeTypeOK'
  <2> USE DEF PurgePcs, PurgeGoto
  <2>1. CASE SelectDoomed(g)
    BY <2>1 DEF SelectDoomed, storeVars, StoreTypeOK, PurgeTypeOK
  <2>2. CASE DeleteEvents(g)
    BY <2>2 DEF DeleteEvents, StoreTypeOK, PurgeTypeOK
  <2>3. CASE DeleteJobs(g)
    BY <2>3 DEF DeleteJobs, StoreTypeOK, PurgeTypeOK
  <2>4. CASE AbortPurge(g)
    BY <2>4, StoreAssumption DEF AbortPurge, Fault, StoreTypeOK, PurgeTypeOK
  <2> QED
    BY <1>3, <2>1, <2>2, <2>3, <2>4 DEF PurgeStep, PurgeProgress
<1> QED
  BY <1>1, <1>2, <1>3 DEF PurgeNext

LEMMA InitType == Init => TypeInv
BY StoreAssumption, RequestAssumption, PollAssumption
DEF Init, StoreInit, ActInit, PollInit, PurgeInit, TypeInv, TypeOK, ActShape,
    PollShape, StoreTypeOK, ActTypeOK, PollTypeOK, PurgeTypeOK, ActPcs, Outcomes,
    PollPcs, PurgePcs

LEMMA NextType == TypeInv /\ [Next]_vars => TypeInv'
<1> SUFFICES ASSUME TypeInv, [Next]_vars PROVE TypeInv'
  OBVIOUS
<1>1. CASE UNCHANGED vars
  BY <1>1 DEF vars, storeVars, actVars, pollVars, purgeVars, TypeInv, TypeOK,
     ActShape, PollShape, StoreTypeOK, ActTypeOK, PollTypeOK, PurgeTypeOK
<1> QED
  BY <1>1, ActivateType, PollType, PurgeType DEF Next

\* Every reachable state is well typed, whatever the requests and bounds.
THEOREM TypeCorrect == Spec => []TypeOK
<1>1. TypeInv => TypeOK
  BY DEF TypeInv
<1> QED
  BY <1>1, InitType, NextType, PTL DEF Spec

\* The same with what suspended requests hold, for the proofs that follow.
LEMMA AlwaysTyped == Spec => []TypeInv
BY InitType, NextType, PTL DEF Spec

-----------------------------------------------------------------------------
(* The three kinds of steps a request takes, as far as the operation ids   *)
(* are concerned.                                                          *)

OthersKept(a) ==
  \A b \in Activators \ {a} :
    /\ actPc'[b] = actPc[b]
    /\ actReq'[b] = actReq[b]
    /\ actOp'[b] = actOp[b]
    /\ actOut'[b] = actOut[b]

\* It mints an id, having found no row with its key.
MintStep(a) ==
  /\ Mint(a, actReq'[a])
  /\ actPc'[a] = "insert"
  /\ UNCHANGED <<storeVars, actOut>>
  /\ actReq'[a].key # None =>
       \A o \in Ops : Stored(o) => jobs[o].req.key # actReq'[a].key

\* It leaves rows and ids alone, and may answer.
QuietStep(a) ==
  /\ UNCHANGED <<jobs, nextOp, actOp, origin, sawAt>>
  /\ ~Writing(a)'
  /\ \A o \in Ops : ~Stored(o) => events'[o] = events[o]
  /\ \/ actPc'[a] # "idle" /\ actOut'[a] = actOut[a]
     \/ actOut'[a].kind \in {"unsupported", "not_found", "failed"}
     \/ /\ actPc[a] = "log"
        /\ actReq'[a] = actReq[a]
        /\ actOut'[a] = [kind |-> "accepted", op |-> actOp[a]]
     \/ /\ actReq'[a] = actReq[a]
        /\ actReq[a] \in Requests
        /\ actReq[a].key # None
        /\ \E o \in Ops :
             /\ Stored(o)
             /\ jobs[o].req.key = actReq[a].key
             /\ actOut'[a].op = o
             /\ \/ /\ actOut'[a].kind = "replayed"
                   /\ BodyMatches(jobs[o].req, actReq[a])
                \/ /\ actOut'[a].kind = "conflict"
                   /\ ~BodyMatches(jobs[o].req, actReq[a])

LEMMA ResolvedKind ==
  ASSUME ActTypeOK, NEW a \in Activators, NEW r \in Requests, NEW s,
         Resolved(a, r, s), actReq'[a] = r, UNCHANGED storeVars,
         \A b \in Activators \ {a} : actReq'[b] = actReq[b]
  PROVE  OthersKept(a) /\ (MintStep(a) \/ QuietStep(a))
<1>1. CASE s \notin Supported /\ Answer(a, "unsupported", 0)
           /\ UNCHANGED <<nextOp, actOp, origin, sawAt>>
  BY <1>1 DEF Answer, Goto, ActTypeOK, OthersKept, QuietStep, Writing, storeVars
<1>2. CASE Goto(a, "lookup") /\ UNCHANGED <<nextOp, actOp, actOut, origin, sawAt>>
  BY <1>2 DEF Goto, ActTypeOK, OthersKept, QuietStep, Writing, storeVars
<1>3. CASE r.key = None /\ Mint(a, r) /\ Goto(a, "insert") /\ UNCHANGED actOut
  BY <1>3 DEF Goto, ActTypeOK, OthersKept, MintStep, Mint
<1> QED
  BY <1>1, <1>2, <1>3 DEF Resolved

LEMMA StepKinds ==
  ASSUME TypeInv, NEW a \in Activators, ActivateStep(a)
  PROVE  OthersKept(a) /\ (MintStep(a) \/ Insert(a) \/ QuietStep(a))
<1> USE DEF TypeInv, TypeOK
<1>1. ASSUME NEW r \in Requests, Receive(a, r)
      PROVE  OthersKept(a) /\ (MintStep(a) \/ QuietStep(a))
  <2>1. /\ actReq'[a] = r
        /\ \A b \in Activators \ {a} : actReq'[b] = actReq[b]
        /\ UNCHANGED storeVars
    BY <1>1 DEF Receive, ActTypeOK
  <2>2. CASE Resolved(a, r, r.signal)
    BY <2>1, <2>2, ResolvedKind
  <2>3. CASE /\ Goto(a, IF r.data # None THEN "store" ELSE "cache")
             /\ UNCHANGED <<nextOp, actOp, actOut, origin, sawAt>>
    BY <2>1, <2>3 DEF Goto, ActTypeOK, OthersKept, QuietStep, Writing, storeVars
  <2> QED
    BY <1>1, <2>2, <2>3 DEF Receive
<1>2. CASE StoreCallerProposal(a)
  BY <1>2, ResolvedKind DEF StoreCallerProposal, ActShape
<1>3. CASE ReadProposal(a)
  BY <1>3 DEF ReadProposal, Answer, Goto, ActTypeOK, OthersKept, QuietStep,
     Writing, storeVars
<1>4. CASE PromoteProposal(a)
  BY <1>4 DEF PromoteProposal, Goto, ActTypeOK, OthersKept, QuietStep,
     Writing, storeVars
<1>5. CASE EvictProposal(a)
  BY <1>5, ResolvedKind DEF EvictProposal, ActShape
<1>6. CASE LookupMiss(a)
  BY <1>6 DEF LookupMiss, RowsWithKey, Mint, Goto, ActTypeOK, OthersKept,
     MintStep, storeVars
<1>7. CASE LookupReplay(a)
  BY <1>7 DEF LookupReplay, IsOriginal, RowsWithKey, Answer, Goto, ActTypeOK,
     ActShape, OthersKept, QuietStep, Writing, storeVars
<1>8. CASE LookupConflict(a)
  BY <1>8 DEF LookupConflict, IsOriginal, RowsWithKey, Answer, Goto, ActTypeOK,
     ActShape, OthersKept, QuietStep, Writing, storeVars
<1>9. CASE Insert(a)
  BY <1>9 DEF Insert, Goto, ActTypeOK, OthersKept
<1>10. CASE LogSubmitted(a)
  BY <1>10 DEF LogSubmitted, AppendEvent, Answer, Goto, ActTypeOK, StoreTypeOK,
     OthersKept, QuietStep, Writing
<1>11. CASE AbortActivate(a)
  BY <1>11 DEF AbortActivate, Answer, Goto, ActTypeOK, OthersKept, QuietStep,
     Writing
<1> QED
  BY <1>1, <1>2, <1>3, <1>4, <1>5, <1>6, <1>7, <1>8, <1>9, <1>10, <1>11
  DEF ActivateStep

-----------------------------------------------------------------------------
(* Idempotency.                                                            *)

LEMMA BodyMatchesTells ==
  ASSUME NEW q \in Requests, NEW r \in Requests, r.key # None, q.key = r.key
  PROVE  /\ BodyMatches(ColumnsOf(q), r) =>
              /\ q.signal = r.signal
              /\ q.destination = r.destination
              /\ q.via = "mcp" /\ r.via = "mcp" => q.body = r.body
         /\ ~BodyMatches(ColumnsOf(q), r) => q.body # r.body
<1>1. /\ ColumnsOf(q).print = Fingerprint(q)
      /\ ColumnsOf(q).signal = q.signal
      /\ ColumnsOf(q).destination = q.destination
  BY DEF ColumnsOf
<1>2. q.body # None /\ r.body # None
  BY RequestAssumption, StoreAssumption DEF Request
<1>3. q.body = r.body => q.signal = r.signal /\ q.destination = r.destination
  BY RequestAssumption
<1> QED
  BY <1>1, <1>2, <1>3 DEF BodyMatches, Fingerprint

LEMMA IdemMint ==
  ASSUME TypeInv, IdemInv, NEW a \in Activators, OthersKept(a), MintStep(a),
         UNCHANGED pollVars, ActShape'
  PROVE  IdemInv'
<1> USE DEF TypeInv, TypeOK, IdemInv
<1>1. /\ nextOp \in Ops
      /\ nextOp' = nextOp + 1
      /\ actOp'[a] = nextOp
      /\ origin' = [origin EXCEPT ![nextOp] = actReq'[a]]
      /\ sawAt' = [sawAt EXCEPT ![nextOp] = {o \in Ops : Stored(o)}]
      /\ UNCHANGED <<jobs, events, actOut>>
      /\ actPc'[a] = "insert"
  BY DEF MintStep, Mint, storeVars, ActTypeOK
<1>2. \A o \in Ops : Fresh(o)' <=> Fresh(o)
  BY <1>1 DEF Fresh, Stored, InFlight, pollVars
<1>3. Ops \subseteq Nat /\ \A o \in Ops : Stored(o) => o < nextOp
  BY <1>1, StoreAssumption DEF FreshOps, Fresh, Ops
<1>4. ~Minted(nextOp) /\ Fresh(nextOp)
  BY <1>1, <1>3 DEF OwnedOps, FreshOps
<1>5. FreshOps'
  <2>1. \A o \in Ops : o >= nextOp' => Fresh(o)'
    BY <1>1, <1>2, StoreAssumption DEF FreshOps, Ops
  <2>2. ASSUME NEW b \in Activators, actPc'[b] = "insert"
        PROVE  actOp'[b] \in Ops /\ Fresh(actOp'[b])
    BY <1>1, <1>4, <2>2 DEF FreshOps, OthersKept, ActShape
  <2>3. ASSUME NEW b \in Activators, actPc'[b] = "insert"
        PROVE  Fresh(actOp[b])'
    BY <1>1, <2>2, <2>3 DEF Fresh, Stored, InFlight, pollVars
  <2> QED
    BY <2>1, <2>3 DEF FreshOps
<1>6. actReq'[a] \in Requests /\ actReq'[a] # None
  BY <1>1, RequestFields DEF ActShape
<1>7. OwnedOps'
  <2>1. \A o \in Ops : Minted(o)' <=> (Minted(o) \/ o = nextOp)
    BY <1>1, <1>6 DEF Minted, ActTypeOK
  <2>2. \A o \in Ops : Minted(o) => origin'[o] = origin[o]
    BY <1>1, <1>4 DEF Minted, ActTypeOK
  <2>3. \A o \in Ops : Minted(o)' => o < nextOp'
    BY <1>1, <1>3, <2>1 DEF OwnedOps
  <2>4. \A b \in Activators \ {a} : Writing(b)' => Writing(b) /\ actOp'[b] = actOp[b]
    BY DEF OthersKept, Writing
  <2>5. \A b \in Activators \ {a} : Writing(b)' =>
           /\ actOp[b] \in Ops
           /\ Minted(actOp[b])
           /\ actOp[b] # nextOp
           /\ origin[actOp[b]] = actReq[b]
    BY <1>4, <2>4 DEF OwnedOps, ActShape, Writing
  <2>6. \A b \in Activators : Writing(b)' =>
           Minted(actOp[b])' /\ (origin[actOp[b]] = actReq[b])'
    <3>1. Minted(actOp[a])' /\ (origin[actOp[a]] = actReq[a])'
      BY <1>1, <1>6 DEF Minted, ActTypeOK
    <3>2. \A b \in Activators \ {a} : Writing(b)' =>
             Minted(actOp[b])' /\ (origin[actOp[b]] = actReq[b])'
      BY <2>1, <2>2, <2>5 DEF OthersKept, Minted
    <3> QED
      BY <3>1, <3>2
  <2>7. \A b, c \in Activators : Writing(b)' /\ Writing(c)' /\ b # c
           => actOp'[b] # actOp'[c]
    BY <1>1, <2>4, <2>5 DEF OwnedOps
  <2>8. \A o \in Ops : Stored(o)' =>
           Minted(o)' /\ (jobs[o].req = ColumnsOf(origin[o]))'
    <3> SUFFICES ASSUME NEW o \in Ops, jobs[o] # None
                 PROVE  Minted(o)' /\ jobs[o].req = ColumnsOf(origin'[o])
      BY <1>1 DEF Stored, ColumnsOf, Fingerprint
    <3>1. Minted(o) /\ jobs[o].req = ColumnsOf(origin[o])
      BY DEF OwnedOps, Stored
    <3> QED
      BY <2>1, <2>2, <3>1
  <2>9. \A q \in Ops : \A o \in sawAt'[q] : o < nextOp'
    <3> SUFFICES ASSUME NEW q \in Ops, NEW o \in sawAt'[q]
                 PROVE  o < nextOp + 1
      BY <1>1
    <3>1. CASE q = nextOp
      BY <1>1, <1>3, <3>1 DEF ActTypeOK
    <3>2. CASE q # nextOp
      <4>1. o \in sawAt[q] /\ o \in Ops
        BY <1>1, <3>2 DEF ActTypeOK
      <4>2. o < nextOp
        BY <4>1 DEF OwnedOps
      <4> QED
        BY <1>1, <1>3, <4>1, <4>2
    <3> QED
      BY <3>1, <3>2
  <2> QED
    BY <2>3, <2>6, <2>7, <2>8, <2>9 DEF OwnedOps
<1>8. AnsweredOps' /\ \A o \in Ops : Minted(o) => origin'[o] = origin[o]
  BY <1>1, <1>4, <1>6 DEF AnsweredOps, Minted, ActTypeOK
<1>9. DuplicatesOnlyFromRaces'
  <2> SUFFICES ASSUME NEW o \in Ops, NEW q \in Ops, Minted(o)', Minted(q)',
                      o # q, origin'[o].key # None,
                      origin'[o].key = origin'[q].key
               PROVE  o \notin sawAt'[q]
    BY DEF DuplicatesOnlyFromRaces
  <2>1. CASE q = nextOp
    <3>1. origin'[q] = actReq'[a] /\ origin'[o] = origin[o]
      BY <1>1, <2>1 DEF ActTypeOK
    <3>2. ASSUME Stored(o) PROVE FALSE
      <4>1. jobs[o].req.key = origin[o].key
        <5>1. jobs[o].req = ColumnsOf(origin[o])
          BY <3>2 DEF OwnedOps
        <5> QED
          BY <5>1 DEF ColumnsOf
      <4> QED
        <5>1. origin'[o].key = actReq'[a].key /\ actReq'[a].key # None
          BY <2>1, <3>1
        <5>2. jobs[o].req.key # actReq'[a].key
          BY <3>2, <5>1 DEF MintStep
        <5> QED
          BY <3>1, <4>1, <5>1, <5>2
    <3> QED
      BY <1>1, <2>1, <3>2 DEF ActTypeOK
  <2>2. CASE o = nextOp /\ q # nextOp
    BY <1>1, <1>3, <2>2 DEF OwnedOps, ActTypeOK
  <2>3. CASE o # nextOp /\ q # nextOp
    <3>1. Minted(o) /\ Minted(q) /\ origin[o].key # None
          /\ origin[o].key = origin[q].key /\ sawAt'[q] = sawAt[q]
      BY <1>1, <2>3 DEF Minted, ActTypeOK
    <3> QED
      BY <3>1 DEF DuplicatesOnlyFromRaces
  <2> QED
    BY <2>1, <2>2, <2>3
<1>10. AnswersFaithful'
  <2> SUFFICES ASSUME NEW b \in Activators, actPc'[b] = "idle"
               PROVE  /\ b # a
                      /\ actPc[b] = "idle"
                      /\ actReq'[b] = actReq[b]
                      /\ actOut'[b] = actOut[b]
                      /\ actOut[b].kind \in {"accepted", "replayed", "conflict"}
                           => origin'[actOut[b].op] = origin[actOut[b].op]
    BY DEF AnswersFaithful, FaithfulTo
  <2> QED
    BY <1>1, <1>8 DEF OthersKept, AnsweredOps
<1> QED
  BY <1>5, <1>7, <1>8, <1>9, <1>10

LEMMA IdemInsert ==
  ASSUME TypeInv, IdemInv, NEW a \in Activators, OthersKept(a), Insert(a),
         UNCHANGED pollVars
  PROVE  IdemInv'
<1> USE DEF TypeInv, TypeOK, IdemInv
<1> DEFINE op == actOp[a]
<1>1. /\ op \in Ops
      /\ actReq[a] \in Requests
      /\ Writing(a)
      /\ Writing(a)'
      /\ actPc'[a] = "log"
      /\ UNCHANGED <<events, nextOp, actReq, actOp, actOut, origin, sawAt>>
  BY DEF Insert, Goto, ActTypeOK, ActShape, Writing
<1>2. /\ \A q \in Ops : q # op => jobs'[q] = jobs[q]
      /\ jobs'[op].req = ColumnsOf(actReq[a])
  BY <1>1, InsertEffect DEF Insert
<1>3. Minted(op) /\ origin[op] = actReq[a]
  BY <1>1 DEF OwnedOps
<1>4. \A b \in Activators \ {a} : Writing(b)' => Writing(b) /\ actOp[b] # op
  BY <1>1 DEF OwnedOps, OthersKept, Writing
<1>5. FreshOps'
  <2>1. \A o \in Ops : o # op => (Fresh(o)' <=> Fresh(o))
    BY <1>1, <1>2 DEF Fresh, Stored, InFlight, pollVars
  <2>2. op < nextOp
    BY <1>1, <1>3 DEF OwnedOps
  <2>3. \A o \in Ops : o >= nextOp' => Fresh(o)'
    BY <1>1, <2>1, <2>2, StoreAssumption DEF FreshOps, Ops, ActTypeOK
  <2>4. ASSUME NEW b \in Activators, actPc'[b] = "insert"
        PROVE  Fresh(actOp[b])'
    <3>1. b # a /\ actPc[b] = "insert" /\ actOp[b] # op /\ actOp[b] \in Ops
      BY <1>1, <1>4, <2>4 DEF OthersKept, Writing, ActShape
    <3>2. Fresh(actOp[b])
      BY <3>1 DEF FreshOps
    <3> QED
      BY <1>1, <1>2, <3>1, <3>2 DEF Fresh, Stored, InFlight, pollVars
  <2> QED
    BY <2>3, <2>4 DEF FreshOps
<1>6. OwnedOps'
  <2>1. \A o \in Ops : Minted(o)' <=> Minted(o)
    BY <1>1 DEF Minted
  <2>2. \A o \in Ops : Minted(o)' => o < nextOp'
    BY <1>1, <2>1 DEF OwnedOps
  <2>3. \A b \in Activators : Writing(b)' =>
           Minted(actOp[b])' /\ (origin[actOp[b]] = actReq[b])'
    BY <1>1, <1>3, <1>4 DEF OwnedOps, Minted
  <2>4. \A b, c \in Activators : Writing(b)' /\ Writing(c)' /\ b # c
           => actOp'[b] # actOp'[c]
    BY <1>1, <1>4 DEF OwnedOps
  <2>5. \A o \in Ops : Stored(o)' =>
           Minted(o)' /\ (jobs[o].req = ColumnsOf(origin[o]))'
    <3> SUFFICES ASSUME NEW o \in Ops, jobs'[o] # None
                 PROVE  Minted(o) /\ jobs'[o].req = ColumnsOf(origin[o])
      BY <1>1, <2>1 DEF Stored, ColumnsOf, Fingerprint
    <3>1. CASE o = op
      BY <1>2, <1>3, <3>1
    <3>2. CASE o # op
      <4>1. jobs'[o] = jobs[o] /\ Stored(o)
        BY <1>2, <3>2 DEF Stored
      <4> QED
        BY <4>1 DEF OwnedOps
    <3> QED
      BY <3>1, <3>2
  <2>6. \A q \in Ops : \A o \in sawAt'[q] : o < nextOp'
    BY <1>1 DEF OwnedOps
  <2> QED
    BY <2>2, <2>3, <2>4, <2>5, <2>6 DEF OwnedOps
<1>7. AnsweredOps' /\ DuplicatesOnlyFromRaces'
  BY <1>1 DEF AnsweredOps, DuplicatesOnlyFromRaces, Minted
<1>8. AnswersFaithful'
  <2> SUFFICES ASSUME NEW b \in Activators, actPc'[b] = "idle"
               PROVE  actPc[b] = "idle"
    BY <1>1 DEF AnswersFaithful, FaithfulTo
  <2> QED
    BY <1>1 DEF OthersKept
<1> QED
  BY <1>5, <1>6, <1>7, <1>8

LEMMA IdemQuiet ==
  ASSUME TypeInv, IdemInv, NEW a \in Activators, OthersKept(a), QuietStep(a),
         UNCHANGED pollVars
  PROVE  IdemInv'
<1> USE DEF TypeInv, TypeOK, IdemInv
<1>1. /\ UNCHANGED <<jobs, nextOp, actOp, origin, sawAt>>
      /\ \A o \in Ops : ~Stored(o) => events'[o] = events[o]
      /\ ~Writing(a)'
  BY DEF QuietStep
<1>2. \A b \in Activators : Writing(b)' =>
         b # a /\ Writing(b) /\ actReq'[b] = actReq[b]
  BY <1>1 DEF OthersKept, Writing
<1>3. FreshOps'
  <2>1. \A o \in Ops : Fresh(o) => Fresh(o)'
    BY <1>1 DEF Fresh, Stored, InFlight, pollVars
  <2>2. \A o \in Ops : o >= nextOp' => Fresh(o)'
    BY <1>1, <2>1 DEF FreshOps
  <2>3. ASSUME NEW b \in Activators, actPc'[b] = "insert"
        PROVE  Fresh(actOp[b])'
    <3>1. actPc[b] = "insert" /\ actOp[b] \in Ops
      BY <1>1, <2>3 DEF OthersKept, Writing, ActShape
    <3>2. Fresh(actOp[b])
      BY <3>1 DEF FreshOps
    <3> QED
      BY <1>1, <3>1, <3>2 DEF Fresh, Stored, InFlight, pollVars
  <2> QED
    BY <2>2, <2>3 DEF FreshOps
<1>4. OwnedOps'
  <2>1. \A b \in Activators : Writing(b)' =>
           Minted(actOp[b])' /\ (origin[actOp[b]] = actReq[b])'
    BY <1>1, <1>2 DEF OwnedOps, Minted
  <2>2. \A b, c \in Activators : Writing(b)' /\ Writing(c)' /\ b # c
           => actOp'[b] # actOp'[c]
    BY <1>1, <1>2 DEF OwnedOps
  <2> QED
    BY <1>1, <2>1, <2>2 DEF OwnedOps, Minted, Stored, ColumnsOf, Fingerprint
<1>5. DuplicatesOnlyFromRaces'
  BY <1>1 DEF DuplicatesOnlyFromRaces, Minted
<1>6. \A b \in Activators \ {a} : actPc'[b] = actPc[b] /\ actReq'[b] = actReq[b]
                                   /\ actOut'[b] = actOut[b]
  BY DEF OthersKept
<1>7. SUFFICES
        /\ actOut'[a].kind \in {"accepted", "replayed", "conflict"}
             => actOut'[a].op \in Ops /\ Minted(actOut'[a].op)
        /\ actPc'[a] = "idle" => FaithfulTo(actOut'[a], actReq'[a])
  <2>1. AnsweredOps'
    BY <1>1, <1>6, <1>7 DEF AnsweredOps, Minted
  <2>2. AnswersFaithful'
    BY <1>1, <1>6, <1>7 DEF AnswersFaithful, FaithfulTo
  <2> QED
    BY <1>3, <1>4, <1>5, <2>1, <2>2
<1>8. CASE actPc'[a] # "idle" /\ actOut'[a] = actOut[a]
  BY <1>8 DEF AnsweredOps
<1>9. CASE actOut'[a].kind \in {"unsupported", "not_found", "failed"}
  BY <1>9 DEF FaithfulTo
<1>10. CASE /\ actPc[a] = "log"
            /\ actReq'[a] = actReq[a]
            /\ actOut'[a] = [kind |-> "accepted", op |-> actOp[a]]
  BY <1>10 DEF OwnedOps, Writing, ActShape, FaithfulTo
<1>11. ASSUME NEW o \in Ops,
              actReq'[a] = actReq[a],
              actReq[a] \in Requests,
              actReq[a].key # None,
              Stored(o),
              jobs[o].req.key = actReq[a].key,
              actOut'[a].op = o,
              \/ /\ actOut'[a].kind = "replayed"
                 /\ BodyMatches(jobs[o].req, actReq[a])
              \/ /\ actOut'[a].kind = "conflict"
                 /\ ~BodyMatches(jobs[o].req, actReq[a])
       PROVE  /\ actOut'[a].op \in Ops /\ Minted(actOut'[a].op)
              /\ FaithfulTo(actOut'[a], actReq'[a])
  <2>1. Minted(o) /\ jobs[o].req = ColumnsOf(origin[o])
    BY <1>11 DEF OwnedOps
  <2>2. origin[o] \in Requests
    BY <2>1 DEF Minted, ActTypeOK
  <2>3. origin[o].key = actReq[a].key
    BY <1>11, <2>1 DEF ColumnsOf
  <2> QED
    BY <1>11, <2>1, <2>2, <2>3, BodyMatchesTells DEF FaithfulTo
<1> QED
  BY <1>8, <1>9, <1>10, <1>11 DEF QuietStep

\* Only inserts make rows, so polls and purges can only remove them.
LEMMA IdemElsewhere ==
  ASSUME TypeInv, IdemInv, UNCHANGED actVars,
         \A o \in Ops : Stored(o)' => Stored(o) /\ jobs'[o].req = jobs[o].req,
         \A o \in Ops : Fresh(o) => Fresh(o)'
  PROVE  IdemInv'
<1> USE DEF TypeInv, TypeOK, IdemInv
<1>1. UNCHANGED <<catalog, proposals, nextOp, actPc, actReq, actOp, actOut,
                  origin, sawAt>>
  BY DEF actVars
<1>2. FreshOps'
  <2>1. ASSUME NEW a \in Activators, actPc'[a] = "insert"
        PROVE  Fresh(actOp[a])'
    <3>1. actOp[a] \in Ops /\ Fresh(actOp[a])
      BY <1>1, <2>1 DEF FreshOps, ActShape
    <3> QED
      BY <1>1, <3>1 DEF Fresh, Stored, InFlight
  <2> QED
    BY <1>1, <2>1 DEF FreshOps
<1>3. OwnedOps'
  <2>1. \A o \in Ops : Stored(o)' =>
           Minted(o)' /\ (jobs[o].req = ColumnsOf(origin[o]))'
    <3> SUFFICES ASSUME NEW o \in Ops, Stored(o)'
                 PROVE  Minted(o) /\ jobs'[o].req = ColumnsOf(origin[o])
      BY <1>1 DEF Minted, ColumnsOf, Fingerprint
    <3> QED
      BY DEF OwnedOps
  <2> QED
    BY <1>1, <2>1 DEF OwnedOps, Minted, Writing
<1>4. AnsweredOps' /\ DuplicatesOnlyFromRaces' /\ AnswersFaithful'
  BY <1>1 DEF AnsweredOps, DuplicatesOnlyFromRaces, AnswersFaithful, FaithfulTo,
     Minted
<1> QED
  BY <1>2, <1>3, <1>4

\* A poll leaves every row in place and every fresh id fresh.
KeepsRows ==
  /\ \A o \in Ops : Stored(o)' => Stored(o) /\ jobs'[o].req = jobs[o].req
  /\ \A o \in Ops : Fresh(o) => Fresh(o)'

\* The same, seen from the poll that acts on op.
LEMMA PollKeeps ==
  ASSUME TypeInv, NEW p \in Pollers, pollPc[p] # "idle",
         jobs' = jobs \/ OnlyTouches(pollOp[p]),
         \A o \in Ops \ {pollOp[p]} : /\ events'[o] = events[o]
                                      /\ tries'[o] = tries[o]
                                      /\ acks'[o] = acks[o],
         \A q \in Pollers \ {p} : pollPc'[q] = pollPc[q],
         pollOp' = pollOp
  PROVE  KeepsRows
<1>1. \A o \in Ops : Stored(o)' => Stored(o) /\ jobs'[o].req = jobs[o].req
  BY DEF OnlyTouches, Stored
<1>2. ASSUME NEW o \in Ops, Fresh(o)
      PROVE  Fresh(o)'
  <2>1. o # pollOp[p]
    BY <1>2 DEF Fresh, InFlight
  <2>2. ~Stored(o)'
    BY <1>1, <1>2 DEF Fresh
  <2> QED
    BY <1>2, <2>1, <2>2 DEF Fresh, InFlight
<1> QED
  BY <1>1, <1>2 DEF KeepsRows

LEMMA PollStepKeeps ==
  ASSUME TypeInv, NEW p \in Pollers, PollStep(p)
  PROVE  KeepsRows
<1> USE DEF TypeInv, TypeOK, PollGoto
<1>1. ASSUME NEW o \in Ops, PollRead(p, o)
      PROVE  KeepsRows
  <2>1. /\ Stored(o)
        /\ UNCHANGED <<jobs, events, tries, acks>>
        /\ pollOp'[p] = o
        /\ \A q \in Pollers \ {p} : pollPc'[q] = pollPc[q] /\ pollOp'[q] = pollOp[q]
    BY <1>1 DEF PollRead, storeVars, PollTypeOK
  <2> QED
    BY <2>1 DEF KeepsRows, Fresh, Stored, InFlight
<1>2. CASE SetWorking(p) \/ SetCompleted(p)
  <2>1. OnlyTouches(pollOp[p])
    BY <1>2, UpdateStatusEffect DEF SetWorking, SetCompleted, PollShape, Statuses
  <2> QED
    BY <1>2, <2>1, PollKeeps DEF SetWorking, SetCompleted, PollTypeOK
<1>3. CASE LogWorking(p) \/ LogCompleted(p)
  BY <1>3, PollKeeps DEF LogWorking, LogCompleted, AppendEvent, PollTypeOK, StoreTypeOK
<1>4. CASE LogOnPurgedJob(p) \/ SkipDelivery(p) \/ StartDelivery(p)
             \/ DeliveryAccepted(p) \/ DeliveryFailed(p)
  BY <1>4, PollKeeps DEF LogOnPurgedJob, SkipDelivery, StartDelivery,
     DeliveryAccepted, DeliveryFailed, storeVars, PollTypeOK
<1>5. CASE RejectUrl(p) \/ MarkFired(p)
  <2>1. OnlyTouches(pollOp[p])
    BY <1>5, MarkFiredEffect DEF RejectUrl, MarkFired, PollShape
  <2> QED
    BY <1>5, <2>1, PollKeeps DEF RejectUrl, MarkFired, PollTypeOK
<1>6. CASE CountSuccess(p) \/ ScheduleRetry(p)
  <2>1. pollOp[p] \in Ops /\ pollRow[p].attempts + 1 \in Nat \ {0}
    BY <1>6, RowFields DEF CountSuccess, ScheduleRetry, PollShape
  <2>2. OnlyTouches(pollOp[p])
    BY <1>6, <2>1, RecordAttemptEffect, NextAttemptType DEF CountSuccess, ScheduleRetry
  <2> QED
    BY <1>6, <2>2, PollKeeps DEF CountSuccess, ScheduleRetry, PollTypeOK
<1>7. CASE CatchStatement(p) \/ AbortPoll(p)
  BY <1>7, PollKeeps DEF CatchStatement, AbortPoll, PollTypeOK
<1> QED
  BY <1>1, <1>2, <1>3, <1>4, <1>5, <1>6, <1>7 DEF PollStep, PollProgress

LEMMA PurgeKeeps ==
  ASSUME TypeInv, PurgeNext
  PROVE  KeepsRows
<1> USE DEF TypeInv, TypeOK
<1>1. UNCHANGED <<tries, acks, pollPc, pollOp>>
  BY DEF PurgeNext, pollVars
<1>2. /\ \A o \in Ops : jobs'[o] \in {jobs[o], None}
      /\ \A o \in Ops : events'[o] \in {events[o], {}}
  BY StoreAssumption DEF PurgeNext, PurgeStep, PurgeProgress, SelectDoomed,
     DeleteEvents, DeleteJobs, AbortPurge, JobAges, AgeJob, storeVars, StoreTypeOK
<1> QED
  BY <1>1, <1>2 DEF KeepsRows, Fresh, Stored, InFlight

LEMMA IdemStep == TypeInv /\ TypeInv' /\ IdemInv /\ [Next]_vars => IdemInv'
<1> SUFFICES ASSUME TypeInv, TypeInv', IdemInv, [Next]_vars
             PROVE  IdemInv'
  OBVIOUS
<1>1. CASE ActivateNext
  <2>1. ActShape'
    BY DEF TypeInv
  <2>2. UNCHANGED pollVars
    BY <1>1 DEF ActivateNext
  <2>3. ASSUME NEW a \in Activators, ActivateStep(a)
        PROVE  IdemInv'
    BY <2>1, <2>2, <2>3, StepKinds, IdemMint, IdemInsert, IdemQuiet
  <2>4. ASSUME NEW s \in Dynamic, SignalStep(s)
        PROVE  IdemInv'
    <3>1. UNCHANGED <<storeVars, nextOp, actPc, actReq, actOp, actOut, origin, sawAt>>
      BY <2>4 DEF SignalStep, CacheProposal, ExpireProposal, PurgeSignal
    <3> QED
      BY <2>2, <3>1 DEF IdemInv, FreshOps, OwnedOps, AnsweredOps, Fresh, Stored,
         DuplicatesOnlyFromRaces, AnswersFaithful, FaithfulTo, Minted, Writing,
         InFlight, ColumnsOf, Fingerprint, storeVars, pollVars
  <2> QED
    BY <1>1, <2>3, <2>4 DEF ActivateNext
<1>2. CASE PollNext
  <2>1. KeepsRows
    <3>1. CASE Tick
      BY <3>1 DEF Tick, KeepsRows, Fresh, Stored, InFlight, storeVars
    <3> QED
      BY <1>2, <3>1, PollStepKeeps DEF PollNext
  <2> QED
    BY <1>2, <2>1, IdemElsewhere DEF PollNext, KeepsRows
<1>3. CASE PurgeNext
  BY <1>3, PurgeKeeps, IdemElsewhere DEF PurgeNext, KeepsRows
<1>4. CASE UNCHANGED vars
  BY <1>4 DEF vars, IdemInv, FreshOps, OwnedOps, AnsweredOps, Fresh, Stored,
     DuplicatesOnlyFromRaces, AnswersFaithful, FaithfulTo, Minted, Writing,
     InFlight, ColumnsOf, Fingerprint, storeVars, actVars, pollVars
<1> QED
  BY <1>1, <1>2, <1>3, <1>4 DEF Next

LEMMA IdemInit == Init => IdemInv
BY StoreAssumption, RequestAssumption
DEF Init, StoreInit, ActInit, PollInit, IdemInv, FreshOps, OwnedOps, AnsweredOps,
    Fresh, Stored, InFlight, DuplicatesOnlyFromRaces, AnswersFaithful, FaithfulTo,
    Minted, Writing

LEMMA AlwaysIdem == Spec => []IdemInv
BY AlwaysTyped, IdemInit, IdemStep, PTL DEF Spec

\* A second operation for a key comes only from a lookup that could not see
\* the first one's row.
THEOREM KeysRespected == Spec => []DuplicatesOnlyFromRaces
<1>1. IdemInv => DuplicatesOnlyFromRaces
  BY DEF IdemInv
<1> QED
  BY <1>1, AlwaysIdem, PTL

\* Replays and conflicts tell the truth about the original request.
THEOREM ReplaysFaithful == Spec => []AnswersFaithful
<1>1. IdemInv => AnswersFaithful
  BY DEF IdemInv
<1> QED
  BY <1>1, AlwaysIdem, PTL

-----------------------------------------------------------------------------
(* Promotion of proposals.                                                 *)

LEMMA PromotedInit == Init => PromotedFirst
BY DEF Init, ActInit, PromotedFirst

\* What a step of a request does to the catalog and the cache.
LEMMA RequestPromotes ==
  ASSUME TypeInv, NEW a \in Activators, ActivateStep(a)
  PROVE  /\ catalog \subseteq catalog'
         /\ proposals' # proposals =>
              actPc[a] = "evict" /\ proposals' = proposals \ {actReq[a].signal}
         /\ \A b \in Activators \ {a} : actPc'[b] = actPc[b] /\ actReq'[b] = actReq[b]
         /\ actPc'[a] = "evict" => actReq'[a].signal \in catalog'
<1> USE DEF TypeInv, TypeOK, ActTypeOK
<1>1. CASE PromoteProposal(a)
  BY <1>1 DEF PromoteProposal, Goto
<1>2. CASE \E r \in Requests : Receive(a, r)
  BY <1>2 DEF Receive, Resolved, Answer, Goto
<1>3. CASE StoreCallerProposal(a)
  BY <1>3 DEF StoreCallerProposal, Resolved, Answer, Goto
<1>4. CASE ReadProposal(a)
  BY <1>4 DEF ReadProposal, Answer, Goto
<1>5. CASE EvictProposal(a)
  BY <1>5 DEF EvictProposal, Resolved, Answer, Goto
<1>6. CASE LookupMiss(a) \/ LookupReplay(a) \/ LookupConflict(a)
  BY <1>6 DEF LookupMiss, LookupReplay, LookupConflict, Answer, Goto
<1>7. CASE Insert(a) \/ LogSubmitted(a) \/ AbortActivate(a)
  BY <1>7 DEF Insert, LogSubmitted, AbortActivate, Answer, Goto
<1> QED
  BY <1>1, <1>2, <1>3, <1>4, <1>5, <1>6, <1>7 DEF ActivateStep

LEMMA PromotedStep == TypeInv /\ PromotedFirst /\ [Next]_vars => PromotedFirst'
<1> SUFFICES ASSUME TypeInv, PromotedFirst, [Next]_vars
             PROVE  PromotedFirst'
  OBVIOUS
<1>1. ASSUME NEW a \in Activators, ActivateStep(a)
      PROVE  PromotedFirst'
  BY <1>1, RequestPromotes DEF PromotedFirst
<1>2. ASSUME NEW s \in Dynamic, SignalStep(s)
      PROVE  PromotedFirst'
  BY <1>2 DEF SignalStep, CacheProposal, ExpireProposal, PurgeSignal, PromotedFirst
<1>3. CASE UNCHANGED actVars
  BY <1>3 DEF actVars, PromotedFirst
<1> QED
  BY <1>1, <1>2, <1>3 DEF Next, ActivateNext, PollNext, PurgeNext, vars

\* A signal leaves the catalog by the purge only, and the cache by its TTL or
\* once it is in the catalog.
LEMMA ProposalLeaves ==
  ASSUME TypeInv, PromotedFirst, [Next]_vars,
         NEW s \in Dynamic, s \in catalog \cup proposals,
         s \notin catalog' \cup proposals'
  PROVE  ExpireProposal(s) \/ PurgeSignal(s)
<1>1. ASSUME NEW a \in Activators, ActivateStep(a)
      PROVE  FALSE
  BY <1>1, RequestPromotes DEF PromotedFirst
<1>2. ASSUME NEW t \in Dynamic, SignalStep(t)
      PROVE  ExpireProposal(s) \/ PurgeSignal(s)
  <2>1. CASE CacheProposal(t)
    BY <2>1 DEF CacheProposal
  <2>2. CASE ExpireProposal(t)
    <3>1. s = t
      BY <2>2 DEF ExpireProposal
    <3> QED
      BY <2>2, <3>1
  <2>3. CASE PurgeSignal(t)
    <3>1. s = t
      BY <2>3 DEF PurgeSignal
    <3> QED
      BY <2>3, <3>1
  <2> QED
    BY <1>2, <2>1, <2>2, <2>3 DEF SignalStep
<1>3. ~UNCHANGED actVars
  BY DEF actVars
<1> QED
  BY <1>1, <1>2, <1>3 DEF Next, ActivateNext, PollNext, PurgeNext, vars

\* No activation that fails half way, and no two that promote one proposal
\* together, make it disappear (resolveSignal, promoteProposal).
THEOREM ProposalsSurvive == Spec => NoProposalLost
<1>1. TypeInv /\ PromotedFirst /\ [Next]_vars =>
        [\A s \in Dynamic :
           /\ s \in catalog \cup proposals
           /\ s \notin catalog' \cup proposals'
           => ExpireProposal(s) \/ PurgeSignal(s)]_vars
  BY ProposalLeaves
<1> QED
  BY <1>1, PromotedInit, PromotedStep, AlwaysTyped, PTL DEF Spec, NoProposalLost

=============================================================================
