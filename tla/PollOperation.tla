--------------------------- MODULE PollOperation ---------------------------
(***************************************************************************)
(* get_operation_status / get_task_status: the poll that moves a job       *)
(* forward and delivers its webhook.  Nothing else advances a job: there   *)
(* is no queue and no scheduler.  A poll reads the row once and decides    *)
(* everything from that copy, across as many awaits as the writes and the  *)
(* delivery take; polls of one job may run at the same time.               *)
(***************************************************************************)
EXTENDS ActivationStore

CONSTANTS
  Pollers,      \* request slots: polls that can be in flight at once
  MaxAttempts,  \* MAX_WEBHOOK_ATTEMPTS (5 in the code)
  BackoffBase,  \* the first backoff (30 seconds in the code)
  MaxClock      \* bound: the last instant; later ones are not told apart

VARIABLES
  clock,       \* Date.now(), in units of the first backoff
  pollPc,      \* where each poll is suspended
  pollOp,      \* the job it polls
  pollRow,     \* its copy of the row
  \* History, read by properties only:
  tries,       \* deliveries attempted for each job
  acks,        \* 2xx answers received for each job
  overlapped   \* jobs that two polls have had in flight together

pollVars == <<clock, pollPc, pollOp, pollRow, tries, acks, overlapped>>

PollPcs == {"idle", "start", "logWorking", "finish", "logCompleted", "gate",
            "post", "mark", "count", "retry"}

PollTypeOK ==
  /\ clock \in 0..MaxClock
  /\ pollPc \in [Pollers -> PollPcs]
  /\ pollOp \in [Pollers -> Ops \cup {0}]
  /\ pollRow \in [Pollers -> JobRow \cup {None}]
  /\ tries \in [Ops -> Nat]
  /\ acks \in [Ops -> Nat]
  /\ overlapped \in SUBSET Ops

PollInit ==
  /\ clock = 0
  /\ pollPc = [p \in Pollers |-> "idle"]
  /\ pollOp = [p \in Pollers |-> 0]
  /\ pollRow = [p \in Pollers |-> None]
  /\ tries = [o \in Ops |-> 0]
  /\ acks = [o \in Ops |-> 0]
  /\ overlapped = {}

-----------------------------------------------------------------------------

\* 30 s, 2 min, 8 min, 32 min: the delay after the n-th attempt.
Backoff(n) == BackoffBase * 4 ^ (n - 1)

ASSUME PollAssumption ==
  /\ MaxAttempts \in Nat \ {0}
  /\ MaxClock \in Nat
  /\ \A n \in 1..MaxAttempts : Backoff(n) \in Nat

\* Faulty: the delay counted in the wrong unit never runs out.
NextAttemptFarOff(n) == IF n >= MaxAttempts THEN 0 ELSE MaxClock + 1

\* next_attempt_at after attempt n: none once the attempts are used up.
NextAttemptAt(n) ==
  IF n >= MaxAttempts THEN 0
  ELSE IF clock + Backoff(n) < MaxClock THEN clock + Backoff(n) ELSE MaxClock

\* Faulty: one attempt too many.
DeliveryDueOnceMore(row) ==
  /\ row.req.hook # "none"
  /\ ~row.fired
  /\ row.attempts <= MaxAttempts
  /\ clock >= row.next

\* The delivery gate of getOperationService, on the poll's copy of the row.
DeliveryDue(row) ==
  /\ row.req.hook # "none"
  /\ ~row.fired
  /\ row.attempts < MaxAttempts
  /\ clock >= row.next

PollGoto(p, pc) == pollPc' = [pollPc EXCEPT ![p] = pc]

InFlight(p, o) == pollPc[p] # "idle" /\ pollOp[p] = o

\* Where a poll that read a row with this status suspends next.
FirstStep == [submitted |-> "start", working |-> "finish",
              completed |-> "gate"]

\* The poll's only read of the row.
PollRead(p, o) ==
  /\ pollPc[p] = "idle"
  /\ Stored(o)
  /\ pollOp' = [pollOp EXCEPT ![p] = o]
  /\ pollRow' = [pollRow EXCEPT ![p] = jobs[o]]
  /\ PollGoto(p, FirstStep[jobs[o].status])
  /\ overlapped' = IF \E q \in Pollers : InFlight(q, o)
                   THEN overlapped \cup {o} ELSE overlapped
  /\ UNCHANGED <<storeVars, clock, tries, acks>>

\* submitted -> working, whatever the row says by now.
SetWorking(p) ==
  /\ pollPc[p] = "start"
  /\ UpdateStatus(pollOp[p], "working")
  /\ PollGoto(p, "logWorking")
  /\ UNCHANGED <<events, faults, clock, pollOp, pollRow, tries, acks,
                 overlapped>>

LogWorking(p) ==
  /\ pollPc[p] = "logWorking"
  /\ AppendEvent(pollOp[p], "working")
  /\ PollGoto(p, "finish")
  /\ UNCHANGED <<jobs, faults, clock, pollOp, pollRow, tries, acks,
                 overlapped>>

\* Faulty: the poll's own copy of the row is saved, whatever became of the job.
SaveCompletedCopy(p) ==
  /\ pollPc[p] = "finish"
  /\ jobs' = [jobs EXCEPT ![pollOp[p]] =
                [pollRow[p] EXCEPT !.status = "completed", !.completedAt = TRUE]]
  /\ PollGoto(p, "logCompleted")
  /\ UNCHANGED <<events, faults, clock, pollOp, pollRow, tries, acks,
                 overlapped>>

\* working -> completed.
SetCompleted(p) ==
  /\ pollPc[p] = "finish"
  /\ UpdateStatus(pollOp[p], "completed")
  /\ PollGoto(p, "logCompleted")
  /\ UNCHANGED <<events, faults, clock, pollOp, pollRow, tries, acks,
                 overlapped>>

LogCompleted(p) ==
  /\ pollPc[p] = "logCompleted"
  /\ AppendEvent(pollOp[p], "completed")
  /\ PollGoto(p, "gate")
  /\ UNCHANGED <<jobs, faults, clock, pollOp, pollRow, tries, acks,
                 overlapped>>

\* appendEvent of a job the purge has removed meanwhile throws: the poll
\* answers 500.
LogOnPurgedJob(p) ==
  /\ pollPc[p] \in {"logWorking", "logCompleted"}
  /\ ~Stored(pollOp[p])
  /\ PollGoto(p, "idle")
  /\ UNCHANGED <<storeVars, clock, pollOp, pollRow, tries, acks, overlapped>>

\* No webhook, already fired, attempts used up, or inside the backoff window.
SkipDelivery(p) ==
  /\ pollPc[p] = "gate"
  /\ ~DeliveryDue(pollRow[p])
  /\ PollGoto(p, "idle")
  /\ UNCHANGED <<storeVars, clock, pollOp, pollRow, tries, acks, overlapped>>

\* A URL that can never be called is marked fired, without a delivery.
RejectUrl(p) ==
  /\ pollPc[p] = "gate"
  /\ DeliveryDue(pollRow[p])
  /\ pollRow[p].req.hook = "invalid"
  /\ MarkWebhookFired(pollOp[p])
  /\ PollGoto(p, "idle")
  /\ UNCHANGED <<events, faults, clock, pollOp, pollRow, tries, acks,
                 overlapped>>

\* Sign and send the POST.
StartDelivery(p) ==
  /\ pollPc[p] = "gate"
  /\ DeliveryDue(pollRow[p])
  /\ pollRow[p].req.hook = "https"
  /\ tries' = [tries EXCEPT ![pollOp[p]] = @ + 1]
  /\ PollGoto(p, "post")
  /\ UNCHANGED <<storeVars, clock, pollOp, pollRow, acks, overlapped>>

\* The receiver answers 2xx.
DeliveryAccepted(p) ==
  /\ pollPc[p] = "post"
  /\ acks' = [acks EXCEPT ![pollOp[p]] = @ + 1]
  /\ PollGoto(p, "mark")
  /\ UNCHANGED <<storeVars, clock, pollOp, pollRow, tries, overlapped>>

\* Faulty: a failure taken for a final answer, marked like a success.
DeliveryFailedForGood(p) ==
  /\ pollPc[p] = "post"
  /\ PollGoto(p, "mark")
  /\ UNCHANGED <<storeVars, clock, pollOp, pollRow, tries, acks, overlapped>>

\* The receiver answers something else, or signing fails, or the network
\* does, or five seconds pass: one retriable failure.
DeliveryFailed(p) ==
  /\ pollPc[p] = "post"
  /\ PollGoto(p, "retry")
  /\ UNCHANGED <<storeVars, clock, pollOp, pollRow, tries, acks, overlapped>>

\* The "don't retry" receipt, then the attempt count: two statements.
MarkFired(p) ==
  /\ pollPc[p] = "mark"
  /\ MarkWebhookFired(pollOp[p])
  /\ PollGoto(p, "count")
  /\ UNCHANGED <<events, faults, clock, pollOp, pollRow, tries, acks,
                 overlapped>>

CountSuccess(p) ==
  /\ pollPc[p] = "count"
  /\ RecordWebhookAttempt(pollOp[p], pollRow[p].attempts + 1, 0)
  /\ PollGoto(p, "idle")
  /\ UNCHANGED <<events, faults, clock, pollOp, pollRow, tries, acks,
                 overlapped>>

\* Either statement throwing lands in the same catch as a network error.
CatchStatement(p) ==
  /\ pollPc[p] \in {"mark", "count"}
  /\ Fault
  /\ PollGoto(p, "retry")
  /\ UNCHANGED <<jobs, events, clock, pollOp, pollRow, tries, acks,
                 overlapped>>

ScheduleRetry(p) ==
  /\ pollPc[p] = "retry"
  /\ RecordWebhookAttempt(pollOp[p], pollRow[p].attempts + 1,
                          NextAttemptAt(pollRow[p].attempts + 1))
  /\ PollGoto(p, "idle")
  /\ UNCHANGED <<events, faults, clock, pollOp, pollRow, tries, acks,
                 overlapped>>

\* Any other statement throws, or the isolate dies at any await.
AbortPoll(p) ==
  /\ pollPc[p] # "idle"
  /\ Fault
  /\ PollGoto(p, "idle")
  /\ UNCHANGED <<jobs, events, clock, pollOp, pollRow, tries, acks,
                 overlapped>>

Tick ==
  /\ clock < MaxClock
  /\ clock' = clock + 1
  /\ UNCHANGED <<storeVars, pollPc, pollOp, pollRow, tries, acks, overlapped>>

\* What a poll does once it has read its row: a request that is not evicted
\* runs to its end.
PollProgress(p) ==
  \/ SetWorking(p) \/ LogWorking(p) \/ SetCompleted(p) \/ LogCompleted(p)
  \/ LogOnPurgedJob(p)
  \/ SkipDelivery(p) \/ RejectUrl(p) \/ StartDelivery(p)
  \/ DeliveryAccepted(p) \/ DeliveryFailed(p)
  \/ MarkFired(p) \/ CountSuccess(p) \/ ScheduleRetry(p)

PollStep(p) ==
  \/ \E o \in Ops : PollRead(p, o)
  \/ PollProgress(p)
  \/ CatchStatement(p)
  \/ AbortPoll(p)

=============================================================================
