-------------------------- MODULE ActivationStore --------------------------
(***************************************************************************)
(* The two D1 tables every activation lives in: activation_jobs, one row   *)
(* per accepted activation, and activation_events, the audit log of each   *)
(* job.  D1 executes one SQL statement at a time, so each operator below   *)
(* that primes a variable is one statement, and everything a handler does  *)
(* between two statements is a separate step of the handler's module.      *)
(*                                                                         *)
(* A job's operation id is a natural number that stands for both the id    *)
(* and submitted_at: the handler samples the two together, so ordering by  *)
(* submitted_at is ordering by id.                                         *)
(***************************************************************************)
EXTENDS Naturals

CONSTANTS
  MaxOps,        \* bound: operation ids that can be minted
  Keys,          \* idempotency keys a client may send
  Signals,       \* signal ids
  Destinations,  \* normalised destinations
  Bodies,        \* the raw tool arguments, which the fingerprint hashes
  MaxFaults,     \* bound: failed statements and evicted requests
  None           \* SQL NULL, an absent row, an absent argument

Ops == 1..MaxOps

\* webhook_url as the delivery code tells it apart: absent, https, or a
\* string that isValidWebhookUrl refuses.
Hooks == {"none", "https", "invalid"}

Statuses == {"submitted", "working", "completed"}

\* The columns an INSERT fills from the request.
Columns == [key : Keys \cup {None}, print : Bodies \cup {None},
            signal : Signals, destination : Destinations, hook : Hooks]

\* completedAt says whether completed_at is set; next is
\* webhook_next_attempt_at, 0 when NULL.
JobRow == [req : Columns, status : Statuses, completedAt : BOOLEAN,
           fired : BOOLEAN, attempts : Nat, next : Nat]

ASSUME StoreAssumption ==
  /\ MaxOps \in Nat
  /\ MaxFaults \in Nat
  /\ None \notin Keys \cup Bodies
  /\ None \notin JobRow

VARIABLES
  jobs,    \* activation_jobs: the row of each operation id, or None
  events,  \* activation_events: the event types logged for each operation id
  faults   \* how many requests or statements have failed

storeVars == <<jobs, events, faults>>

StoreTypeOK ==
  /\ jobs \in [Ops -> JobRow \cup {None}]
  /\ events \in [Ops -> SUBSET Statuses]
  /\ faults \in 0..MaxFaults

StoreInit ==
  /\ jobs = [o \in Ops |-> None]
  /\ events = [o \in Ops |-> {}]
  /\ faults = 0

Stored(o) == jobs[o] # None

-----------------------------------------------------------------------------
(* Statements.  An UPDATE of a row that is gone changes nothing.           *)

\* Faulty: webhook_next_attempt_at left NULL for the reader to compare with.
InsertJobWithNull(o, cols) ==
  jobs' = [jobs EXCEPT ![o] = [req |-> cols, status |-> "submitted",
                               completedAt |-> FALSE, fired |-> FALSE,
                               attempts |-> 0, next |-> None]]

InsertJob(o, cols) ==
  jobs' = [jobs EXCEPT ![o] = [req |-> cols, status |-> "submitted",
                               completedAt |-> FALSE, fired |-> FALSE,
                               attempts |-> 0, next |-> 0]]

\* Faulty: without the COALESCE, leaving "completed" clears completed_at.
UpdateStatusAfresh(o, s) ==
  jobs' = IF Stored(o)
          THEN [jobs EXCEPT ![o] = [@ EXCEPT !.status = s,
                                             !.completedAt = s = "completed"]]
          ELSE jobs

UpdateStatus(o, s) ==
  jobs' = IF Stored(o)
          THEN [jobs EXCEPT ![o] = [@ EXCEPT !.status = s,
                     !.completedAt = jobs[o].completedAt \/ s = "completed"]]
          ELSE jobs

MarkWebhookFired(o) ==
  jobs' = IF Stored(o)
          THEN [jobs EXCEPT ![o] = [@ EXCEPT !.fired = TRUE]]
          ELSE jobs

\* Faulty: the whole delivery state is written back, receipt included.
RecordWebhookState(o, n, t) ==
  jobs' = IF Stored(o)
          THEN [jobs EXCEPT ![o] = [@ EXCEPT !.attempts = n, !.next = t,
                                             !.fired = FALSE]]
          ELSE jobs

\* The count is the caller's, computed from the row it read earlier: an
\* absolute write, not an increment.
RecordWebhookAttempt(o, n, t) ==
  jobs' = IF Stored(o)
          THEN [jobs EXCEPT ![o] = [@ EXCEPT !.attempts = n, !.next = t]]
          ELSE jobs

\* activation_events.operation_id references activation_jobs, so the INSERT
\* needs the job's row: without it the statement throws.
AppendEvent(o, e) ==
  /\ Stored(o)
  /\ events' = [events EXCEPT ![o] = @ \cup {e}]

\* One statement throws, or the isolate that runs the request is evicted.
Fault == /\ faults < MaxFaults
         /\ faults' = faults + 1

=============================================================================
