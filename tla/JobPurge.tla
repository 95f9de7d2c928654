------------------------------ MODULE JobPurge ------------------------------
(***************************************************************************)
(* The weekly purge of activation jobs (runScheduledPurge, step 2).  It    *)
(* runs from the cron trigger and from POST /admin/purge, so two runs may  *)
(* overlap, and it takes three statements while activations and polls go   *)
(* on: select the jobs past retention, delete their events, delete them.   *)
(* submitted_at orders jobs as their operation ids do, so a cutoff is an   *)
(* operation id: the jobs up to it are older than the retention window.    *)
(***************************************************************************)
EXTENDS ActivationStore

CONSTANTS Purgers  \* purge runs that can be in flight at once

VARIABLES
  aged,     \* the jobs 1..aged are past retention
  purgePc,  \* where each purge run is suspended
  purgeTo   \* its cutoff

purgeVars == <<aged, purgePc, purgeTo>>

PurgePcs == {"idle", "events", "jobs"}

PurgeTypeOK ==
  /\ aged \in Nat
  /\ purgePc \in [Purgers -> PurgePcs]
  /\ purgeTo \in [Purgers -> Nat]

PurgeInit ==
  /\ aged = 0
  /\ purgePc = [g \in Purgers |-> "idle"]
  /\ purgeTo = [g \in Purgers |-> 0]

PurgeGoto(g, pc) == purgePc' = [purgePc EXCEPT ![g] = pc]

\* Thirty days after its submission a job is past retention.
AgeJob ==
  /\ aged' = aged + 1
  /\ UNCHANGED <<storeVars, purgePc, purgeTo>>

\* With no doomed job the run deletes nothing.
SelectDoomed(g) ==
  /\ purgePc[g] = "idle"
  /\ \E o \in Ops : Stored(o) /\ o <= aged
  /\ purgeTo' = [purgeTo EXCEPT ![g] = aged]
  /\ PurgeGoto(g, "events")
  /\ UNCHANGED <<storeVars, aged>>

\* Faulty: a strict cutoff, where SelectDoomed and DeleteJobs include it.
DeleteEventsBefore(g) ==
  /\ purgePc[g] = "events"
  /\ events' = [o \in Ops |-> IF o < purgeTo[g] THEN {} ELSE events[o]]
  /\ PurgeGoto(g, "jobs")
  /\ UNCHANGED <<jobs, faults, aged, purgeTo>>

DeleteEvents(g) ==
  /\ purgePc[g] = "events"
  /\ events' = [o \in Ops |-> IF o <= purgeTo[g] THEN {} ELSE events[o]]
  /\ PurgeGoto(g, "jobs")
  /\ UNCHANGED <<jobs, faults, aged, purgeTo>>

\* activation_events has no ON DELETE CASCADE: if a poll has logged an event
\* of a doomed job since, the DELETE fails as a whole and its error is only
\* reported.
DeleteJobs(g) ==
  /\ purgePc[g] = "jobs"
  /\ jobs' = IF \A o \in Ops : o <= purgeTo[g] => events[o] = {}
             THEN [o \in Ops |-> IF o <= purgeTo[g] THEN None ELSE jobs[o]]
             ELSE jobs
  /\ PurgeGoto(g, "idle")
  /\ UNCHANGED <<events, faults, aged, purgeTo>>

\* A statement throws (reported, and the run goes on with other tables) or
\* the isolate dies.
AbortPurge(g) ==
  /\ purgePc[g] # "idle"
  /\ Fault
  /\ PurgeGoto(g, "idle")
  /\ UNCHANGED <<jobs, events, aged, purgeTo>>

PurgeProgress(g) == SelectDoomed(g) \/ DeleteEvents(g) \/ DeleteJobs(g)

PurgeStep(g) == PurgeProgress(g) \/ AbortPurge(g)

=============================================================================
