--------------------------- MODULE CatalogSeeding ---------------------------
(***************************************************************************)
(* How signals get into D1: the automatic seed of each isolate, the admin  *)
(* endpoints, the publisher sync and the promotion of generated signals,   *)
(* all ending in the loop of upsertSignal over a list; deploys that change *)
(* the list; the purge of generated signals.  Each action is one D1 or KV  *)
(* call, or what runs between two of them.                                 *)
(***************************************************************************)
EXTENDS Naturals, FiniteSets, Sequences

CONSTANTS
  Isolates,    \* isolates of the worker
  Runs,        \* slots for requests and cron jobs in flight
  Release,     \* Release[v]: the signals version v of the code ships, in order
  Feed,        \* the publisher's signals (syn_*), in order
  Dynamic,     \* generated signals that may be promoted
  Ruled,       \* the signals that carry rules
  MaxWipes,    \* bound: reseeds
  MaxFailures, \* bound: failing statements and cancelled requests
  Nowhere      \* no isolate

Versions == DOMAIN Release

SignalsOf(list) == {list[i] : i \in DOMAIN list}

Shipped(v) == SignalsOf(Release[v])

Signals == UNION {Shipped(v) : v \in Versions} \cup SignalsOf(Feed) \cup Dynamic

Lists == {Release[v] : v \in Versions} \cup {Feed} \cup {<<d>> : d \in Dynamic}

ASSUME CatalogAssumption ==
  /\ Versions = 1..Len(Release) /\ Release # <<>>
  /\ \A l \in Lists : l \in Seq(Signals) /\ l # <<>>
  /\ \A v \in Versions : Cardinality(Shipped(v)) = Len(Release[v])
  /\ IsFiniteSet(Dynamic)
  /\ \A v \in Versions : Shipped(v) \cap Dynamic = {}
  /\ MaxWipes \in Nat
  /\ MaxFailures \in Nat
  /\ Nowhere \notin Isolates

VARIABLES
  deployed,  \* the version new isolates run
  code,      \* the version each isolate runs
  checked,   \* seedCheckedInIsolate
  catalog,   \* the rows of signals
  copies,    \* how many copies of its rules a signal has in signal_rules
  flags,     \* the KV keys seed:complete:v<n>, by n
  run,       \* the requests and jobs in flight
  wipes,     \* reseeds begun
  failures,  \* failed statements and cancelled requests so far
  \* History, read by properties only:
  seen,      \* signals written since the catalog was last emptied
  raced,     \* signals two runs were writing at once
  torn       \* signals whose writing was cut short

seedVars == <<deployed, code, checked, catalog, copies, flags, run, wipes,
              failures, seen, raced, torn>>

Stages == {"idle", "flag", "wipe", "count", "row", "rules", "insert", "put"}

Idle == [stage |-> "idle"]

\* A run writes its list from position `at' on.  Maybe-runs (maybeSeed,
\* /admin/seed-now) first count the rows and set the KV flag at the end; the
\* others (reseed, /seed, sync, promotion) just write.  home is the isolate
\* whose flag a failing maybeSeed resets, while that isolate gets requests.
Run == [stage : Stages \ {"idle"}, maybe : BOOLEAN, list : Lists,
        at : Nat \ {0}, home : Isolates \cup {Nowhere}]

Free(r) == run[r].stage = "idle"

Busy(r) == run[r].stage # "idle"

SeedTypeOK ==
  /\ deployed \in Versions
  /\ code \in [Isolates -> Versions]
  /\ checked \in [Isolates -> BOOLEAN]
  /\ catalog \subseteq Signals
  /\ copies \in [Signals -> Nat]
  /\ flags \subseteq Nat
  /\ run \in [Runs -> Run \cup {Idle}]
  /\ \A r \in Runs : Busy(r) => run[r].at \in DOMAIN run[r].list
  /\ wipes \in 0..MaxWipes
  /\ failures \in 0..MaxFailures
  /\ seen \subseteq Signals
  /\ raced \subseteq Signals
  /\ torn \subseteq Signals

SeedInit ==
  /\ deployed = 1
  /\ code = [i \in Isolates |-> 1]
  /\ checked = [i \in Isolates |-> FALSE]
  /\ catalog = {}
  /\ copies = [s \in Signals |-> 0]
  /\ flags = {}
  /\ run = [r \in Runs |-> Idle]
  /\ wipes = 0
  /\ failures = 0
  /\ seen = {}
  /\ raced = {}
  /\ torn = {}

-----------------------------------------------------------------------------
(* The beginnings.                                                         *)

Begin(r, home, maybe, stage, list) ==
  /\ Free(r)
  /\ run' = [run EXCEPT ![r] = [stage |-> stage, maybe |-> maybe,
                                list |-> list, at |-> 1, home |-> home]]
  /\ UNCHANGED <<deployed, code, catalog, copies, flags, failures, seen,
                 raced, torn>>

\* A request to any path that uses the catalog; the isolate's flag is set
\* before maybeSeed suspends.
StartAuto(r, i) ==
  /\ ~checked[i]
  /\ checked' = [checked EXCEPT ![i] = TRUE]
  /\ Begin(r, i, TRUE, "flag", Release[code[i]])
  /\ UNCHANGED wipes

StartNow(r, i) ==
  /\ Begin(r, Nowhere, TRUE, "count", Release[code[i]])
  /\ UNCHANGED <<checked, wipes>>

StartReseed(r, i) ==
  /\ wipes < MaxWipes
  /\ wipes' = wipes + 1
  /\ Begin(r, Nowhere, FALSE, "wipe", Release[code[i]])
  /\ UNCHANGED checked

StartDevSeed(r, i) ==
  /\ Begin(r, Nowhere, FALSE, "count", Release[code[i]])
  /\ UNCHANGED <<checked, wipes>>

\* After the catalog has been fetched: an outage of the publisher ends the
\* job without a write.
StartSync(r) ==
  /\ Begin(r, Nowhere, FALSE, "row", Feed)
  /\ UNCHANGED <<checked, wipes>>

StartPromote(r) ==
  /\ \E d \in Dynamic : Begin(r, Nowhere, FALSE, "row", <<d>>)
  /\ UNCHANGED <<checked, wipes>>

-----------------------------------------------------------------------------
(* The pipeline.                                                           *)

Goto(r, stage) == run' = [run EXCEPT ![r].stage = stage]

Leave(r) == run' = [run EXCEPT ![r] = Idle]

\* The flag's key carries the number of signals shipped, not the version.
Expected(r) == Len(run[r].list)

Finish(r) == IF run[r].maybe THEN Goto(r, "put") ELSE Leave(r)

\* maybeSeed, the KV read.
ReadFlag(r) ==
  /\ run[r].stage = "flag"
  /\ \/ Expected(r) \in flags /\ Leave(r)
     \/ Expected(r) \notin flags /\ Goto(r, "count")
  /\ UNCHANGED <<deployed, code, checked, catalog, copies, flags, wipes,
                 failures, seen, raced, torn>>

\* handleAdminReseed, DELETE FROM signals; the rules go by the cascade.
Wipe(r) ==
  /\ run[r].stage = "wipe"
  /\ catalog' = {}
  /\ copies' = [s \in Signals |-> 0]
  /\ seen' = {}
  /\ Goto(r, "count")
  /\ UNCHANGED <<deployed, code, checked, flags, wipes, failures, raced, torn>>

\* Faulty: any rows at all are a seeded catalog, as before Sec-41.
AnyRows(r) == catalog # {}

EnoughRows(r) == Cardinality(catalog) >= Expected(r)

\* runSeedPipeline up to the taxonomy, whose failures are caught.
Count(r) ==
  /\ run[r].stage = "count"
  /\ \/ run[r].maybe /\ EnoughRows(r) /\ Finish(r)
     \/ (run[r].maybe => ~EnoughRows(r)) /\ Goto(r, "row")
  /\ UNCHANGED <<deployed, code, checked, catalog, copies, flags, wipes,
                 failures, seen, raced, torn>>

Current(r) == run[r].list[run[r].at]

\* Run r is between the row of signal s and the end of its rules.
Writing(r, s) == run[r].stage \in {"rules", "insert"} /\ Current(r) = s

\* Faulty: one position too far.
AdvancePast(r) ==
  IF run[r].at <= Len(run[r].list)
  THEN run' = [run EXCEPT ![r].stage = "row", ![r].at = @ + 1]
  ELSE Finish(r)

Advance(r) ==
  IF run[r].at < Len(run[r].list)
  THEN run' = [run EXCEPT ![r].stage = "row", ![r].at = @ + 1]
  ELSE Finish(r)

\* upsertSignal, the row.
UpsertRow(r) ==
  LET s == Current(r)
  IN /\ run[r].stage = "row"
     /\ catalog' = catalog \cup {s}
     /\ seen' = seen \cup {s}
     /\ raced' = IF \E q \in Runs \ {r} : Writing(q, s) THEN raced \cup {s} ELSE raced
     /\ IF s \in Ruled THEN Goto(r, "rules") ELSE Advance(r)
     /\ UNCHANGED <<deployed, code, checked, copies, flags, wipes, failures, torn>>

\* Faulty: the old rules stay.
KeepRules(r) ==
  /\ run[r].stage = "rules"
  /\ Goto(r, "insert")
  /\ UNCHANGED <<deployed, code, checked, catalog, copies, flags, wipes, failures,
                 seen, raced, torn>>

DeleteRules(r) ==
  /\ run[r].stage = "rules"
  /\ copies' = [copies EXCEPT ![Current(r)] = 0]
  /\ Goto(r, "insert")
  /\ UNCHANGED <<deployed, code, checked, catalog, flags, wipes, failures,
                 seen, raced, torn>>

InsertRules(r) ==
  /\ run[r].stage = "insert"
  /\ Current(r) \in catalog
  /\ copies' = [copies EXCEPT ![Current(r)] = @ + 1]
  /\ Advance(r)
  /\ UNCHANGED <<deployed, code, checked, catalog, flags, wipes, failures,
                 seen, raced, torn>>

\* A call that throws ends the job; only maybeSeed has a catch, which lets
\* the isolate try again.
Abort(r) ==
  /\ Leave(r)
  /\ checked' = [i \in Isolates |-> checked[i] /\ run[r].home # i]
  /\ torn' = IF run[r].stage \in {"rules", "insert"}
             THEN torn \cup {Current(r)} ELSE torn

\* The batch refers to a signal that a reseed has deleted meanwhile.
RulesRefused(r) ==
  /\ run[r].stage = "insert"
  /\ Current(r) \notin catalog
  /\ Abort(r)
  /\ UNCHANGED <<deployed, code, catalog, copies, flags, wipes, failures,
                 seen, raced>>

PutFlag(r) ==
  /\ run[r].stage = "put"
  /\ flags' = flags \cup {Expected(r)}
  /\ Leave(r)
  /\ UNCHANGED <<deployed, code, checked, catalog, copies, wipes, failures,
                 seen, raced, torn>>

-----------------------------------------------------------------------------
(* Failures, isolates, deploys and the purge.                              *)

CallFails(r) ==
  /\ Busy(r)
  /\ failures < MaxFailures
  /\ failures' = failures + 1
  /\ Abort(r)
  /\ UNCHANGED <<deployed, code, catalog, copies, flags, wipes, seen, raced>>

\* The runtime cancels the request or its waitUntil: no catch runs.
Cancelled(r) ==
  /\ Busy(r)
  /\ failures < MaxFailures
  /\ failures' = failures + 1
  /\ Leave(r)
  /\ torn' = IF run[r].stage \in {"rules", "insert"}
             THEN torn \cup {Current(r)} ELSE torn
  /\ UNCHANGED <<deployed, code, checked, catalog, copies, flags, wipes, seen,
                 raced>>

\* Requests go to a new isolate of the current code; what the old one has in
\* flight goes on there.
Recycle(i) ==
  /\ run' = [r \in Runs |-> IF Busy(r) /\ run[r].home = i
                             THEN [run[r] EXCEPT !.home = Nowhere] ELSE run[r]]
  /\ code' = [code EXCEPT ![i] = deployed]
  /\ checked' = [checked EXCEPT ![i] = FALSE]
  /\ UNCHANGED <<deployed, catalog, copies, flags, wipes, failures, seen, raced,
                 torn>>

Deploy ==
  /\ deployed + 1 \in Versions
  /\ deployed' = deployed + 1
  /\ UNCHANGED <<code, checked, catalog, copies, flags, run, wipes, failures,
                 seen, raced, torn>>

\* Step 1 of runScheduledPurge; a signal being written is not old.
PurgeDynamic ==
  \E old \in SUBSET (catalog \cap Dynamic) \ {{}} :
    /\ \A s \in old, r \in Runs : Busy(r) => ~Writing(r, s)
    /\ catalog' = catalog \ old
    /\ copies' = [s \in Signals |-> IF s \in old THEN 0 ELSE copies[s]]
    /\ UNCHANGED <<deployed, code, checked, flags, run, wipes, failures, seen,
                   raced, torn>>

-----------------------------------------------------------------------------

Proceed(r) ==
  \/ ReadFlag(r)
  \/ Wipe(r)
  \/ Count(r)
  \/ UpsertRow(r)
  \/ DeleteRules(r)
  \/ InsertRules(r)
  \/ RulesRefused(r)
  \/ PutFlag(r)

Start(r, i) ==
  \/ StartAuto(r, i)
  \/ StartNow(r, i)
  \/ StartReseed(r, i)
  \/ StartDevSeed(r, i)

SeedNext ==
  \/ \E r \in Runs, i \in Isolates : Start(r, i)
  \/ \E r \in Runs : \/ StartSync(r) \/ StartPromote(r) \/ Proceed(r)
                     \/ CallFails(r) \/ Cancelled(r)
  \/ \E i \in Isolates : Recycle(i)
  \/ Deploy
  \/ PurgeDynamic

SeedSpec == SeedInit /\ [][SeedNext]_seedVars

\* What has begun goes on unless it fails; requests that use the catalog keep
\* reaching every isolate, and isolates do not live for ever.
SeedFairness ==
  /\ \A r \in Runs : WF_seedVars(Proceed(r))
  /\ \A i \in Isolates :
       /\ SF_seedVars(\E r \in Runs : StartAuto(r, i))
       /\ WF_seedVars(Recycle(i))

FairSeedSpec == SeedSpec /\ SeedFairness

-----------------------------------------------------------------------------

\* The flag is trusted for ever after, so it must have been earned: unless a
\* reseed has begun, a version whose flag is set misses no more of
\* its signals than rows from elsewhere (the publisher, promotions, other
\* versions) could have stood in for in the count.
FlagEarned ==
  wipes = 0 =>
    \A v \in Versions : Len(Release[v]) \in flags =>
      Cardinality(Shipped(v) \ catalog) <= Cardinality(seen \ Shipped(v))

\* A stored signal lacks its rules only while one of its writers is about to
\* write them, or after a failure cut a writer short.
RulesComplete ==
  \A s \in catalog \cap Ruled :
    copies[s] = 0 => s \in torn \/ \E r \in Runs : Busy(r) /\ Writing(r, s)

\* A signal has its rules twice only if two runs were writing it at once.
RulesOnce == \A s \in Signals : copies[s] > 1 => s \in raced

\* A catalog written and rewritten by many carries the rules it should.
RulesWhole == RulesComplete /\ RulesOnce

\* Signals of other origin have been stored, or a reseed has been tried.
Disturbed(v) == wipes > 0 \/ seen \ Shipped(v) # {}

\* What maybeSeed does achieve: without rows of other origin and without
\* reseeds, every deployed catalog is stored in the end, whatever fails.
CatalogFills ==
  \A v \in Versions :
    deployed = v ~> Shipped(v) \subseteq catalog \/ Disturbed(v) \/ deployed # v

\* seedPipeline.ts 35 and index.ts 1069: new code-shipped signals auto-land
\* after a deploy.
AutoLand ==
  \A v \in Versions \ {1} :
    deployed = v ~> Shipped(v) \subseteq catalog \/ deployed # v

=============================================================================
