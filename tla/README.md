# TLA+ verification of adcp-signals-adaptor

The adaptor is a Cloudflare Worker that serves the AdCP signals protocol over
MCP and REST: clients search a catalog of audience signals, activate one on a
destination, poll the operation, and may get a webhook when it completes. State
lives in D1 (SQLite) and KV; every request runs in some isolate, suspends at
each `await`, and may be evicted there. There is no queue and no lock: what
keeps the system correct is the order of its statements and what each of them
checks. That is what these modules model.

## Inventory

| Component | State | Operations | What is hard |
|---|---|---|---|
| Activation store (`storage/activationRepo.ts`) | `activation_jobs`, `activation_events` | insert, status update, webhook receipt, attempt count, event | statements are atomic, handlers are not |
| activate_signal (`domain/activationService.ts` 33-174, `mcp/server.ts` 1425-1535, `routes/activateSignal.ts`) | catalog, proposal cache | resolve in three stages, idempotency, insert | concurrent retries, reuse of a key, half-done promotion |
| Polling and delivery (`activationService.ts` 187-458) | the webhook columns | status poll, lazy advance, delivery with retries | polls that overlap, stale copies, eviction around the POST |
| Scheduled purge (`storage/scheduledPurge.ts`) | all tables | five retention steps | runs among live requests, foreign keys |
| Request signing (`domain/requestSigning.ts`, `storage/replayRepo.ts`) | `request_signing_replay` | cap check, nonce check, claim, purge | stale clock readings, check and insert apart |
| LinkedIn OAuth (`activations/auth/linkedin.ts`) | `oauth_state`, four KV keys per operator | init, callback, refresh | concurrent refresh, partial writes |
| Compliance controller (`domain/complianceController.ts`) | arm, tasks, index, owner keys in KV | arm, consume, force completion, list | read-modify-write in KV |
| Federation client (`federation/genericMcpClient.ts`) | session map, circuits (per isolate) | call, retry, probe | late results, half-open, repeated calls |
| Seeding (`domain/seedPipeline.ts`, `routes/adminReseed.ts`, `routes/adminSyncSynaptic.ts`, `index.ts` 1065) | catalog and rules, KV flag, isolate flag | maybeSeed, reseed, sync, promotion | crash between delete and seed, a count that means too little |
| Seeded accounts (`complianceController.ts` 346-391) | fixture per operator and account | seed_account | compare and put apart |
| KV logs (`signalTrace.ts`, `runAnnotations.ts`, `routes/snapshots.ts`, `vendorHealthHistory.ts`, `agenticHelpers.ts`, `agentsEndpoints.ts` 1506) | bodies and an index each | add, delete, list, clear | lost updates, caps, failed reads |
| Brand registry proxy (`routes/brandRegistry.ts`) | one KV entry per domain | resolve | overlapping revalidations |
| Spend allocator (`domain/spendAllocator.ts`) | none | allocate | rounding, floors, caps |
| MCP envelope (`mcp/server.ts`) | none | framing, version pins | pure rules |
| Search, demo pages, analytics, seller agent | none or fixtures | computations | none for a model checker |

Correctness, per component: an idempotency key gives one operation except
where two requests race, and its answers are about the right request; a job's
row, log and delivery history agree under any interleaving, and its webhook is
settled in the end; purges remove what is old and nothing else; a nonce is
claimed once per window and never past the cap; a seed flag is set only for a
catalog that earned it, and signals keep their rules; an OAuth state is used
once, tokens stay with their operator, and the three token keys agree unless
requests overlap; a one-shot directive is used once and a completed task stays
so; a circuit opens exactly on a run of failures and then cools down; lists in
KV never name an entry twice; an allocation adds up.

## The modules

- **ActivationStore**: the two D1 tables and one operator per writing
  statement. A row is a record of the columns the code reads; `completedAt` is
  whether `completed_at` is set, `next` is `webhook_next_attempt_at` (0 for
  NULL). `activation_events` is, per job, the set of event types logged.
  Operation ids are 1, 2, ...: the handler samples the id and `submitted_at`
  together, so `ORDER BY submitted_at` is the order of ids.
- **ActivateSignal**: one slot of `Activators` per request in flight, one
  action per stretch between two awaits. `Receive` is the D1 lookup of the
  signal and what follows it; `StoreCallerProposal`, `ReadProposal`,
  `PromoteProposal`, `EvictProposal` are the other resolution stages;
  `LookupMiss`, `LookupReplay`, `LookupConflict` the idempotency decision;
  `Insert` and `LogSubmitted` the two statements of `createActivationJob`;
  `AbortActivate` a statement that throws or an eviction, at any await. The rest
  of the system shows as `CacheProposal` (a search), `ExpireProposal` (the KV
  TTL) and `PurgeSignal` (step 1 of the purge).
- **PollOperation**: one slot of `Pollers` per poll in flight. `PollRead` is the
  only read of the row; `SetWorking`/`LogWorking` and
  `SetCompleted`/`LogCompleted` the two statements of each status update;
  `SkipDelivery`, `RejectUrl`, `StartDelivery` the gate; `DeliveryAccepted` and
  `DeliveryFailed` the answer; `MarkFired`, `CountSuccess`, `ScheduleRetry` the
  writes; `CatchStatement` a write that throws into the retry path.
- **JobPurge**: step 2 of `runScheduledPurge`, one action per statement, runs of
  `Purgers` overlapping (cron and `POST /admin/purge`).
- **ActivationSystem**: the composition of the four, its fairness and its
  properties.
- **ActivationInvariants**: the inductive strengthening of its properties.
- **ActivationContract**: what an operation is to a client, abstractly: unknown,
  accepted on fixed terms, completed, closed; delivered only when completed (or by
  a delivery that outlives the job), with a receipt only on evidence.
  ActivationSystem refines it: `Phase` reads a stored row as accepted or
  completed, an id that is yet to be inserted as unknown, any other as closed.
- **NonceCache**: what a replay cache promises, abstractly: one claim per
  (key id, nonce) at a time, ended by its expiry only, at most `Cap` per key id.
- **ReplayStore**: `D1ReplayStore` in the order the SDK's verifier calls it
  (cap, nonce, signature, insert; `requestSigning.ts` 39-47), each request with
  the one clock reading it started with, and the purge of expired rows. It
  refines NonceCache under the mapping that reads a row as a claim while the
  real clock has not reached `expires_at`.
- **CatalogSeeding**: `run` holds the requests and jobs that write signals, each
  one a list, a position and a stage; `flags` is the set of counts `n` whose KV
  key `seed:complete:v<n>` is set; `code` and `checked` are the version and the
  module variable of each isolate. `StartAuto`, `StartNow`, `StartReseed`,
  `StartDevSeed`, `StartSync`, `StartPromote` are the six beginnings;
  `ReadFlag`, `Wipe`, `Count`, `PutFlag` the KV and D1 calls of the pipeline;
  `UpsertRow`, `DeleteRules`, `InsertRules` the three statements of
  `upsertSignal`; `CallFails` a call that throws (into `maybeSeed`'s catch, if
  there is one), `Cancelled` an invocation that is cut off without a catch,
  `Recycle` and `Deploy` a new isolate and a new release.
- **LinkedInAuth**: `states` is the table `oauth_state`, `kv` three keys per
  operator with a value and the day it lapses. Token pairs are numbered as the
  provider mints them; `honoured` are the refresh tokens it accepts.
  `ConsumeState` is the `DELETE ... RETURNING`; `ExchangeCode` and `Refresh` the
  provider's answers, with or without a new refresh token; `ReadKey` and
  `PutKey` one KV call of a `Promise.all` each, in any order.
- **ComplianceController**: one slot of `Callers` per call in flight.
  `Arm` is the put of a directive; `Peek`, `Consume`, `PutTask`, `PutOwner`,
  `ReadIndex`, `AppendIndex` the KV calls of
  `checkAndConsumeGetSignalsArm`; `FindTask`, `PutCompleted`, `Deliver` those of
  `forceTaskCompletion`; `LookUpOwn`, `LookUpOwner` those of `getComplianceTask`.
  Directives carry a number, so that properties can tell two with one task id
  apart. `renewed` are the tasks stored again since their index was, which
  therefore lapse after it (`LapseTask`, `LapseIndex`); `outlived` and `held`
  are history: tasks whose index has lapsed, and lookups whose caller has had
  the task ever since they began.
- **SeededAccounts**: `seed_account`, a get and a put.
- **FederationClient**: one agent's URL in one isolate: `session` is its entry in
  `_sessions`, `circuit`, `failed` and `calm` its circuit. `Greeted` and
  `Notified` are the two halves of `initializeSession`; `Answered`, `Errs`,
  `Renew`, `SessionError` the answers to a tool call; `Forget` is the agent
  losing its sessions.
- **KvLogs**: one list in KV, in four variants (`log`) that differ in whether
  entries have bodies, whether the cap refuses or drops, whether a failed read
  counts as an empty list, and what can be deleted or saved again.
- **BrandCache**: one domain's entry and the versions of the brand the registry
  has published.
- **SpendAllocator**: `allocateSpend` as operators over one request. `Splits` are
  the shares a strategy may give before floors and the correction: more than one
  where the code floors a product of floats (`Floored`). `Questions` are the
  requests the handler lets pass: it validates neither floors, caps nor
  percentages, and a budget of less than half a cent becomes 0 cents.
- **MCActivation**, **MCReplay**, **MCCatalog**: instances for TLC. **MCServices**
  instantiates the last seven modules together. They share no key, row or
  variable, so a variable `focus`, chosen in the initial state, says which of
  them moves: their state spaces are added, not multiplied. `scope`, chosen there
  too, says which operators, tasks and accounts the compliance calls are about.

A definition preceded by a comment that begins with "Faulty" is a plausible bug
in the definition that follows it. Nothing uses these definitions; substituting
one makes the property paired with it in PROJECT.json fail.

## What each run checks

| Run | Question | Bounds |
|---|---|---|
| reuse | Is a key answered correctly, whatever requests race, fail or are purged? | 2 requests in flight, 3 operations, 3 bodies over both entrances, 1 fault, 1 purger |
| resolve | Do the three resolution stages keep proposals and keys? | 2 requests in flight, 2 generated signals, a fault, cache expiry and purge at will |
| delivery | Do row, log and deliveries agree while polls overlap, and is the contract kept? | 1 job, 2 polls, 2 attempts, 1 fault, purge, 3 instants |
| settle | Is every webhook settled? | as delivery, without the purge, under fairness |
| retention | Do old jobs go? | 2 jobs, 1 poll, 1 purger, 1 fault, under fairness |
| replay | Does the store keep its promise with stale readings? | 2 requests in flight, 2 nonces, cap 1, lifetime 1, 3 instants |
| catalog | Is the catalog seeded, with its rules, whatever fails? | 1 isolate, 2 runs, 2 releases, 1 promotable signal that is also the publisher's, 1 reseed, 1 failure; fairness |
| services | Do the seven services keep their promises? | 2 requests in flight each; see below |
| auto_land | (violated) new code-shipped signals land by themselves | 1 isolate, 1 run, 2 releases, 1 publisher signal |
| one_job_per_key | (violated) one job per key | 2 requests |
| rest_replay | (violated) no silent replay of another body | 1 request slot |
| delivery_bound | (violated) at most MAX_WEBHOOK_ATTEMPTS deliveries | 2 polls, 1 attempt |

Why the bounds suffice: every hazard here needs two actors and one step of one
of them between two steps of the other. Two slots of each kind, with ids that
never return, give all such pairs; a third operation lets a key's oldest row be
a request other than the first, and be purged. Two attempts exercise first,
retry and last; one fault may hit any statement. Idle slots are reused, so runs
are not limited to two requests overall. Every safety property of a passing run
is also proved for all values (see below).

For catalog, two runs are a writer and another one in any of its gaps; the
second release ships one signal more than the first, so counts of one release
meet rows of the other, of the publisher and of promotions; one signal has
rules. For services: two operators and one state value that can be redirected
to again and again; two token pairs, the first authorization and a refresh; a
token life, a buffer and an access-key lifetime shorter than the three days; two
sandbox operators, two task ids, two accounts and two directives for the
compliance controller (below); a
circuit with threshold 2, one retry, a session that ages in one tick; lists
with a cap of 2 and three ids, so that the cap bites; three versions and four
hours of a brand, fresh for one and kept for two; budgets from none to four
cents, three agents, scores on both sides of 0 and 1, percentages from -50 to
150, floors of -1, 0 and 2 cents, caps from -1 to 5, above any budget. Request slots of
the seven services have the same names, and so have their operators, accounts
and fixtures, so that one symmetry group serves all of them.

The compliance controller runs in one of three scopes (`Scopes`), since all of
its dimensions at once are out of reach: both operators and one task; one
operator and both tasks; one operator, one task and both accounts. In the first
two, calls that write do so in turn and name no account, and lookups overlap with
everything; in the third, writes overlap too. The first has one operator create a
task of an id the other has, or had, while it is looked up
(`HiddenOnlyIfForeign`); the second an index with another entry to lose, and one
that lapses before the tasks in it (`TasksListed`); the third the races that
`OneShot` and `CompletionStays` except, and tasks of another account. The proofs
have no such bound.

Some properties hold only while requests do not overlap or fail half-way, since
the code takes no lock. History variables mark where that has ceased to be so,
per key: `serial` (an operator's tokens), `orderly` (an operator's compliance
keys), `settled` (an account), `alone` (a list), `raced` and `torn` (a signal's
rules). Those properties say what is lost by a race or a failure, and nothing
else; the others hold whatever overlaps. No lapse of a key ends `orderly`. A task
that has outlived its index, which takes no race, is named by `outlived`, and
`TasksListed` excepts just that task until it is listed again.

Named bounds: `MaxOps` (ids that can be minted), `MaxFaults` (failed statements
and evictions), `MaxClock` (the last instant; later ones are not told apart);
`MaxWipes` (reseeds), `MaxFailures` (failing calls and cancelled jobs);
`MaxTokens`, `MaxDay`, `StateIds`, `MaxArms`, `Ids`, `MaxHour`, `MaxVersion`,
`MaxBudget`, `MaxAgents`, `Percents`, `Floors`, `Caps`, and `scope`.
Deadlock is not checked in the activation runs: a system with all ids minted
and nothing in flight really stops; nor in catalog and services, for the same reason. Symmetry over request slots (and nonces) is
used in safety runs only.

**Fairness** (`FairSpec`): a poll that has read its row and a purge that has
started go on unless evicted (weak fairness of `PollProgress`, `PurgeProgress`;
evictions are bounded by `MaxFaults`); time passes; a client keeps polling each
job (strong fairness of `PollRead` per job, since slots may be busy at any given
moment); and the weekly cron keeps starting purges (part of `PurgeProgress`).
The polling assumption is essential: the code advances nothing by itself. No
fairness is assumed of the receiver, which may fail every delivery.

**Fairness of the seeding** (`SeedFairness`): what has begun goes on unless it
fails or is cancelled (weak, per run; failures are bounded by `MaxFailures`);
requests that use the catalog keep arriving at an isolate that has not checked
yet (strong, since slots may be busy); and isolates are replaced in the end
(weak), as the platform does and as a cancelled `maybeSeed`, which leaves
`seedCheckedInIsolate` set, needs. The other new modules state no liveness.

## Where the comments and the code disagree

1. `migrations/0007` and the service promise the original response for a key
   already accepted. The lookup and the insert are two statements and the index
   is not unique: two concurrent first requests make two jobs
   (`one_job_per_key`). What does hold is `DuplicatesOnlyFromRaces`.
2. `activationService.ts` 81-82 promises a conflict for another body under the
   same key. REST requests carry no fingerprint, so a body that differs in
   webhook, campaign or notes is replayed (`rest_replay`). What does hold is
   `AnswersFaithful`.
3. `activationService.ts` 281-282 bounds the deliveries of a webhook. Overlapping
   polls deliver on the same count (`delivery_bound`). What does hold is
   `SerialDeliveries` for jobs polled one at a time, and `AttemptsAccounted`.

4. `seedPipeline.ts` 34-36 and `index.ts` 1068-1073 promise that new signals land
   after a deploy without a reseed. The count they rest on includes publisher
   and promoted rows, and the flag is keyed by the count: a release whose number
   is made up by such rows is never stored (`auto_land`). What does hold is
   `CatalogFills` without rows of other origin or reseeds, and `FlagEarned`.

Also noticed, without a run:

- LinkedIn's header comment (`linkedin.ts` 14-19) says tokens are never needed
  manually again and the refresh token serves for twelve months. The access
  token's key lapses after 90 days (500), and `getValidAccessToken` then answers
  "not authorized" (390) although a refresh token is stored. A reader between
  two of the puts of the first authorization gets the same answer.
- A provider's answer without a refresh token is stored as the empty string
  (444), with which every later call is unauthorized.
- `complianceController.ts` 445-448 calls two concurrent consumptions idempotent
  by construction. The second overwrites the task with its own account and
  webhook, also after the first was completed; hence the condition of `OneShot`
  and `CompletionStays`.
- `complianceController.ts` 629-630 describes `list_tasks` as the operator's
  tasks. `addToTaskIndex` returns at 577 without storing an index that has the
  task, and a forced completion (498) stores the task only; both give the task
  another hour (464, 498) and the index none. An index can therefore lapse before
  a task in it, which then is stored, can be polled, and is not listed until
  armed once more. No overlap is needed. `TasksListed` holds for all other tasks.
- `index.ts` 880-884 still says that the pipeline does nothing once signals exist.
- `domain/vendorHealthSnapshot.ts` speaks of one trial call in flight in the
  half-open state; the code lets every call through until one ends.
- Any tool error that contains the word session repeats the call
  (`genericMcpClient.ts` 358), also of tools that change the agent's state and
  are called without the circuit. `PlainRunsOnce` says exactly when.
- `spendAllocator.ts` 34 calls `max_usd` a maximum, 136 says that with a cap for
  every agent the capped allocation is the result even if it does not add up, and
  45 calls the floor a minimum. The difference to the budget then goes to the
  largest share all the same (158-161). With a cap for every agent that share
  exceeds its cap by any amount; caps or floors above the budget leave it short
  of both, or negative; a floor above a cap overrides it; and even beside
  uncapped agents a capped one may get the cents lost by rounding. No
  run claims lines 34, 45 or 136: `SpendSound` is what is left of them. The sum
  (19) holds always; every agent but the one that takes the difference keeps the
  floor, and gets exactly its cap or the floor if that is more; and the one
  exceeds the two only by rounding while somebody is uncapped.
- A late 304 writes an older brand body over a newer one (`brandRegistry.ts`
  203); `FetchedAtHonest` bounds how old it can be.
- A read of a list that fails is taken for an empty list (`runAnnotations.ts` 40,
  `agentsEndpoints.ts` 1533), and the next write erases it.
- The comments at `activationService.ts` 71-77 and
`routes/activateSignal.ts` 22-25 still describe the (key, signal, destination)
lookup that `activationRepo.ts` 89-95 says was replaced; the REST route maps
an idempotency conflict to 500.

## What is proved

All theorems hold for every value of the constants that satisfies the named
assumptions (`StoreAssumption`, `RequestAssumption`, `PollAssumption`,
`ReplayAssumption`, `CatalogAssumption`, `AuthAssumption`,
`ControllerAssumption`, `SeededAssumption`, `FederationAssumption`,
`LogAssumption`, `BrandAssumption`, `AllocatorAssumption`), so for any number of
requests, jobs, keys, catalogs, operators, calls, lists, budgets and lifetimes.
The assumptions say that bounds, lifetimes and thresholds are numbers, that the
sentinels (`None`, `Nil`, `Unseeded`, `Uncapped`) are not among the values, and
that requests with equal bodies have equal fields; the code's own constants meet
them.

- **ActivationProofs**. `TypeCorrect`: typing needs what a suspended request
  holds (`ActShape`, `PollShape`). `KeysRespected` and `ReplaysFaithful`: the
  invariants are not inductive alone. `IdemInv` adds that an id is unknown to
  all tables and polls until its row is inserted (`FreshOps`), that each
  id belongs to one request whose arguments its row holds (`OwnedOps`), and that
  answers name minted ids (`AnsweredOps`). `ProposalsSurvive`: a
  request about to evict a proposal from the cache has promoted it, and the
  signal is still in the catalog (`PromotedFirst`).
- **DeliveryProofs**. `LifecycleHolds`, `AttemptsHold`, `ReceiptsHaveReasons`,
  `AcksRecorded` from `DeliveryInv`: each poll's stale copy is bounded by the
  history (`PollClaim`: a copy's count is below the deliveries made by the time
  it is written back), so an old write cannot push the row ahead of it. Steps
  outside polling touch a job only by inserting it fresh, or deleting it
  (`ElsewhereStep`). `SerialPolicyKept`: as long as the polls of a job have not
  overlapped its copy is exact (`SerialCopy`), which gives the documented retry
  policy. `ContractKept`: the refinement of ActivationContract. Every statement
  is one step of the contract or none (`ContractActivate`, `ContractPoll`,
  `ContractCloses`); that an id in use is no longer awaited comes from `FreshOps`,
  that only completed jobs are delivered or receipted from `PollClaim`.
- **ReplayProofs**. `ReplayTyped`; `CapNeverExceeded`, from the fact that
  readings lie in the past (`PastReadings`), so what a stale reader counts is a
  superset of what is live; `VerdictsBacked`, because rows never outlive the
  claims they stand for (`RowsClaimed`) and claims only grow; and
  `StoreKeepsPromise`: initial states map to initial states, an `Insert` maps to
  a claim (or to nothing, if the request is so slow that it inserts an expired
  row), a tick to a tick, the purge and all else to a stutter.
- **CatalogProofs**. `SeedTypeCorrect`. `FlagsEarned`: the invariant `FlagInv`
  says that whoever is about to set a flag has earned it, either by the count,
  which bounds the missing signals by the stand-ins (`StandIns`, a
  cardinality argument), or by having written its list up to its position;
  nothing but a reseed removes a shipped signal (`StoodInStays`).
  `RulesAreWhole`: per signal, at most one copy of the rules unless two writers
  met, and none while its only writer is between delete and insert (`RulesInv`).
- **AuthProofs**. `AuthTypeCorrect` with what a suspended request holds
  (`AuthShape`). `StatesUsedOnce`: a state's row and its use exclude each other
  (`StateInv`). `TokensIsolated`: every token in a key or in a request was minted
  for its operator (`IsolationInv`). `SerialWhole` and `SerialFresh` from
  `SerialInv`: the one request of a serial operator has read the keys as they
  are, and while it stores, each key is either the old or the new one.
- **ComplianceProofs**. `CtlTypeCorrect` (`CtlShape`). `HiddenForeign`: an owner
  key names somebody who had the task (`CreatedInv`), and a lookup that is in
  `held` finds its own task and never gets to the owner key (`HeldInv`).
  `DirectivesOneShot`,
  `CompletionsStay`, `TasksAreListed` from `TidyInv` and `NumberInv`: a directive
  still stored is unused and newer numbers are too, the one call under way holds
  the directive it used, and what it still owes the index accounts for every
  task that is neither listed nor outlived (`ListedOrOutlived`).
  `SeedsMatch`: while an account is seeded by one call
  at a time, a call about to put its fixture still finds none (`SeedInv`).
- **FederationProofs**. `FedTypeCorrect`. `BreakerTrips`: `failed` counts the
  failures at the end of the history (`CircuitInv`, `FailedRun`), so late answers
  cannot desynchronise them. `BreakerCools` follows from it; `RenewalHeals` and
  `PlainOnce` from what each slot may hold (`Sound`). `DatesHonest`: a body on
  its way to the cache was the published one at the hour it is dated, whoever
  writes last (`BrandInv`).
- **ServicesProofs**. `ListsStaySound` and `ListsStayFaithful`: the copy of a
  list that its only writer is about to store is what was asked for
  (`FaithfulInv`); no list names an entry twice, or one whose body is
  gone for no known reason, whoever writes. `SharesStaySound`: the shares of every strategy add up to the budget,
  each near its exact part without floors and caps, and one agent takes the
  difference, as stated above, for any number of agents, scores, percentages,
  floors and caps, whatever floats lose; `SpendTypeCorrect` is its typing. The totals are
  recursive functions; the library's induction theorems cannot be used, so the
  module states induction about a set of numbers (`NatSetInduction`, from the well-foundedness of `<`) and proves
  that the recursion has exactly one solution (`RecursionSolved`,
  `RecursionUnique`). The lemmas about totals (`TotalsRelate`, `TotalRounded`,
  `TotalExcept`, `TotalOfSum`, `TotalGrows`) then give, for each strategy, a difference that the correction
  of one share closes (`Close`, `EqualClose`, `WeightedClose`,
  `PriorityClose`). `ServicesImplementEach`: the composition moves one service at
  a time and so implements the specification of each of the seven;
  `ServicesTypeCorrect` and `ServicesKeepPromises` carry all the results about
  them over to the instance that the run `services` checks.

Only model-checked: the liveness properties `WebhookSettles`, `AgedJobsGo` and
`CatalogFills`, since liveness under fairness is out of the prover's reach.

## Abstractions

- A signal is a name, with a fixed `activation_supported`; rows of signals and
  their rules are membership of `catalog`. Destinations are already normalised.
- A request body is a token; equal tokens mean equal arguments, which is what
  the SHA-256 fingerprint of the canonical JSON decides. A REST body that itself
  contains a fingerprint field is left out.
- Time in deliveries is counted in units of the first backoff; jobs grow old in
  the order of their ids, and no request runs for thirty days (`JobAges`), nor
  for the week a promoted signal is kept (`PurgeSignal`).
- The outcome of signing, of the network and of the receiver is one
  nondeterministic success or failure. Header parsing, key lookup and signature
  verification of inbound requests are the `invalid` outcome of `Has`, or happen
  before `Arrive`. Unsigned requests never touch the store.
- D1 executes one statement at a time.
- A reseed or a publisher sync during an activation is not composed with
  ActivationSystem; there the catalog only gains promoted signals and loses aged
  ones. Responses are modelled by their kind.
- In CatalogSeeding a signal is a name; its columns are not told apart, so an
  upsert of a stored row changes nothing but its rules. Each release ships a
  fixed sequence, the publisher another.
- KV calls are atomic and read as last written, also across regions; entries
  lapse at any moment when no request is under way that uses them, since
  lifetimes are long against a request. LinkedInAuth, where the lifetimes
  matter, has days instead.
- The provider, the agents and the brand registry are external: they answer,
  refuse, or fail at will. LinkedIn rotates refresh tokens or keeps them; it
  mints token pairs in order.
- In the compliance controller, a task and the index its own call stores are of
  one age, and then the task is taken to lapse first, where the puts are some
  milliseconds apart.
- Score weights and percentages are whole parts of 1, but the code's product of
  floats may fall just short of a whole number, and lose a cent when floored:
  `Floored` allows both results. Floors, caps and budgets are rounded to cents.
- The traces an isolate keeps in memory and the session's server info are
  diagnostics and left out.

## Not modelled, and why

- The MCP envelope, version negotiation, search and ranking, the taxonomy and
  data loaders: pure functions of one request over text and committed data,
  which unit tests reach.
- The demo site, analytics and most `/agents` routes: HTML, fixtures and
  computations without state. `schemas/adcp` is generated.
- The tool-call log: append-only, off the request path, nothing reads it back
  but a diagnostic page.
- `pollOperationStatus` and `resetAllCircuits` of the federation client: nothing
  calls them.
- The seller agent: a separate worker whose handlers run to their end without
  suspending, over maps of one isolate; its idempotency is a map look-up.
- Cryptography: webhook and request signatures, token encryption.

## Plan

The core (activation, polling, delivery, purge, replay store) came first, then
the services whose hazards were listed without a property. What would come next:

1. CatalogSeeding composed with ActivationSystem: a reseed or purge between the
   lookup of a signal and the insert of its job.
2. The media-buy lifecycle of the seller agent.
