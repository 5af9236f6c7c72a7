# Guaro in TLA+

Guaro is a NestJS backend (`src/backend/src`, PostgreSQL through Prisma, Redis
queues through Bull) with a React client. It runs grocery-store operations on
the DiDi marketplace: it accepts orders, publishes menus and prices, opens and
closes stores, and tracks onboarding work as tasks with manual and automatic
steps. This directory specifies the parts of the backend in which several
processes share state, checks them with TLC and proves theorems about them with
TLAPS. Paths below are relative to `src/backend/src`.

Contents: 1 the system, 2 the plan, 3 the modules and the code, 4 the runs,
5 fairness, 6 the proofs, 7 findings, 8 limits.

## 1. The system

Everything that matters is in PostgreSQL rows. Every process of the backend runs
the HTTP controllers, the cron jobs and the Bull workers, so each of them may be
running twice or more. Parts interact by rows, by Bull jobs, by PostgreSQL
advisory locks and by HTTP calls to DiDi; nothing else is shared.

### The coordination core

| part | state | operations | interacts with | hard | right when |
|---|---|---|---|---|---|
| Operational lease `prisma/operational-lease.service.ts` | row `operational_lease` (owner token, fencing token, expiry); in memory: handle, heartbeat, loss flags | acquire, renew, assertOwned, release, withFencedTransaction, runExclusive | called by every writer of a DiDi catalog | expiry under a slow owner, a renewal in flight at release, crashes, cancellation | one owner inside a fenced transaction; checkpoints in the order of fencing tokens; calls return and orphans expire |
| Task engine `tasks/task-engine.service.ts` | `task.status`, `step_instance.status`, assignments | activate, start, complete, fail, block, retry, force-retry, assign, reassign, advanceTask, automatic handlers | jobs of the handler queue, cron jobs, the switch | advanceTask is several transactions; siblings compete for a step; handlers run for long | steps in order, one winner, done means settled, failed stays failed, nothing stuck |
| Handler queue `queue/` | Bull jobs, their ids and attempts | emitAutoStep, enqueueRecovery, process | task engine | lost publications, stalled jobs, duplicates by recovery | one effect at a time; a lost job is recovered |
| Scheduler `scheduler/scheduler.service.ts` | what a cron job has read | activate scheduled tasks, two timeouts, archive, purge | task engine | acts on what it read earlier | timeouts fail only what is still failable |
| Onboarding lifecycle `store-onboarding/store-onboarding-lifecycle.service.ts` | enrolments, prerequisites, notices | provision, enqueue domain events, recover activations and handlers | task engine, outbox | crash between two steps | recovery completes what was begun |
| Onboarding configuration `store-onboarding/store-onboarding-config.service.ts` | control row: switch, epochs; revisions of profiles | updateControl, putNotificationProfile | everything of Store Onboarding | the switch is turned under work in progress | OFF is respected at once and leaves nothing behind |
| Onboarding notifications `store-onboarding/store-onboarding-notification-dispatcher.service.ts` | outbox events, deliveries | expand, claim, post, retry, release leases | switch, profiles, a webhook | a lost answer, a slow dispatcher, late members of a digest | each delivery is taken once; nothing is sent when OFF; all end |
| Order acceptance `didi-order-webhooks/didi-order-webhooks.service.ts` | row `didi_order_webhook_event` | receive, claim, reserve, confirm, settle, second confirmation | DiDi, shop inventory | redeliveries, lost answers, dead and slow requests | at most two confirmations, ten seconds apart; what is recorded was taken; the order is confirmed |
| Go-Live `store-onboarding/store-onboarding.service.ts` | units, attempts | goLive, reconcileOnline, recover attempts | switch, emergencies, DiDi | ambiguous remote result, recovery beside the writer | a unit is online only if DiDi opened it; nothing is opened when OFF |
| Store emergencies `integrations/store-emergency.*` | emergencies, targets with leases | create, shut down, reconcile, restore, watchdog | opening guard, DiDi | opening and closing compete; a takeover from a slow worker | no store is opened under an emergency; what was closed is restored |
| Opening guard `integrations/store-opening-guard.service.ts` | the brand's advisory lock | withOpeningPermit | emergencies, CR closures, every opener | the permit is used while an emergency is being created | nobody opens a store a live emergency protects |
| Automatic opening `integrations/auto-open*` | executions, one run per brand, jobs with stable ids | request, prepare, open a brand, reconcile, recover | the guard, DiDi | the recovery beside workers that are alive; stalled jobs | one opener per brand; one report; executions end |
| Automatic turn-off `integrations/auto-turn-off*` | executions, a row per store, a chain of jobs | coordinate, claim, call, continue, finalize, stop, recover | Stock API of DiDi | redelivered, stalled and failed jobs | one call per store; done means off; executions end |
| UPC activity prices `file-integrations/upc-activity-price*` | execution with checkpoints, a lease | export, prepare, submit, poll, verify, stop, recover | operational lease, DiDi | death between a POST and its checkpoint | one upload at a time; none forgotten |
| Order forwarding `didi-order-webhooks/didi-order-forwarding.*` | deliveries with attempts | persist, publish, process, recover | order events, an HTTP endpoint | stalled worker beside its successor | every delivery ends |
| DiDi store bindings `file-integrations/didi-store-binding*` | executions with items, a lock in memory | create, cancel, take, submit, record, recover | DiDi | death and doubt around the POST; two processes | no store twice; the record is true; a doubt stops the rest |
| Brand provisioning `store-onboarding/store-onboarding-lifecycle.service.ts` | provisioning of a brand, task dependencies, requests | register, reconcile, release, hydrate, recover | task engine, switch | hooks that are lost or late | the dependencies say what the brand says; nobody waits for ever |

### The rest

Task types, form validation and completions (data); automatic handlers other
than what the engine sees of them; CR closures (one row that the guard reads) and
forced opening (an opener like Auto Open); menus, catalogs, SFTP, auto fetch
(pipelines that share the operational lease); order events and finance (arithmetic, reports);
application shop inventory (a cache); access control, accounts, brands, shops,
applications (create, read, update, delete); the web client, the promotion
manager and the scripts. `PROJECT.json` lists each with its sources and the
reason.

## 2. The plan

Done, in this order: the operational lease with its abstract specification; the
task engine with queue, scheduler and recovery; the notifications; the orders;
Go-Live; the emergencies and the opening guard with theirs; Auto Open; order
forwarding; the store bindings; the provisioning of brands; the UPC activity
prices; the automatic turn-off. Each has a module, and all but order forwarding
have theorems.

| module | extends or instantiates | proofs |
|---|---|---|
| `OperationalLease` | implements `FencedResource` | `OperationalLeaseProofs` |
| `TaskEngine` | | `TaskEngineProofs` |
| `NotificationOutbox` | | `NotificationOutboxProofs` |
| `OrderAcceptance` | | `OrderAcceptanceProofs` |
| `GoLive` | | `DidiWritesProofs` |
| `UpcActivityPrice` | extends `UpcUploads`, what DiDi sees of an execution | `DidiWritesProofs` |
| `StoreEmergency` | implements `GuardedStores` | `StoreEmergencyProofs` |
| `StoreBindings`, `BrandProvisioning` | | `StoreBindingsProofs` |
| `AutoOpen`, `AutoTurnOff` | | `OpeningsProofs` |
| `OrderForwarding` | | |

The modules whose names begin with MC are instances for TLC. Five of them put two
or three programs side by side that share nothing (`MCTasks`, `MCDeliveries`,
`MCDidiWrites`, `MCOpenings`, `MCStoreBindings`): a variable `program` says which
one runs, the others rest in a state with nothing to do. Their state spaces add
up and do not multiply, and each program is checked as if it were alone.

Left: CR closures (a second blocker beside the emergencies) and forced opening
(an opener without a recovery).

A property that is a theorem for every instance leaves its run when another one
needs the room; section 6 names those.

## 3. The modules and the code

Common conventions. A database transaction, or an UPDATE with a condition, is
one action; whatever the code does between two of them is not. A process that
reads and acts later is a process with a `pc` and with the values it has read as
its memory. "Mutant" definitions are not part of any specification: they are
variants of an operator, each with a plausible bug, and `PROJECT.json` pairs
each of them with the property that notices it. `PROJECT.json` ("map") gives the
lines of the source behind every definition.

### Operational lease

`FencedResource` says what a fenced lease promises: terms are handed out in
order, and only the holder of the latest term commits. `OperationalLease` is the
code. `owner`, `fence`, `left` are the row (`left` is `expires_at` minus the
clock of PostgreSQL); `lock` is the row lock of an open transaction; the other
variables belong to a call of `runExclusive`: `pc`, the handle (`token`,
`term`), the heartbeat (`heart`), the flags `leaseLoss` and `callerFailed`
(`stop`), the guard of the caller (`active`), and whether `assertOwned` is being
awaited (`asking`). `committed` observes the checkpoints.

* Statements: `Acquire`, `AcquireBusy`, `Renew`, `Release`, and the SELECT FOR
  UPDATE of `FencedBegin`. `CURRENT_TIMESTAMP` is the start of a transaction,
  which may then wait for the row lock: a statement sees the expiry `d` ticks
  late, for a `d` of its own up to `Stall`.
* `ensureActive` is two steps, `EnsureAsk` and `EnsureActive`, as a heartbeat can
  raise a flag while the database is asked; `EnsureFails` is its throw.
* `HeartbeatFire`, `Renew`, `RenewFails` are the heartbeat; `Stopping` is
  `stopHeartbeat`, which awaits a renewal in flight.
* `Crash` ends a process anywhere, `Cancel` is the abort signal or a guard that
  answers no, `Reserved` and `Upc` are the catalog reservation.

A lease of its own is used per resource key, so that one row is enough.
`Abstract` is the refinement mapping: the term is `fence`, the holder is the
fencing token of a row that has an owner.

### Task engine, handler queue, scheduler

`TaskEngine` has one task. `task` and `status` are the two status columns,
`claimed` says that `workedSeconds` is set (a manual step has been handed out),
`gen` is the generation of a handler's execution (`startedAt`), `job` are the
Bull jobs by id (step, epoch, generation), `run` the executions of
`advanceTask`, `due` the steps a cron job has found and not failed yet, `gate`
and `epoch` the switch. A deleted row is the status `archived`.

* `advanceTask` is a process: `ReadPending`, one `ActivateNext` per step,
  `EmitJobs` or `Finish`. `RunDies` ends it anywhere.
* People: `StartStep`, `CompleteStep`, `FailStep`, `BlockStep`, `RetryStep`,
  `ForceRetryStep`, `AssignOrReassignStep`. Without `Overrides` they act on what
  was handed to them. The code lets admins act on any step.
* Handlers: `RunHandler`, `HandlerCompletes`, `HandlerFails`, `HandlerThrows`,
  `FenceTimesOut`, `WorkerDies`. For an enrolled task the effect runs in a
  transaction with the advisory lock of its step and the shared lock of the
  switch (`fenced`); otherwise it runs before the step is claimed (`running`).
* Cron jobs: `ActivateScheduled`, `CheckBpoTimeouts`, `CheckAutoTimeouts`,
  `TimeOut`, `ArchiveOldTask`, `RecoverActivation`, `RecoverHandler`.
* `Claim` is `claimStepMutation`, `Settle` the update of a step and of its
  siblings, `Emit` a publication that may be lost.

### Onboarding notifications

`NotificationOutbox` has the events of one profile. `outbox` and `del` are the
two status columns; `due` says that `next_attempt_at` has passed; `bundle` is
the set of deliveries with which a group key was frozen, and so stands for the
key and for the Idempotency-Key derived from it (`Key`). A dispatcher is `idle`,
has `claimed` deliveries (first transaction) or is `posting` them (second
transaction, with the shared lock of the switch). `taken` is the receiver, who
is external: it drops a message whose key it knows.

Expansion takes an event from pending to its end within one transaction
(`ExpandOutboxBatch`), so that nobody sees `processing` in the outbox and the
recovery of expired event leases never finds anything. `ReleaseExpiredLeases`
is the recovery of deliveries; it does not count against the attempts.

### Order acceptance

`OrderAcceptance` has one order. The row is `status`, `acceptedCount`,
`confirmationCalls` and three flags for its timestamps: `acceptedAgo`,
`failedAgo` (ten seconds have passed) and `stale` (240 seconds have passed since
`started_at`). A request reads the row (`Receive`, `ReadEvent`), claims it by an
UPDATE with the values it has read (`ClaimNew`, `Reclaim`, `ClaimSecond`),
authenticates, reserves a confirmation (`Reserve`), posts it, and settles by the
answer (`Accept`, `Release`, `Fail`). `SecondConfirmation` is the automatic one
ten seconds later. `confirmed` counts what DiDi took (external), `fresh` says
that it may have taken one less than ten seconds ago, `overran` that a request
has outlived its deadline of 190 seconds so long that its claim became stale.

Taken from the code's use of DiDi: an answer with an errno that is no server
error proves that the confirmation was not taken; anything else proves nothing.
Left out: deliveries for another shop (answered 400, they change nothing), which
shop is resolved, the financial snapshot.

### Go-Live

`GoLive` has one unit. `stage` is its stage, `attempt` the status column of its
attempts; `aged` are those that began more than 90 seconds ago, `slow` those of
them whose request was still alive then. `gate` is the switch, `emergency` says
that the brand has one that is live, `linked` that it has credentials. `open`
and `wire` are DiDi (external): whether it says that the store is open, and the
posts it may still apply. `doubt` observes the attempts that were posted and not
answered for certain since, neither by the post nor by a later question.

* A request is `created` (its first transaction has committed), `prepared` (it
  has a token), `posting` (its second transaction holds its locks and waits for
  DiDi), `confirmed` (DiDi has said that the store is open, the transaction has
  not committed), or `finishing` (about to fail its attempt). A recovery is
  `listed`, `verifying` (its transaction holds its locks and asks DiDi) or
  `offline` (DiDi said that the store is closed; a second transaction follows).
* `Unlocked` stands for the locks: each transaction on the unit locks the row of
  the request, the brand's row FOR SHARE, and the switch in shared mode;
  `updateControl` takes the switch exclusively, and an update of the brand waits
  for its row. `createEmergency` takes the brand's advisory lock, which only the
  post holds in shared mode.
* Transactions that wait for nobody are one action: `Create`, `FinishFailed`,
  `FailOffline`, `TransitionUnit`, `ReconcileOnline`. `Record` and
  `VerifyOnline` are the second half of a transaction that waited for DiDi.
* What the gateway makes of an answer is `Confirm`, `Deny` (a rejection, or a
  store that is closed after an accepted post) and `Ambiguous` (anything else).

### UPC activity prices

`UpcActivityPrice` is one live execution for its one store. `exec`, `cancel` and
`review` are columns of its row; `saved` is the checkpoint of the store: the
state of the last upload, its number, whether items are left, whether the result
of the store is recorded. `owner` is the lease of the execution, `job` its two
BullMQ jobs, `worker` where each worker is and what it knows. `upload` is DiDi
(external).

* A delivery is `Take`, `Acquire`, `Claim`, `Shop`, `Catalog`, `Export` and then,
  upload by upload, `Loop`, `Prepare`, `Token`, `Boundary`, `Post`, `Answer`,
  `Poll`, `Check`, `Verify`; `Save` and `Finish` end the store, `Close` and
  `Stopping` the execution, `Review` leaves it to a human.
* `Fenced` is the transaction that checks the lease, so that a worker that has
  lost it writes nothing more. `Post` asks for no lease: a worker that lost it
  after `Boundary` still posts.
* `Breaks` and `BreaksLate` are the catch blocks, `Parks` is
  `markRecoveryPending`, `Recover` the timer, `Stop` a person.
* `UpcUploads` has the three variables that the outside sees and the two
  invariants about them, so that an instance can state them without the rest.

### Store emergencies and the opening guard

`StoreEmergency` is one brand. `em` are the rows of the emergencies: `due` says
that `endsAt` has passed, `fresh` that nobody has written the row since the
request that has yet to queue its job (the code compares `updatedAt`). `target`
are the rows of the stores: what became of closing (`offline`) and of reopening
(`restore`), the `lease` (again an `updatedAt`), whether a reopening was tried
and whether a reading left a doubt. `request` is a request between its
transaction and the queue, `job` and `at` are the workers, `recon` is the
reconciliation of an emergency in place. `store` is the provider (external);
`closedBy` observes which emergency closed a store that has not been opened since.

* Requests: `Create`, `Restore` (by people, or by time), `RetryFailures`,
  `UpdateReopening`; then `Queued`, `NotQueued` (with the rollback of each) or
  `RequestDies`.
* Jobs: `Start`, `ReadTargets`, per target `ClaimTarget`, `Renew`, `Write`,
  `Report`, then `Summarize` and `Finalize`; `FailEmergency` when there are no
  credentials, `WorkerDies` anywhere, `Watchdog` for `recoverStaleTransitions`.
* Reconciliation: `AppendStores`, `Inspect`, `BeginReconcile`, `EndReconcile`,
  `RefreshSummary`, `ReconciliationFails`.
* `TakePermit` and `OpenStore` are `withOpeningPermit`, for any opener.
  `NoPermit` is the brand's advisory lock taken exclusively. `Operate` is
  somebody at the provider's console.

`GuardedStores` says what this promises: an emergency begins only on stores
nobody holds; while it holds a store nobody else opens it through the
application; it closes stores only while it is shutting down or keeping them
closed, and gives one back only when it holds it alone. The mapping: an
emergency has begun when its row exists, it holds the stores it covers while it
lives (while it restores, those it has yet to give back), and it is restoring
when its row says so.

### Auto Open

`AutoOpen` is one execution. `exec` and `run` are the status columns of the
execution and of the run of each brand, `job` the jobs by their stable ids,
`actor` where each worker and each recoverer is. The `prepare` job claims the
execution, creates the runs and queues the jobs of the brands (`ClaimExecution`,
`CreateRuns`, `ReadPending`, `AddJobs`); the job of a brand claims its run, looks
at the execution and opens the stores (`ClaimRun`, `LookAtExecution`,
`FinishBrand`); whoever is through reads the runs and settles (`ReadRuns`,
`Settle`). The recovery runs in every backend, at its start and every five
minutes, beside workers that are alive: `List`, `Condemn`, `CloseOrReset`,
`ListPending`, `EnsureJob`. `strayed` observes that a worker outlived the lock of
its job. The permit of each single opening is in `StoreEmergency`.

### Automatic turn-off

`AutoTurnOff` is one execution. A coordinator creates a row for each store and
publishes the first job (`Begin`, `Preparation`, `Read`, `Create`,
`PublishFirst`); the job of a store claims its row, asks whether the execution
goes on, calls DiDi and records the answer (`Claim`, `Ensure`, `Call`,
`Answer`), and publishes the next one or ends the execution (`Continue`,
`EnqueueShop`, `Resolve`, `Finalize`). `OnFailed` is the handler of a failed job,
`Stop` a person, `Recover` the timer. `calls` counts what DiDi got (external).

### Order forwarding

`OrderForwarding` is one delivery: `delivery` is its row, `current` whether the
target is still the one it was created for, `job` and `tries` its BullMQ job.
`Persist` and `Publish` are the webhook; `Read`, `Mark`, `Refuse`, `Send`,
`Succeed` and `Fail` a worker; `Recover` the timer of thirty seconds. `strayed`
observes a worker that outlived the lock of its job.

### Store bindings

`StoreBindings` is one mass execution. An item goes from `pending` over
`processing` to `submitting`, which is written before the POST, and from there to
its result; what is found in `submitting` is never sent again. `lock` is held in
the memory of a process: two processes do not see each other's. A worker goes
through `Lock`, `Recover`, `Allow`, then per batch or page `Select`, `Claim`,
`Verify`, `Submit`, `Post`, `Persist`, `Dangling`, `Judge`; `Count` and `Write`
are the two halves of `recalculate`, which reads and writes later. DiDi does some
of a batch, and its answer says so of some stores: `mute` are those it leaves out
or contradicts itself about, which become unconfirmed (`Result`) and stop the rest
(`Doubtful`), while the others succeed or fail. `try` is whether a worker is in the
try of `process`, so that a query that fails is caught (`Throws`). `LoseLock`,
`Die` and `Restart` are what else goes wrong. `posted` and `applied` are DiDi
(external); `orphan` observes an execution that is active though no job need end
it, see section 7.

### Brand provisioning

`BrandProvisioning` has the tasks that create stores of one brand and those that
create the brand. A transaction reads in one step and writes in a later one
(`Decide` and `Register` of a new store task; `ReadTask`, `ReadProvisioning` and
`Commit` of a hook), since the rows it has read are not locked. Hooks are lost
(`Calls`, `Die`); `RecoverProvisioning` and `RecoverRequest` are the cron jobs.
`stale` observes a transaction that settled a provisioning which was no longer
as it had read it, `revived` a brand task that was retried after it failed.

## 4. The runs

| run | instance | asks |
|---|---|---|
| `lease` | 2 UPC callers with one call each, 2 tokens, a resource that may be reserved, `Ttl` 1, `Stall` 1 | silence after a loss, refinement of `FencedResource`, calls that return, orphans that expire |
| `tasks` | a task outside Store Onboarding: two people share step 1, step 2 is automatic, 2 executions of advanceTask, lost and stalled jobs. An enrolled task: a manual step, an automatic one, admins, lost publications, dying executions, handlers that outlive their transaction, the switch | of the first: `InTurn`, `OneWinner`, `NeverStranded`, `FailedStays`, `AutoEnds`. Of the second: done means settled, every handler recovered, the task closed. Of both: `OutcomesStay` |
| `task_window` | expected to fail, see 7 | `WindowEndsBlocked` |
| `task_order` | expected to fail, see 7 | `InTurn` for an enrolled task |
| `deliveries` | a digest of 2 notifications, 2 dispatchers, bundles of up to 2, 2 attempts, deaths and slow dispatchers. A forwarded order: 2 workers, 2 attempts, 2 faults | `SilentWhenOff`, `WholeBundle`, `TakenOnce`, `NotificationEnds`; `ForwardingEnds` |
| `order` | 2 requests, one names its shop, 1 other shop to try; deaths, slow requests, lost answers | `AtMostTwo`, `Separated`, `Confirmed` |
| `didi_writes` | Go-Live: 2 requests, 1 recovery, 2 attempts, the switch, an emergency, credentials, a store that others open and close. UPC prices: 2 workers, 2 uploads, 2 events | `Permitted`, `NoFailureInDoubt`, `Settled`; `OneUpload`, `Accounted`, `PricesEnd` |
| `upc_stop` | expected to fail, see 7 | `StopWaits` |
| `emergency` | one emergency of two stores, one of them registered when it likes, and 1 event; one emergency of one store and 2 events; two emergencies of one store and 1 event; 2 jobs, 1 opener | `Remembered`, `OfflineMeansClosed`, refinement of `GuardedStores` |
| `openings` | Auto Open from its request with one brand or none and 1 event, or with the jobs of two brands queued; 2 workers, 1 recoverer. One emergency of one store, 2 jobs, 1 event. A turn-off of two stores, one to be looked up, 2 workers, 2 events | `OneOpener`, `ReportedOnce`; `CalledOnce`, `DoneMeansOff`; all three end |
| `auto_open_report` | expected to fail, see 7 | `ReportedComplete` |
| `bindings` | in one backend three stores to bind in batches of two and one, or a page of two to unbind, and 1 event, or one store and 2 events; in two backends one store and 1 event; 2 workers, a request and a cancellation. Two store tasks and two brand tasks, 1 hook, 1 accident | `PostedOnce`, `RecordIsTrue`, `DoubtStops`; `BrandFirst`; both come to an end |

An event (or accident, or fault) is a death, a lost lock, a call that fails or is
not heard, an act of a person; `MaxEvents` and its like bound them.

Deadlock is not checked: callers that have used their calls, a task that is
archived, a notification, an execution or an emergency that has ended, an order
that is confirmed twice and a unit that is online are all states in which
nothing more has to happen.

The bounds and why they are enough:

* Lease. Two callers are the smallest conflict. One tick of life lets a lease
  expire at any point of a call; one tick of stall lets a statement find a lease
  alive that is over. `MaxTries` 0 gives up at once; waiting again adds states
  that differ in a counter. Tokens and callers are interchangeable, which the
  action constraint `InOrder` uses: the first caller is `w1`, the first token
  `t1`. Runs with two calls and three tokens held as well.
* Tasks. Two instances of a step are the smallest competition, two orders the
  smallest sequence, two executions of advanceTask the smallest overlap.
  `MaxAttempts` 2 has an attempt that is the last and one that is not (the
  enrolled task, whose questions are others, has 1), `MaxEpoch` 1 one OFF and ON,
  `MaxRetry` 1 one forced retry: each lets every branch of the ids of jobs be
  taken once.
* Deliveries. One bundle of one and of two members, an event that arrives after
  the freeze, two dispatchers on the same bundle, attempts as above. `Long`
  (texts that fill a message) is empty in the run and any set in the proofs.
  Forwarding has a worker beside its successor and a fault for each.
* Orders. Two requests are the smallest race for a claim; the automatic second
  confirmation is a third actor. The counts are bounded by the code.
* DiDi writes. Two attempts are one that is settled late and its successor; two
  requests and a recovery are all pairs of actors that can meet but two
  recoveries, which the invariant covers. Two uploads are one and the one that
  must not overlap it; two events are a worker that dies or loses its lease and
  one more accident of its successor.
* Emergencies. Two jobs are a worker and the one that takes over; two emergencies
  of one store are the conflict; a store registered later is what
  `AppendStores` is about. Jobs and stores are interchangeable (symmetry; the run
  is about safety).
* Openings. One brand goes through everything from the request on. Two brands,
  whose jobs are queued, share the end of the execution. Two stores of a turn-off
  are one whose job publishes the next, and one that was looked up.
* Bindings. A batch of two is one of which DiDi does or names a part, and the
  third store is the batch before or after a doubt; a page of two has a store after
  another. The three starts share out the stores, events and backends, which
  together are too many. One store with 3 events in one backend was checked as
  well; with 2 events in two backends `WorkEnds` fails once more (section 7). Two
  hooks at a time and two brand tasks were also checked; one hook beside
  the cron jobs is enough for every race of section 7.

What the bounds hide, the theorems of section 6 cover for the safety. Liveness
holds for these instances. The type invariants of `OrderForwarding` and of
`BrandProvisioning` were checked besides, on the same instances.

## 5. Fairness

* Lease (`FairSpec`): the event loop and the database answer (weak fairness of
  the steps of a call and of a renewal), the clock ticks, and the action of each
  call returns or throws in the end (strong fairness, as it may be between two
  effects over and over). Nothing makes a crash or a cancellation happen. A call
  that loops on its own effects for ever is excluded by the last assumption.
* Tasks. Cron jobs run for ever (`CronFairness`, `RecoveryFairness`: weak fairness
  of each check; what was found is failed). An execution of advanceTask goes on:
  weakly fair where it does not die (`CalmFairness`); where it does, not every one
  dies for ever, hence strong fairness (`RunFairness`). Workers take jobs and
  handlers end (`HandlerFairness`). People, admins and the switch are not fair.
  `HandlerRecovered` excepts a step whose job failed for good because its handler
  outlived its transaction in its last attempt: the id of that job stays taken.
* Outbox (`PollFairness`): dispatchers poll for ever and take the oldest due
  group first, so that no delivery is passed over for ever; each goes on with
  what it holds. Death and slowness may hit any attempt, but not all attempts at
  the same delivery (strong fairness of claim, begin and end per delivery).
* Orders (`Fairness`): DiDi repeats its announcement until it is answered well,
  and time passes. Requests may die and DiDi may refuse at any point, but not
  each time the same point is reached (strong fairness per step, over all
  requests). Without a redelivery the code does nothing about a dead request.
* Go-Live (`Fairness`): requests go on (weak fairness; a death is not excluded),
  time passes, the cron job runs for ever. A recovery may die, wait for a lock
  until it times out, or get no answer from DiDi, but not each time the same
  point is reached (strong fairness of its steps). `Settled` promises nothing
  while the switch is off.
* The others need weak fairness only, since faults are bounded: workers go on
  with what they have, the queue delivers what waits and finds what has stalled,
  timers run for ever. With these exceptions and additions. Emergencies: the
  queue answers the request, `endsAt` passes, the watchdog comes for what nobody
  else moves (not for what is only slow), and a restoration that waits for the
  brand's lock is not overtaken by openers for ever (strong fairness of
  `RestoreExpired`: PostgreSQL queues waiters of an advisory lock). Auto Open: ten
  minutes of silence come to pass for a recoverer that looks again and again
  (strong fairness of `Condemn`; it lists the execution every five minutes).
  UPC prices: the lease of a dead worker expires, and DiDi ends what it has taken.
  Bindings: a process that died is started again, as `Restart` is
  `onModuleInit`. Brands: the cron jobs run for ever.

A program that does not run in its instance has no step that is owed fairness.

## 6. The proofs

Eight modules hold proofs. Those of two programs that one instance puts side by
side are in one module: it extends the instance, one program is there directly
and the other with the prefix of its INSTANCE (`Upc!`, `TurnOff!`, `Brand!`), and
each theorem is about the specification of one of them (`Upc!Spec`, ...), not
about the two together.

The theorems hold for any values of the constants that satisfy the named
assumption of the module: `LeaseConstants`, `TaskConstants` and `NoJobConstant`,
`OutboxConstants`, `AcceptanceConstants`, `GoLiveConstants`, `UpcConstants` (which
`MCDidiWrites` assumes, as `PricingConstants`), `EmergencyConstants`,
`BindingConstants`, `AutoOpenConstants`. They say of which type the constants are;
the only other demands are that the special values differ from the ordinary
ones, that the instances of one step are all manual or all automatic (they share
a definition), that the lease lasts at least one tick, and that there are
finitely many events, requests and stores where their cardinalities are used.
The theorems about `AutoTurnOff` and `BrandProvisioning` suppose nothing.

No safety property below is inductive as it stands. Each module therefore proves
one inductive invariant, action by action, and derives the rest from it.

* `LeaseInv` (`OperationalLeaseProofs`). To `FencedOwnership`, `HandlesDistinct`
  and `NoStrayHeartbeat` it adds who has the row lock (`LockedByTx`), which
  calls have a handle (`HoldersHaveHandles`), and that no checkpoint is ahead of
  the row (`CommitsReached`). An owner cannot change under an open transaction
  because every statement on the row needs its lock; a commit is in order because
  its handle is the row's, and the row is never behind. The step simulation of
  `LeaseRefines` uses the same facts: `Acquire` is a Grant, `Release` of the
  holder a Withdraw, `FencedCommit` a Commit, all else stutters.
  `SilentAfterLossHolds` is about steps alone: an effect is cleared in one place,
  which reads the flag after the database has answered.
* `EngineInv` (`TaskEngineProofs`). `FenceHolds` and `OneFence`: a fenced handler
  has its step, and each other transaction that moves a step waits for it.
  `Rivals` strengthens `OneWinner`: whoever settles *or blocks* a step has
  cancelled its siblings, so that a retry of a failed or blocked step cannot
  make a second winner. `OneJob` and `Apart`: outside Store Onboarding a step has
  one job, hence one effect. `Kept`: enrolled tasks are never archived, which
  keeps the step of a fenced job.
* `TurnInv` (`TaskEngineProofs`). `InTurn`, `FailedStays` and `NeverStranded` hold
  of a task outside Store Onboarding on which nobody overrides (`Plain`). Both
  halves of the hypothesis are needed: with the recovery of enrolled tasks the run
  `task_order` refutes `InTurn`, and an administrator may start any step.
  `NeverStranded` also supposes that no execution of advanceTask dies, as nothing
  takes up such a task again. `Ordered`: what is started, handed out or about to
  be activated has a done step in each order before. `Reading` is why two
  executions do no harm: one that has yet to read the pending steps is the only
  one, and finds each step either done or untouched (`Between`). `Finishing`: who
  is about to close the task has found no pending step and there is none again.
  That a lowest order exists among the pending steps is the well-foundedness of
  the naturals.
* `OutboxInv` (`NotificationOutboxProofs`). `Bundles`: the deliveries of a bundle
  move together (`Together`), have one since their first claim (`Frozen`), are
  held as a whole (`HeldWhole`) and were taken as a whole (`TakenBundles`). A
  claim takes a whole bundle again because a frozen key matches no other
  delivery and what fitted once fits again (lemmas `FitsLess`, `SelectsWhole`).
* `OrderInv` (`OrderAcceptanceProofs`). `Counts` is the heart:
  `confirmed` plus the confirmations in flight fit in `confirmationCalls`, and
  `acceptedCount` plus those taken and not yet recorded fit in `confirmed`. A
  lost answer moves a confirmation from the first sum to a call that stays
  reserved; a refusal gives back only what was in flight. The counts never pass
  two, whatever dies or overruns. `Exclusive` (one request holds the row, unless
  one overran) and `Cooling` (a confirmation of the last ten seconds rules out
  every claim) give `KeepsSlot` and `Separated`; `Readers` (who is about to claim
  has read a row with a confirmation left) gives `FailedForGood`.
* `GoLiveInv` (`DidiWritesProofs`). `Held` and `Alone`: who waits for DiDi holds the
  locks, alone, so that the permit it has read still stands when it writes. That
  is `Permitted`, and it is why nothing is recorded while the switch is off.
  `Owned` and `Late`: an attempt belongs to one request, and a recovery meets it
  only when that request is over or slow. `Known`: whoever may fail an attempt
  has no doubt about it. From `Held` follows how a step may change an attempt
  (`NextHeadway`), which is `SettledForGood`.
* `UpcInv` (`DidiWritesProofs`). A POST waits for no lease, so that
  `OneUpload` cannot rest on it. `OnePost` counts the workers that are about to
  post, those that have lost the lease included: there is one, its upload is
  unused and none is running. `Tracked`: while the execution is active its
  checkpoint knows every upload that DiDi has or may yet get, as the last one and
  as submitted or worse; a successor therefore polls or waits for a human and
  prepares nothing. `Closed` gives `Accounted`. `Owners`: who has the lease knows
  what the checkpoint says, or one step more.
* `BindInv` (`StoreBindingsProofs`). `Sent` needs no lock and holds for any
  number of backends: what was submitted never returns to a state from which it
  is submitted, and who is about to post shares no store with another.
  `PostedOnce` follows. `Honest` and `Holds` suppose one backend
  (`OneProcess`), as the lock is in its memory: who works has the lock, and what
  it has read is still so (`Knows`). `RecordIsTrue` and `DoubtStops` follow.
* `EmergencyInv` (`StoreEmergencyProofs`). Per emergency, `Asked` is what a
  request knows of its transition until somebody writes the row, so that its
  rollback restores what was there; `Marked` relates the row to its targets
  (a target is done only where the store is shut); `Closes` is what is known of a
  store the emergency has closed: a target that says so, and a status from which
  the reopening follows; `Reconciles` that a reconciling write is one that was
  marked. Per job, `Worked` and `Handles` are what a worker may rely on between
  two of its steps: its summary is still true when it settles the emergency, its
  lease is still its own when it writes. `Permits`: nobody who holds the brand's
  lock to open a store does so against a live emergency. None of them is inductive
  without the others: a takeover by the watchdog breaks what a worker knows unless
  the lease (`Handles`) tells it, and a rollback breaks `Closes` unless `Asked`
  knows that nothing has been closed yet.
  The refinement (`ImplementsGuardedStoresHolds`) has one lemma per action:
  `Create` is Begin; `Write` of a shutdown and `EndReconcile` are Close; `Write`
  of a restoration is GiveBack, `OpenStore` Open, `Operate` an act of the staff;
  all else changes the hold of one emergency (Change) or stutters.
* `OpenInv` (`OpeningsProofs`). `OneOpener` follows from `Locks`: a worker that
  still has the lock of its job is the only one with that job, which is active.
  `ReportedOnce` needs the rest. `Prepared`: the runs are created once, by the one
  worker that claimed the execution, and nothing is sent before the execution has
  ended. `Rows`: there are jobs only for brands that have a row, and whoever may
  end the execution has seen rows, so that it cannot end while there are none.
  `Complete`: who is about to end it has found every run over, and no run that is
  over becomes pending again unless a worker has outlived its lock.
* `OffInv` (`OpeningsProofs`). `Told`: no row is pending twice, the worker that
  claimed it is the only one that may call DiDi for it, and has not called before;
  a row that is done was called for. `Begun`: the rows are written by one
  coordinator, before which there are none, so that a late one resets nothing.
  `AllOff` gives `DoneMeansOff`.
* `BrandInv` (`StoreBindingsProofs`). What a transaction has read may be old when
  it writes. `Sees`: it was true when it was written, and a brand that was taken to
  be there ("no brand task", source 0) is the one thing that is never old: it is
  written once, by who holds the lock of the brand, and so while no other
  transaction has read. Hence `Founded` (the brand is there, or was taken to be) is never
  undone, although a late transaction may set the provisioning back; and
  `BrandFirst` follows, since only a satisfied dependency lets a store task begin
  (`Deps`). That a newest one of some brand tasks exists is the
  well-foundedness of the naturals.

What the attempts to prove have changed. `GuardedStores` used to promise that two
live emergencies never hold a store; a retry does not see to that
(section 7), and the proof failed there. It now promises exclusivity when
an emergency begins, and that a store two of them hold is opened by neither.
`Remembered` used to exclude targets that are still `running` in an emergency
that has ended; the proof of `NotQueued` found the way to one. The run checks
both as they are now.

`PROJECT.json` ("theorems") lists the theorems with the property of each. The
theorems without one state properties that no run checks any more since they are
proved for every instance: `FencedOwnership`, `HandlesDistinct`,
`NoStrayHeartbeat`, `CommitsInOrder`, `NeverStolen`, `FencedEffect`,
`OneEffect`, `OffLeavesNothing`, `DeliveredMeansTaken`, `EndsForGood`, `NothingInvented`,
`ProfitOnce`, `KeepsSlot`, `FailedForGood`, `OneAttempt`, `FrozenWhenOff`,
`SettledForGood`, `SentOnce`. `DoneMeansSettled` and `OutcomeStays` are proved for
every task, and checked for the enrolled one and for both.

Only model-checked: liveness (`CallsReturn`, `OrphansExpire`, `AutoEnds`,
`OnboardingRecovered`, `OnboardingClosed`, `NotificationEnds`, `ForwardingEnds`,
`Confirmed`, `Settled`, `PricesEnd`, `AllEnds`, `WorkEnds`), which is out of reach
of the prover. `OnboardingSettled` is `DoneMeansSettled` of one more instance of
`TaskEngine`, and `OutcomesStay` is `OutcomeStays` of both: the theorems about every
instance stand for them. So each invariant and each action
property of the runs that pass is a theorem, or an instance of one.

## 7. Findings

* `task_window`. `checkBpoTimeouts` (`scheduler/scheduler.service.ts:66`) asks for
  steps that are in progress *or blocked*, but only of tasks in progress. Blocking
  a step makes its task blocked, so that a blocked step never times out.
  `README.md` of the repository, line 809, still says that the task stays in
  progress. The run blocks a step, closes the window, and nothing fails the step.
* `task_order`. The recovery of enrolled tasks lists pending tasks first and
  advances them later (`tasks/task-engine.service.ts:532`). When the advance of
  the creation starts an automatic first step in between, the second advance
  takes the next pending step to be due and starts it. The run ends with both in
  progress, against `README.md:236` and `README.md:800` (steps in order). Outside
  Store Onboarding no such recovery exists, and `InTurn` is a theorem.
* `upc_stop`. A stopped execution is to be monitored until DiDi has ended its
  uploads (`upc-activity-price.service.ts:183`, and a test). The check before each
  poll also asks the lease of the catalog, whose guard throws when the execution
  is stopped (`upc-activity-price.processor.ts:582`, `:332`): the poll ends, and
  the execution is recorded as cancelled "after every accepted remote task reached
  a terminal state" (`:1083`) while the upload runs.
* `auto_open_report`. When the worker of the first job dies after its claim and
  before the runs of the brands exist (`auto-open.processor.ts:386`, `:421`), the
  second delivery finds no run, takes 0 of 0 for complete (`:287`), and the
  execution is done and reported though no brand was opened
  (`README.md:1266`, `README.md:1286`).

Observations that no document contradicts plainly enough, or that are excepted by
a property, and so are not listed as findings:

* Tasks. `task-engine.service.ts:396` says that two stale workers never run the same
  handler. It holds within `HANDLER_FENCE_TIMEOUT_MS`; afterwards the
  transaction is gone and the effect goes on (`FenceTimesOut`). `OneEffect` is
  about effects that have not outlived their transaction; `OutcomeStays` about all:
  a late one changes nothing any more. When that was the last
  attempt, the failed job stays in Bull under its id and the recovery adds none.
* A forced retry of an automatic step outside Store Onboarding publishes no job:
  only the timeout of two hours ends it (`AutoEnds`).
* A task outside Store Onboarding whose `advanceTask` died stays where it is.
  An enrolled task that was in progress with a pending step when the switch went
  off is in neither list of the recovery.
* Orders. An order event whose request died during its second confirmation stays
  in `processing` for good: a claim needs a confirmation that is left.
* Notifications. The recovery of delivery leases does not look at
  `MAX_DELIVERY_ATTEMPTS`: a bundle whose dispatcher dies is posted again however
  often that was.
* Go-Live. A request that takes longer than 90 seconds from its first
  transaction to its post can post after the recovery has read that the store is
  closed and before it writes so; when the answer is then lost, the attempt is
  failed by a verdict older than its post. `NoFailureInDoubt` excepts it. So it
  does attempts of brands without credentials, which the recovery fails without
  asking DiDi (`store-onboarding.service.ts:1183`): DiDi may have opened the store.
* `finishFailedGoLive` locks the request and then the attempt, the recovery the
  attempt and then the request. They can wait for each other; PostgreSQL ends one
  of them, and the attempt is settled by the other or by a later recovery.
* No code under `src` calls `reconcileOnline`, except a test.
* Emergencies. `retryFailures` asks for conflicts of the stores it retries only
  (`store-emergency.service.ts:784`), while an emergency of the whole brand protects
  and appends all its stores: a retry of a failed one can make two live emergencies
  cover a store that was added meanwhile.
* A target may stay `running` in an emergency that has ended: a retry whose job was
  not queued is taken back after the worker of an earlier job claimed the target.
* The job that settles an emergency writes the summary it read before; within the
  bounds of `Settling` nothing changes in between. `failEmergency` takes a target
  from another worker that has claimed it and not yet written.
* `README.md:1232` says that only stores which were closed are reopened. A store whose
  closing was not confirmed counts as closed, and is reopened too.
* Auto Open. A pool that turns out empty sets an execution done that somebody has
  failed; a publication that throws sets it failed whatever it is; an error after
  a run was finished rewrites the run as failed.
* Turn-off. A publication that throws fails the execution although its job was
  accepted, cancelled executions included; a coordinator that fails leaves the
  rows of its stores pending; a store may be recorded as cancelled although DiDi
  took the call; two executions can undercut the cooldown of ten minutes.
* Bindings. `recalculate` writes a status it has read before, whatever the row has
  become. A worker that reads `pending`, loses the lock of its job, and writes after
  `onFailed` has failed the execution makes it active again; when it fails in turn,
  it has no job to fail. The same is done by a request that recalculates, and by the
  cancelling one when it removes the job of an execution that is active again. So,
  and when a call of `onFailed` fails, an execution is "active without a live queue
  job", which the comment at `didi-store-binding-execution.processor.ts:161` rules
  out, until a backend starts and queues it. `BindingEnds` excepts exactly this
  (`orphan`), and with two backends a job that is completed while the execution is
  active. A worker of another backend that has lost its job and fails twice (2
  events in two backends) also leaves an item in `submitting` in a cancelled execution.
  With two backends, a worker that lost the lock of its job can record a store as failed
  that the other submits: `RecordIsTrue` and `DoubtStops` suppose one. A request that
  fails an execution whose job was kept and then dies leaves items unsettled.
* Brands. A registration that has read `pending` beside a hook that commits `ready`
  makes a dependency that waits for ever (`stale`); a brand task that failed and
  was retried to its end never releases its dependents (`revived`); a late hook
  writes `creation_failed` over a request that has its stores, or `failed` over a
  provisioning that has a new source; a request whose store task failed, was
  retried and done, and whose hook was lost, never gets its stores; a brand task
  that is done is not adopted when a later one failed. `BrandReleases` excepts what
  `stale` and `revived` observe.
* Forwarding. A worker that outlived the lock of its job can queue a row whose
  payload is gone (`didi-order-forwarding.processor.ts:165`), which nobody finds
  again: `ForwardingEnds` excepts it (`strayed`).

## 8. Limits

* Lease. Between `ensureActive` and the remote call it clears, another owner may
  clear one of its own: nothing in the code excludes that, and no property
  claims it. Only checkpoints are fenced.
* Tasks. One task. The effect of a handler is not modelled: outside Store
  Onboarding it is run again when only the advance after it failed. Who is
  assigned, form values and emails are left out; the brand of an enrolled task is
  taken to be ready (what waits for a brand is in `BrandProvisioning`). A
  reassignment of a step that is not pending writes back the status it has read,
  and is a stutter here, since transactions are atomic. The recovery of handlers
  lists a step and looks up and adds its job in one action: what happens to the step
  in between is what happens between the publication and the worker.
* Outbox. One profile and the notifications of one kind of group; the receiver
  honours the Idempotency-Key (the code sends it, the receiver is external). The
  second transaction may last 15 seconds, the HTTP call 8: the transaction does
  not time out during the call. The order in which groups are polled is not
  modelled beyond fairness.
* Orders. One order. Time is three flags. A request that cannot write counts as
  dead. `stall` means a request slower than its deadline by more than 50 seconds.
  The ten seconds that a redelivery waits for after an ambiguous confirmation are
  those of the row as it is now (`BarrierPasses`), in the code of the row it has
  read; the claim that follows looks at the row again.
* Go-Live. One unit; a request with several handles them one after the other. A
  recovery takes 20 attempts at a time, the oldest first: that 20 attempts which
  DiDi never answers for could keep it from the rest is not modelled. The
  transactions outlast what they wait for (10 and 20 seconds of 45, 20 of 30), so
  that no lock is lost while DiDi is told; the loss of a database connection then
  is not modelled. An emergency stands for those that hit the unit's store.
  Whether a failed unit was opened late by DiDi is left to its next attempt.
* UPC prices. One execution and its one store; dry runs, the rules and their
  schedule, retries inside the export of a menu and the rate limit of task checks
  are left out. An upload that DiDi took ends.
* Emergencies. One brand. A write is applied before its caller stops waiting or
  never, and no target becomes stale while its write is under way (8 seconds
  against 5 minutes). Nobody comes between the read and the write that settle an
  emergency with a retry or a takeover (`Settling`), and credentials do not go
  away within another job's write. CR closures, audits, the rate limit of the
  reconciliation and lists are left out.
* Auto Open. One execution. What a pool contains, the selection of stores, dry runs
  and counters are left out; opening a brand is one step.
* Turn-off. One execution. The rules, their calendar, the cooldown between
  executions, application slots, progress counters and the items of a store are
  left out.
* Forwarding. One delivery; the checks of a URL are one refusal.
* Bindings. One execution; synchronous Bind and Unbind, the lists of stores and
  their cache are left out. Throttled POSTs change nothing at DiDi.
* Brands. One brand; each store task and brand task is its status. A hook reads its
  task and whether a provisioning has it as its source in one step (`ReadTask`).
* Not modelled: the parts of section 1 that the plan still has, and those under
  "the rest". `PROJECT.json` ("hazards") says of each hazard in this code which
  property is about it.
