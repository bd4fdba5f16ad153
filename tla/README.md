# Verification of video-maker

video-maker sells generated video by the second. A user prices a shot (a *quote*), pays by
freezing seconds of a wallet, and receives a *job*; a durable workflow submits the job to a GPU
provider, polls it, stores the result and settles the frozen seconds. The API, the workflow
workers, the dispatchers and the reconciler are separate processes that meet in PostgreSQL rows
and in the provider. What can go wrong lies between their transactions, and this directory models
that: TLA+ modules translated from `apps/api/app`, TLC runs, and TLAPS proofs.

## Inventory

| Component | State | Operations | Interacts through |
|---|---|---|---|
| State machine (`state_machine.py`) | status of a job and of its attempts | `transition_job`, `transition_attempt`: compare-and-set, guarded by two tables | rows of the job |
| Provider execution (`provider_execution.py`, `provider_submission.py`, `provider_polling.py`, `provider_completion.py`) | attempts, provider job ids, poll slots, output rows, stored objects | `execute`, `handle_webhook`, `request_cancel`: many short transactions with provider and storage calls between them | several tasks run it on one job at once |
| Reconciler (`control_plane.py`) | none | dispatches, cleans storage, releases expired webhook leases, restarts jobs that look stuck | runs beside live workflows and dispatchers |
| Cancellation (`application_generations.py`, `provider_cancel_outbox.py`, `dead_letters.py`) | `CANCEL_REQUESTED`, one outbox row with a lease | cancel call, claim, provider call, publish, retry, dead letter, replay | races with completion |
| Acceptance (`application_generations.py`, `application_queries.py`) | quotes, jobs, batches | `generate`, `create_batch` | locks project, quotes, wallet |
| Ledger (`ledger.py`, `application_billing.py`) | wallet balances, transactions, postings, settlement and batch statuses | grant, reserve, settle, release, `refresh_batch_status` | row locks in different orders |
| Route binding (`project_routing.py`, `routing.py`) | route of a project, admission of a route | `project_route`, `solidify_project_route` | locks of acceptance and settlement |
| Generation outbox (`outbox.py`, `dead_letters.py`) | event, lease token, attempt count, dead letter | claim, start, publish, retry, give up, replay | starts workflows at least once |
| Webhook inbox (`provider_callbacks.py`) | event, payload hash, lease token | record, claim, finish, reset | calls completion |
| Idempotency (`idempotency.py`) | record per user, scope and key | `acquire`, `complete`, replay | part of every POST transaction |
| Artifact lifecycle, project cleanup (`artifact_lifecycle.py`, `project_cleanup.py`) | artifacts, cleanup events and objects, leases | register, claim, delete, publish, re-open | storage; deletion of projects |
| Workflow runners (`local_workflow.py`, `workflow.py`, `hatchet_workflows.py`) | tasks by key | start once, repeat `execute` | outbox |
| Blocking IO (`blocking_io.py`) | four slots | run in a thread, drain when cancelled | every coroutine |
| Lifespan (`main.py`, `bootstrap.py`) | tasks of the process | start the loops, cancel and await them, then stop the runner | pool, runner, outbox |
| Web client (`job-recovery.ts`, `generation-operation.ts`) | poll timer, stored operation | poll, resume, repeat with the same key | API |

What makes each correct: a job ends exactly once and its money follows; a live job always has
one attempt to execute; a loser of a race neither charges nor deletes what the winner stored; a
wallet never pays twice or what it does not have; leases lose nothing and their holders do no
harm when they are late; a repeated request has one effect. `PROJECT.json` lists the hazards at
the lines where they bite, and the parts that are not modelled, with the reason.

## Modules

**StateMachine** holds `JOB_TRANSITIONS` and `ATTEMPT_TRANSITIONS` of `state_machine.py`, the
terminal statuses and the paths the tables allow.

**Execution** is the life of one accepted job. Its tasks are the workflow, reconcilers,
webhook handlers and cancel dispatchers; `pc` is where a task stands, `ctx` the attempt context it
loaded (`AttemptContext`), `res` the provider result it is applying, `obj` the object it
published, `seen` the status its compare-and-set expects. The other variables are the rows, the
objects in storage and the provider's own jobs. One action is one database transaction or one
call to the provider or to storage, and a read is an action of its own where another transaction
may write before the reader does: `ReadAccepted`/`RecordSubmitAccepted`,
`ReadForCommit`/`CommitOutput`, `CancelLoad`/`CancelCommit`. `SELECT ... FOR UPDATE` in
`fail_attempt` and `finish_cancelled` is `JobRowFree`. A lost compare-and-set, an early return and
a rollback are disjuncts of the action. `Crash` is a process that dies or an exception that
escapes. The provider answers anything it may answer: it accepts, rejects or leaves a submission
unknown, ends its job whenever and however it likes, and webhooks come at any time. The lease of
the cancel event may run out at any moment.

**Ledger** is the acceptance of jobs and their money. A transaction takes its row locks one by one
in the order of the code (`held`, `Wanted`), every check is made when the lock of the row is
obtained, and all its writes take effect in the commit action. Requests lock the project, find the
route (`project_route`, before the quote in `generate`, after the transfer in `create_batch`), claim
the quotes, insert the ledger transaction under its unique key, debit and credit. Finishers end a
job, solidify the route of the project if it succeeded, settle or release, and refresh the batch.
`DeadlockVictim` is PostgreSQL's deadlock detector: a reservation locks `USER_AVAILABLE` before
`USER_RESERVED` and a release the other way round. `Abort` is a transaction that is lost. Balances
of the two platform accounts are kept per user they were posted for, their row lock is shared by
all users. A job is only LIVE or ended here: Execution has its statuses.

**Delivery** is the way of an accepted job to its execution. It composes three components that
are modules of their own, with their variables and operations: **Outbox** (the rows of `outbox.py`
and `dead_letters.py`, one operation per transaction; the token of a claim is the name of the
dispatcher that made it), **BlockingIO** (the semaphore and threads of `blocking_io.py`) and
**LocalWorkflow** (the registry `_runs` of `local_workflow.py`). Delivery adds the loops that use
them: `pc` and `work` say where a dispatcher is in `dispatch_once` and what it claimed, a reconciler goes on with
`_stuck_job_ids` and restarts what it found (`todo`), and every database call takes a slot of the
pool first (`AcquireSlot`) and takes effect when its thread ends (`CallEnds`, also when its caller was cancelled). `Startup`,
`Stop`, `StopRunner`, `Stopped` are `lifespan` in `main.py`; `Crash` is a process that dies. With the `hatchet` backend
a start is a call that may fail before or after the service took it. `Execute` is a
call of `GenerationExecutionService.execute`, whose inside is Execution.

**DeliveryQueue** is the abstract specification: what the users of the outbox may rely on. Delivery
implements it with `queue` mapped to the status of the event as users see it (`QueueState`) and `begun`, a
history of accepted starts.

**Cleanup** is the life of stored objects. It composes **ArtifactLifecycle** (the registry of provider and
final objects, their retention and cleanup) and **ProjectCleanup** (the cleanup event of a deleted project and
its list of objects) with the tasks that write (`SubmitRequest`, `Upload`, `ReceiveArtifact`, `UploadAsset` and
their commits) and the tasks that clean: the cleanup loop and the reconciler run the same passes at once. A
deletion in the storage is an action of its own between two transactions, so a cleaner may delete after its lease has
run out. A writer may lose its commit at any time and then deletes what it wrote, which may fail
(`DropObject`). `retained` is the set of objects whose retention is not over.

**Idempotency** has the record of a request's key; **GenerationRequests** puts it between two browser tabs
and the endpoints for quotes and generations: `saved` is the operation in `localStorage`, `lock` the Web Lock,
`request` what is on its way, which may outlive its tab. **ProviderInbox** is one webhook event with its deliveries.

**MCExecution**, **MCLedger**, **MCDelivery**, **MCCleanup** and **MCRequests** are the instances
TLC runs; the configurations give the constants. MCRequests has GenerationRequests and ProviderInbox
side by side: they share no state, and each behaviour is about one of them.
**ExecutionProofs**, **OutputProofs**, **LedgerProofs**, **DeliveryProofs**, **CleanupProofs**, **RequestsProofs**
and **InboxProofs** hold the theorems, **SumProofs** the facts about sums that LedgerProofs uses.

Definitions named `X_Something` next to a definition `X` are mutants of it: a plausible bug of the
code that the property of a run must catch (`mutants` in `PROJECT.json`).

## Runs

| Run | Tasks | Shows |
|---|---|---|
| ExecutionRace | workflow and reconciler, 2 attempts | `TypeOK`, `AttemptChain`, `RunningAttempt`, `FinalOutputStored`, `ChargedForOutput`, `StatusesFollowGraph` under two executions of one job |
| ExecutionCancel | workflow, webhook, dispatcher, a cancel call, a crash | `SettlementFollowsJob`, `NoOrphanObject`, `TerminalIsFinal` |
| ExecutionLive | workflow, reconciler, dispatcher, a cancel call, a crash | `JobTerminates`, `CancelEventSettles` |
| LedgerRace | a request, a batch, a granter, two finishers, two quotes, two durations, two routes | `WalletsCovered`, `PostingsExplainBalances`, `FrozenForLiveJobs`, `BatchFollowsJobs`, `QuotePaysOnce`, `DeletedProjectIsQuiet`, `OneRoutePerProject`, `AcceptedAtCurrentPrice`, `StoppedRouteAcceptsNothing` |
| LedgerLive | a request, a batch, a finisher, a granter, a lost transaction | `TransactionsEnd` |
| DeliveryFair | a dispatcher loop and a reconciler, one slot, both backends, a stop or crash, an expired lease, two faults, a replay | `TypeOK`, `SlotsBoundThreads`, `ShutdownInOrder`, `OneRunPerKey`, `DeadLettersReplayable`, `QueuePromise` (refinement of DeliveryQueue), `JobsEnd` |
| CleanupFair | a source, a final output, an asset, two cleaners, one disruption | `TypeOK`, `ReferencedStored`, `NoForgottenObject`, `DeferralIsFree`, `RemovedAfterRetention`, `DeletedProjectEmptied` |
| RequestsFair | two tabs, three requests on their way, two operations, two faults; three concurrent webhook deliveries with two bodies | `OutcomeKnown`, `OperationNotForgotten`, `OperationsSettle`, `AppliedBeforeProcessed`, `OneHandlerPerLease` |

Four runs expect a violation. Each states what a document or a comment of the repository says and
TLC shows a behaviour of the code that breaks it; `findings` quotes the lines.

- CancelStuck: a cancellation that commits between the read and the compare-and-set of
  `commit_output` leaves the job in `CANCEL_REQUESTED` with its seconds frozen and nothing left to
  do, because `ACTIVE_JOB_STATUSES` does not contain that status.
- Resubmit: `execute` submits the attempt of its second load, which another task may have submitted.
- SubmitAfterCancel: a cancellation between `start_submit` and `submit` does not stop the submission.
- EarlyRelease: any failure of the attempt of a cancelled job returns the seconds, although the
  provider's job may still run.

The properties state where they stop, and each exception is a behaviour of the code worth knowing:

- `JobsEnd` excepts a job of the local runner whose task ended because a webhook was faster: the
  step reports that it is complete, the key counts as served, and nothing starts the retry attempt
  before the process restarts.
- `NoForgottenObject` and `DeletedProjectEmptied` except the object of an upload that died before its row was
  written, or that could neither commit the row nor delete the object; nothing lists it.
- `OutcomeKnown` excepts a request that was still on its way when its tab was closed, and
  succeeds after a repetition of it was refused.
- A published cleanup event whose `UPDATE` overlooked a registration leaves the object to the cleanup of
  artifacts, so the object is deleted all the same; an artifact given up by
  `ArtifactCleanupDispatcher` has no dead letter and cannot be replayed, only registered again.

### Bounds

`MAX_ATTEMPTS_PER_CANDIDATE` and `MAX_ATTEMPTS_PER_JOB` have the values of the code (2 and 3) in
ExecutionRace and in the runs that expect a violation. ExecutionCancel and ExecutionLive have one
attempt, so that a webhook or a dispatcher and a crash fit beside the workflow; that a cancelled
attempt is not the last one is seen in CancelStuck and EarlyRelease, and `AttemptChain`, `SettlementFollowsJob`
and `TerminalIsFinal` are proved for every limit. (ExecutionCancel with two attempts and without the webhook, in
which the cancel event may name an attempt that was replaced, has 1,734,000 states; `AttemptChain` holds in it and
fails if `finish_cancelled` does not look at the attempt.) One poll per attempt is enough for a poll that waits,
ends, fails and exhausts the budget. Three copies of an output are one more than a winner and
a loser need. One crash, one cancel call and one submission per attempt appear in the passing
runs, two submissions in Resubmit, which is about them.

In Ledger two quotes are the smallest batch whose jobs end differently. The shot costs one or two
milliseconds, neither a whole quotient, so that rounding shows; the grant of three
covers any two of the quotes but two at the higher price, so that reservations succeed, fail and
compete. There is one user and one project: users share only the platform's rows, and
no transaction waits for `PLATFORM_ISSUED` while it holds a wallet row, nor for a wallet row while it holds
`PLATFORM_CONSUMED`; a batch of several projects is rejected before it locks anything.
Finishers are interchangeable (symmetry) in the run without liveness. Deadlock checking is off
since a finished job and an exhausted set of requests end the system.

DeliveryFair (226,000 states) has one job: dispatchers of different jobs share only the pool, and one slot
makes them wait for each other. The reconciler's batch of stuck jobs is any part of them that is not empty, instead
of the 20 oldest; with one job that is the job. Two attempts let an event be given up, the replay starts a second cycle. One
expired lease under a working holder gives two holders. CleanupFair (826,000 states) has one object of each kind, since an
object's rows are its own and the event of the project joins them; its disruption is a crash, an expired lease, a
failed deletion or a late registration, and a replay needs none. RequestsFair (258,000 states) has two operations, so that one can overwrite
another, and three requests: one per tab and one that was abandoned. Four deliveries by three handlers are an
owner, a successor and a third. In none of them is symmetry used, since they check liveness.

### Fairness

Execution assumes weak fairness of every running task, of the delivery of the start event, of
the periodic reconciler and dispatchers, of the end of a cancel call and of the passing of the
polling deadline, which is a date. Nothing is assumed of the provider, which need neither answer nor end
its job, nor of webhooks. Ledger assumes strong fairness of the steps of a running transaction: PostgreSQL
queues the waiters of a row lock in order, and its deadlock detector runs.

Delivery assumes weak fairness of every loop, run and thread, of time, and of the lifespan (the operator starts the
process again), and strong fairness of `AcquireSlot`: `asyncio.Semaphore` serves its waiters in order. Faults, stops
and expired leases are finite; that is the assumption under which work can end at all. Cleanup assumes it of
the writers, the cleaners and time; nobody has to end the job, delete the project or replay a
letter. GenerationRequests assumes it of the server and the tabs, and that a user who left an unsettled
operation comes back to it. ProviderInbox needs none.

## Proofs

Every safety invariant and every action property that a passing run checks is proved, for every value of
the constants that the assumptions allow: the runs show them on small instances, with the bounds above, and
the theorems without. Each proof about a specification rests on one inductive invariant and has one step or lemma per action;
TLC looked for counterexamples to the invariant on small instances before the proof was tried.

`ExecutionProofs` proves, for any number of reconcilers, webhooks and dispatchers and any limits:

- `TypeCorrect`: `Spec => []TypeOK`, with it the bounds on attempts and polls;
- `SettlementCorrect`: `Spec => []SettlementFollowsJob`;
- `ChainCorrect`: `Spec => []AttemptChain`;
- `RunningCorrect`: `Spec => []RunningAttempt`;
- `TerminalCorrect`: `Spec => TerminalIsFinal`.

The assumptions are those of Execution: the kinds of task are disjoint and the limits are
natural numbers. None of the properties is inductive alone. The invariant `IInv` adds
`LoadedRows`, that every context of a task, the event and the cancel call name attempts that exist; and
`RowsInv`, which joins the row properties: only statuses a session can see are stored
(`POSTPROCESSING` and `VALIDATING` live inside one transaction), a `QUEUED` job has one
attempt that was never submitted, the last attempt and no other is active while the job lives, money follows
the job, a running attempt has its provider job. The compare-and-set of `AttemptCas` then suffices for
every action that ends an attempt: the attempt was active, so it is the last and the job lives. `Invariance`
has one step per action; `TerminalCorrect` follows since in a terminal state no attempt is active,
so no compare-and-set can succeed.

`OutputProofs` goes on from `IInv`, for the same constants:

- `OutputsAreStored`: `Spec => []FinalOutputStored`; `NoOutputIsForgotten`: `Spec => []NoOrphanObject`;
- `ChargesAreEarned`: `Spec => []ChargedForOutput`;
- `StatusesFollowTheGraphs`: `Spec => StatusesFollowGraph`.

`ObjectsInv` says that keys are fresh, that a task holds an object exactly between its publication and its commit
(`Holding`), and that two tasks never hold the same one. So what a task deletes when it loses its compare-and-set is
named by no row and held by nobody else. `AnswersInv` follows an output from the provider to the commit: whatever a task
carries at one of the labels in between was produced for the attempt of its context (`AnswerTrue`), and
`commit_output` checks that attempt, which makes a late output of an abandoned attempt harmless. The graph
property is not an invariant: it takes `RowsInv`, which says from which statuses each action may start, and one case
per action against the transitions of StateMachine.

`LedgerProofs` proves, for any users and projects, any finite sets of quotes and requests, any number of finishers,
granters and aborts:

- `LedgerTypes`, `WalletsStayCovered`, `BalancesAreExplained`, `FrozenIsReserved`, `QuotesPayOnce`,
  `BatchesFollowJobs`, `DeletedProjectsAreQuiet`, `ProjectsKeepTheirRoute`: the invariants of LedgerRace;
- `StoppedRoutesAcceptNothing`, `AcceptedAtThePrice`: its action properties.

A transaction checks rows at one step and writes at its commit, so the invariant is about what a transaction may still
believe. `Locks` says that a locked row has one owner (an admission is locked shared); `RequestOK`, `FinishOK` and
`GrantOK` that what a transaction found when it locked a row is still so (its quotes are open and have the
duration of the shot, its job is live, its project exists, its route is admitted); `TransferOK` that the key of a
transfer in flight is unused and its debit covered. `Rows` and `Money` join the properties themselves: a commit
of a reservation needs the price of the quotes (`QuotesPriced`), that they have no job yet (`JobsPaid`) and that
the frozen sum grows by what the wallet loses. Sums over finite sets need induction, which the provers cannot
take from the library; `SumProofs` gets it from a smallest counterexample: if adding an element did not add its
value for some finite set, some such set would have no smaller one among its subsets, and none is like that. The assumptions are that the kinds of
transaction are disjoint, that quotes and requests are finite sets (`RowsAssumption`: a database has finitely
many rows), and that amounts, durations and the price's quotient are positive. `ChargeRoundsUp` is the arithmetic of the price.

`DeliveryProofs` proves, for any number of jobs, dispatchers, reconcilers, slots, faults and stops:

- `TypeCorrect`, `SlotsCorrect`, `OneRunCorrect`, `DeadLettersCorrect` and `ShutdownCorrect`, the
  five invariants of DeliveryFair;
- `QueueImplemented`: `Spec => Queue!Safe`, the safety part of the refinement.

Each component has an invariant that its own operations keep: `OutboxInv`, `PoolInv` (slots and the cardinality of
the finite set of threads), `RunnerInv`. `PartsStep` shows that a step of the composition is an operation
of each component or leaves it alone. Three invariants join them: `ThreadsKnown` (a thread belongs to a dispatcher
inside a blocking call or to a registered run), `LifespanInv` (in which phases dispatchers, threads and runs are gone) and
`WorkKnown` (what a dispatcher has in hand was accepted, and was started before it is published). The last one is
what the refinement needs: publishing is then `Finish` of a queue entry that has begun. Claims, retries, expired leases and crashes are
stuttering steps of the queue. The assumptions are that tasks are dispatchers and jobs, disjoint, that keys are jobs and that the
bounds are natural numbers.

`CleanupProofs` proves, for any finite or infinite sets of keys, any number of cleaners and any bound on the
disruptions: `CleanupTypes`, `ReferencedObjectsStay`, `ObjectsAreRemembered`, `DeferralsAreFree` and the
action property `CleanersWaitForRetention`. A cleaner deletes between two transactions and may have lost its lease by then,
so the lease protects nothing; what does is `Cold`: once the retention of an object is over nobody writes it again
(`KeysInOrder`), and a cleaner only takes up such objects (`CleanerInOrder`, which for this reason holds of cleaners
without their lease, too). `RowsInOrder` and `ListInOrder` tie the writers' rows and the list of a deleted project to the
objects. `AttemptsInOrder` is an amortisation: every claim of the event that is not given back was paid for by a
disruption or by a registration (`Paid`), except for one that is under way (`Open`).

`RequestsProofs` proves `OutcomesAreKnown` and `OperationsAreNotForgotten` of GenerationRequests for any number of
tabs, requests, operations and faults. Under the Web Lock the running tab's memory is what the storage has
(`TabInOrder`); all the requests of a key carry the same body, since the rows and the records determine each other
(`RecordsInOrder`) and an operation has one quote, so that a replay never conflicts (`NeverConflicts`); and a request
that nobody waits for belongs to an abandoned operation (`RequestInOrder`), so that of an operation that was not
abandoned the browser has heard, or is about to hear, of every job (`JobsKnown`). The assumptions are those of the
modules: keys are pairs of an operation and a kind, and the user starts at most `MaxOperations` operations, at least one.

`InboxProofs` proves `AppliedCorrect` and `OneHandlerCorrect` of ProviderInbox for any number of deliveries
and bodies. The invariant adds what a handler holds: it brought the body the row has, it has applied it
before it finishes, and while its lease lasts it is the one the row names.

Only model-checked: the liveness properties `JobTerminates`, `CancelEventSettles`, `TransactionsEnd`, `JobsEnd`,
`DeletedProjectEmptied` and `OperationsSettle`, and the fairness part of `QueuePromise`, since liveness under fairness and
ENABLED are outside the provers' reach. The runs that expect a violation have counterexamples and no theorem.

## Not modelled

- A commit that took effect and is not known to have: when its answer is lost, or in `save_asset` when the `refresh`
  after it fails, the error path of `finish_output` and `save_asset` deletes the object of a committed row.
  `ReferencedStored` and `FinalOutputStored` therefore assume that a commit which raises was not made.
- A retention shorter than a write. `provider_artifact_retention_seconds` defaults to a day and admits 0; Cleanup
  assumes that a registered copy is written before its retention ends (`RetentionEnds`), which a retention near
  0 does not give.
- The answer `IDEMPOTENCY_IN_PROGRESS`: the record is inserted and completed in one transaction, so no other
  transaction sees it incomplete.
- Errors of `localStorage` and of the parser of the stored operation; the poller and the download of `job-recovery.ts`,
  which only read.
- Backends, signatures and ranges of the object storage, and media probing: files and S3.
- HTTP routing, authentication, schemas and serialisation; configuration; single-row edits of projects and shots.
- The mock provider and the simulators: test doubles whose behaviours the provider of Execution includes.
- Migrations, scripts, the worker image, the generated client and the web pages: outside the running system, or
  without protocol state. Prices do not change while the system runs.

## Plan

1. Done: StateMachine, Execution, Ledger, Delivery with DeliveryQueue, Cleanup, Idempotency, GenerationRequests,
   ProviderInbox; proofs of all their safety and action properties.
2. Proofs of what the code relies on and no run checks as a property yet: the mutual exclusion of cleaners that keep
   their lease in Cleanup, the type invariant of GenerationRequests, and sharper statements of the proved ones where
   the inductive invariants already give more (which rows a transaction of Ledger may still trust).
3. The delay and budget arithmetic of polling and the mapping of RunPod statuses, as operators over bounded inputs.
