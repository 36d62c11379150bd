# AssetFlow in TLA+

AssetFlow is a multi-tenant fixed-asset management application: a Django
backend over PostgreSQL, Celery workers, a React client, and batch jobs for
analytics. This directory models the backend's core logic, checks it with TLC
and proves the most important invariants with TLAPS. Paths below are relative
to `src/`; the backend is under `src/backend/`.

## 1. Inventory

| Component | State | Operations | What is hard | What makes it correct |
|---|---|---|---|---|
| Asset register (`assets/services/assets.py`) | asset rows: status, placement, books | create, update; the asset page of the admin site (`assets/admin.py`) | plan limit at concurrent creates; which edits each status allows; a form saved over a row read without a lock | an ACTIVE asset moves only by transfer or by an audited correction; the limit holds for creates by the service, the admin site counts nothing |
| Acquisition (`assets/services/acquisition.py`) | one acquisition per asset | create, update, capitalize | row locks in order; capitalizing twice | asset past DRAFT exactly when its acquisition is capitalized |
| Custody and transfers (`transfers/services.py`) | assignments, transfers | assign, return, request, approve, reject, cancel, complete | the placement changes between request and completion | one open transfer, one custody, completion from the approved source |
| Maintenance (`maintenance/services.py`) | plans, work orders, costs, records | start, complete, cancel, cost, plan update | several orders on one asset, closed concurrently; unlocked reads | asset status and orders agree; the record's total is complete |
| Disposal (`disposals/services.py`) | disposals, accounting snapshot | create, submit, approve, reject, cancel, complete | every other workflow competes for the asset | one completed disposal, nothing left open, separation of duties |
| Depreciation ledger (`depreciation/services/engine.py`, `posting.py`) | periods, schedules, entries | generate, post, close | rounding, month order, disposal and maintenance between postings | entries chain; register and ledger agree; closed periods do not change |
| Depreciation automation (`automation.py`, `depreciation/tasks.py`) | runs, messages, advisory locks | beat, schedule, execute | crashes, redelivery, duplicates, people posting meanwhile | completed runs posted everything, once, and end unless their message is lost |
| Assurance (`assurance/services`) | runs with phase and revision, captured inputs, findings | create, dispatch, advance, recover, cancel | late failures, duplicate continuations, retries | one unit at a time, findings not duplicated, runs end |
| Verification (`verification/services.py`) | campaigns, observations, exceptions | start, complete, cancel, verify, reconcile missing, raise, review | one observation writes results and exceptions of others; the register moves meanwhile; completion against late writes | results follow exceptions; a closed campaign changes no more |
| Evidence (`verification/services.py`) | rows, objects in private storage | upload, clean up, open | two stores and no transaction over both; cleanup beside a running request | VERIFIED has its file; no file without a row; uploads end |
| Snapshots (`reporting/services.py`, `tasks.py`) | snapshot rows, messages | request, capture, retry, fail | nothing recovers a capture; deliveries overlap | a started capture ends; a completed one stays |
| Exports (`reporting/exports.py`) | export rows, files, cleanup keys | request, execute, recover, fail, expire, clean up | attempts that overlap; storage that refuses | the published file is the row's attempt and is there; nothing is leaked |
| Analytics (`analytics/services.py`) | checkpoints, extraction runs, publications | claim, stage, publish, fail | late snapshots; attempts given up that publish | no snapshot is skipped; the watermark never goes back |
| Curated runs (`analytics/curated_processing.py`, `airflow`) | processing runs, manifests, publications | prepare, transform, publish, fail | two runs of different sources overlap | publications move forward |
| Billing (`commercial`) | subscription, checkouts, provider events | checkout, webhook, process, cancel, reconcile | events late, twice, out of order, failing | access rests on a payment that was confirmed and not taken back, and ends when the settled time is over |
| Identity (`accounts`, `commercial/registration.py`) | users, tickets, deliveries, the tenant's state | sign up, provision, invite, revoke, accept, reset, administer, suspend | two administrators at once; one ticket at two requests; seats taken on four paths, and by the user page of the admin site (`accounts/admin.py`) without a count | but for the admin site, an administrator remains and seats stay within the plan |
| Audit trail (`audit/services.py`) | append-only events | record | none of its own: same transaction as its cause | committed exactly with its cause |
| Operations heartbeat (`operations`), web client, operator scripts | presentation, procedures | | | not modelled |

The components meet in four places. The **asset row** is written by
capitalization, custody, transfers, maintenance, depreciation and disposal, and
its row lock (`SELECT ... FOR UPDATE`) is what keeps these services apart. It does not
keep the asset page of the admin site apart from them: `AssetAdmin.save_model`
(`assets/admin.py:147`) saves a whole row that it read without a lock. The **database
commit** makes the state and the audit event visible together; Celery messages
are published after it, in an `on_commit` callback, and may be lost there. The
**workers** take messages that are acknowledged late and so delivered again
after a crash. **Private storage** takes part in no transaction: exports,
extractions and evidence write a file first and publish its key under a fence.

## 2. Plan

| Step | Modules | Question |
|---|---|---|
| done | `AssetLifecycle`, `AssetTransactions` | the workflows on one asset, atomic and then at the level of row locks |
| done | `Depreciation`, `DepreciationRun` | the books in cents; the monthly batch over them |
| done | `AssetLifecycleProofs` | types, maintenance, disposal, capitalization, separation of duties, placements and history for every size |
| done | `AssuranceExecution` | one run through faults, duplicate deliveries and recovery: fence, sealed inputs, end |
| done | `AssuranceExecutionProofs` | its types, publication and fence for every size |
| done | `ReportSnapshots`, `ReportExports`, `AnalyticsExtraction`, `CuratedProcessing`, composed in `ReportingPipeline` | snapshots and everything that reads them, through overlapping, failing and lost attempts |
| done | `PhysicalVerification`, `EvidenceUploads`, `FindingLedger`, composed in `AssuranceControls` | observation, evidence and findings |
| done | `Tenants`, `Billing`, `PaystackBilling`, `Membership`, composed in `Tenancy` | payments, seats and administrators of one tenant |
| done | `DepreciationProofs`, `AssuranceControlsProofs`, `TenancyProofs`, over `OrderLemmas` | the books, the monthly batch, evidence, findings, verification, membership and payments for every size |
| done | `AssetTransactionsProofs` | the refinement of the atomic workflows by row locks and unlocked reads, lock order and recorded costs for every size |
| done | `ReportingProofs` | snapshots, exports, extraction and curated publications for every size |
| left | none of a safety property; the liveness properties | stay with TLC (section 6) |

Every module takes its sets and bounds as CONSTANTS with named assumptions, has
one action per operation and declares no RECURSIVE operator.

## 3. Modules

**`AssetLifecycle`**: one action per service, whole: a step is the transaction
that commits, and a call the service rejects is no step. Rows are records in
functions from identifiers; `"ABSENT"` is a row not inserted. Department and
location are one `place`. `HasOpenTransfer` and `HasOpenDisposal` in guards are
the partial unique indexes. The one operation that is two steps is
`update_maintenance_plan` (`ReadMaintenancePlan`, `UpdateMaintenancePlan`),
because it reads the asset without locking it. The asset page of the admin site is
`AdminCreateAsset`, which counts no limit, and `CorrectAsset`, a superuser's audited
correction of an ACTIVE asset's placement; each correction is counted in `corrections`, which
stands for its ASSET_UPDATED event, up to `MaxCorrections`. Both are one step here, as if the
page had read the row when it saves it; section 7 says what happens otherwise. The statuses
PENDING_CAPITALIZATION, TRANSFERRED and IMPAIRED are in the sets the code tests
and no service sets them.

**`AssetTransactions`**: the same services as transactions of concurrent
requests under READ COMMITTED. A request locks the workflow row or the acquisition, then
the asset (`FirstLock`, `SecondLock`); `return_asset` then locks the open assignment and
`create_work_order` the organization's `WorkOrderSequence` (`LockLast`, `LastLock`). It reads
the tables it does not lock (custody, transfers and orders in separate statements, `Reads`),
and commits from the copies it holds or rolls back. `update_acquisition` takes the two locks
of `capitalize_acquisition` and writes the acquisition alone. Recorded costs are here:
`create_maintenance_cost` locks only the order. Creating and editing an asset and creating
its acquisition is one step (`MasterData`): it takes one row and the organization. The admin
site is no request here, for it locks nothing. `ImplementsLifecycle` is `AssetLifecycle!Spec`
under `INSTANCE`, without maintenance plans and corrections.

**`Depreciation`**: periods, schedules, entries and the books of the asset row,
in whole cents. `PeriodAmount` is `calculate_period_amount` with its rounding
(`RoundHalfUp`, Decimal ROUND_HALF_UP). `PostDepreciation` is the service with
every check, and completes the schedule at the last month. What maintenance and
disposal do to the status and the snapshot is repeated here without their
workflows.

**`DepreciationRun`** extends `Depreciation` with the tasks. Beat queues a
scheduling task per month; it commits a run row, publishes the execution
message, or fails to (`ScheduleFails`), and is acknowledged; a worker takes the message and
the advisory lock, and goes through `BeginRun`, `ListSchedules`, `CheckSchedule` per
schedule, `PostDue` and `PersistProgress` per asset, `CompleteRun` or `FailRun`.
Each is one commit of the code or one unlocked read. `RaiseError` is a statement of the try
block that fails and is handled. `WorkerCrash` and `SchedulerCrash` are processes that die:
their message goes back to the queue. `TaskFails` is a task that is acknowledged although
nothing handled its end: it was killed at its time limit, or failed before the try block or
inside `except` or `finally`. Whoever dies leaves its advisory lock with a database session
that ends later (`orphaned`, `SessionEnds`); a delivery that meets it is acknowledged. `lost`
remembers the months whose message went either way.
People post, close and open periods and start and end maintenance in between
(`PeopleNext`).

**`AssuranceExecution`**: a delivery of `execute_assurance_run` is `Receive`, then
one action per transaction of `advance_run`: `Begin`, `Attempt` (which captures,
evaluates one unit or publishes) or `AttemptFails`, and `ChargeFailure`; then
`SendContinuation` and `Acknowledge`. The row of the run is free between them, so
another worker may move it on. `worker[w].seen` is the local `revision` that
`ChargeFailure` compares. The live records are no variable: `Capture` picks any
condition of every subject, since anything may have been edited by then. A run may
receive its delayed continuation early (clocks differ, recovery sends another);
`Begin` then only passes it on. `AttemptFails`, `TaskFails`, `WorkerCrash` and every
lost publication count against `MaxFaults`.

**`ReportSnapshots`**: `request_snapshot` and the three transactions of a delivery
of `generate_report_snapshot` (`StartSnapshot`, `Capture` with `CompleteSnapshot`,
`FailSnapshot`). A capture bears the time of its transaction and becomes visible at its
commit; `now` is that clock and `CaptureLimit` the time limit of a task.

**`ReportExports`** (extends it): one action per transaction or storage call of an
attempt, named by its token: `ClaimExport`, `SaveFile`, `PublishFile`, and after an error
`DropAfterError`, `ReleaseRow`, `RetryOrFail`. Beat is `RecoverExport`, `ExpireExport`,
`DeleteExpired`; the sweep reads a row (`StartSweep`) and then deletes key by key.
`Overtake` is the recovery of a row whose worker is still alive.

**`AnalyticsExtraction`** and **`CuratedProcessing`**: claim under the checkpoint's (the
run's) fresh token, read and stage outside transactions, publish if the token still holds.
A file is the set of snapshots in it. **`ReportingPipeline`** composes the four over the
snapshot rows.

**`PhysicalVerification`**: the services on campaigns, observations and exceptions, one
action each; `CreateVerification` is the observation with `_reconcile`, including what it
does to earlier observations of the same tag. `ChangeRegister` stands for the workflows
above. **`EvidenceUploads`**: the steps of a request and of the cleanup task between
database and storage. **`FindingLedger`**: a publication reads, inserts and rereads
findings under row locks and the unique index and commits its `draft`; reviewers move
committed rows. **`AssuranceControls`** composes the three: evidence needs a verification,
a run needs a completed campaign.

**`Tenants`** holds what billing and identity share: the tenant, its users, its
subscription, and the checks on writes and seats. **`Billing`** is `billing.py` with the
local sandbox; **`PaystackBilling`** is `paystack.py`, with the provider's payments and
subscriptions as external actions (`Pay`, `Renew`, `TakeBack`, `EndRemote`).
**`Membership`** is tickets, their delivery, sign-up, provisioning and administration; an
administrator's request is authorized at one step and done at a later one, if its row is
still there for the audit event to name (`Recorded`). The user page of the admin site is
`SiteSave`, `SitePassword` and `SiteDelete`, with no lock, no count of seats and no look at
the last administrator; what a ticket refers to cannot be deleted (`Referenced`), and
`edits`, up to `MaxEdits`, counts what was done there. **`Tenancy`** composes them. Times are ticks; what happens within
one tick bears the same time.

**`MC...`**: constants and symmetry for TLC. In `ReportingPipeline`, `AssuranceControls`
and `Tenancy` the constant `Workloads` is a set of records, and the initial state picks one:
it says which requests, providers, subjects or faults a behaviour exercises, so that one
run covers several instances that would be too large at once. **`...Proofs`**: section 6.

## 4. Runs

| Run | Bounds | Shows |
|---|---|---|
| `lifecycle` | 1 asset, 2 places, 2 users, 2 transfers, 2 orders, 2 disposals, 1 plan, 1 correction | `TypeOK`, `MaintenanceMatchesOrders`, `DisposedIsClosed`, `CapitalizedOnce`, `ActivePlacementMovesByTransfer`, `HistoryIsFinal` |
| `lifecycle_plan` | the same with one of each | violated: a disposed asset keeps an active plan |
| `transactions` | 2 requests, 2 assets, 1 transfer, 2 orders, 1 disposal, 1 cost, and not all at once (`Bound`) | `ImplementsLifecycle`, `NoCircularWait`, `RecordedCostIsComplete` |
| `depreciation` | 1 asset; costs 6, 10, 11; residuals 0, 6; lives 1, 3, 4; months 0 to 4 | `LedgerRollsForward`, `ScheduleKeepsBasis`, `DisposalTakesLedgerBalance`, `RemainderIsBounded`, `BooksAreFinal` |
| `depreciation_rounding` | the same | violated: `ScheduleFollowsPlan`, as amounts round up or down |
| `monthly_redelivery` | 2 workers, 2 assets, 1 month, 2 crashes, errors or losses, fairness | `CompletedRunPostedAll`, `CompletedTotalsAgree`, `FinishedRunIsFinal`, `StartedRunIsCarried`, `DeliveredRunFinishes` |
| `monthly_progress` | the same without fairness | violated: a failed run leaves out an entry it posted |
| `assurance_execution` | 1 run, 2 workers, 2 subjects in units of one, 1 retry, 3 faults, 2 messages, fairness | `PublishedWhole`, `LateFailureIsIgnored`, `StartedRunEnds` |
| `reporting` | 3 snapshots in 2 datasets, 1 export, 3 attempts each at exporting and extracting, 2 at curating, 1 retry, 2 faults, fairness | `StorageAgrees`, `StorageSettles`, `RequestsEnd`, `CompletedSnapshotStays`, `NoSnapshotMissed`, `LatestSuppliesNewest`, `CuratedMovesForward`, `TypeOK` |
| `controls` | 1 campaign, 2 assets and 1 unregistered item, 2 register rows, 3 observations; 2 uploads, 2 faults; 3 runs, 2 identities, 1 retry | `ResultsSummarizeExceptions`, `ClosedCampaignIsFinal`, `EvidenceAgrees`, `LedgerAgrees`, `DetectionsRecorded` |
| `tenancy` | 2 users, 2 plans, 2 checkouts of 1 renewal, 4 ticks, 2 requests waiting, 1 edit by the admin site | `AdminRetained`, `SeatsWithinLimit`, `EntitlementIsSettled`, `AccessIsBounded` |
| `evidence` | 2 uploads, a cleanup of 1 row, 1 fault, fairness | violated: an upload that stays PENDING for ever |

Why the bounds are enough. The workflows meet on the asset row and name no
other asset, so one asset with two rows of each workflow has every
competition but one: two requests for different assets meet at the work order sequence, the
last lock. That is what the second asset of `transactions` is for, and `Bound` leaves it out of
behaviours with transfers, disposals, or orders that have moved on, which have no last lock.
It also leaves costs out of behaviours with transfers and disposals, which never look at them.
The theorems of section 6 remove the bound for the invariants they state. Two requests contain every pair of services; that a longer circle of waiting
requests cannot be is proved. The costs, residuals
and lives give amounts that divide evenly, round up, round down and are zero,
and lives shorter and longer than the months that can be posted. Two workers
are what the advisory lock separates; two crashes reach a crash of the
redelivery, a crash of both tasks, and a redelivery that meets the lock of a dead process.
One correction moves an asset under an approved transfer; one edit by the admin site takes the
last administrator, fills a seat beyond the plan or makes the last of two administrators of
one, and the properties are about every step that follows. For an assurance run, three faults reach a
late failure that follows a crash or a lost message and exhaust the one retry, two
subjects give a unit after the one that failed, and two queued messages keep both
workers on the run; runs share nothing but the findings, which are not in this
module. `MaxMessages` bounds what dispatch and recovery add, and never a
continuation or a redelivery. Monthly runs of different months are checked one month at a
time: two months with two workers are too large, and runs of different months share only
the ledger, whose order `depreciation` covers.

Two faults make an export's attempt fail twice, which is one more than its retries, or be
overtaken after a failure; three tokens are the attempt, the one that overtakes it and the
one after. Two snapshots captured side by side are what a watermark can pass over, and
three extraction attempts are one that is given up, one that replaces it, and a next. For
verification, three subjects are a record with two others of its tag; for the ledger three
runs are two that publish at once and one before or after. Two checkouts give a payment
that a later one overtakes; two users with plans of one and two seats fill and overfill a
plan and are the two administrators of `AdminRetained`. The workloads of `MCTenancy` are:
disorder among sandbox payments; plans and cancellation; an operator's look-up; the month
after and what is taken back; events that fail; a subscription that ends and a new one;
seats while plans change; administrators; the beginning of a tenant; invitations;
resets, also from the site's pages.

The runs set `CHECK_DEADLOCK FALSE`: every workflow has terminal states and the
identifiers run out, so the models really stop.

## 5. Fairness

Four runs assume any. `monthly_redelivery`: `WF_vars(WorkerNext(w))` for each worker.
A Celery worker that is alive goes on with its task and takes the next message,
and crashes are bounded by `MaxCrashes`. Nothing is assumed of beat, of the
publication of a message, of the end of a dead session, or of people.
`DeliveredRunFinishes` therefore starts where the message is in the queue, and says only that
the run ends or its message is lost. The code loses it in three ways, and no task ever looks
for a depreciation run that was left: a task killed at its time limit
(`config/settings.py:211`) is acknowledged and leaves the run RUNNING; so does one that
raises outside the try block (`automation.py:250-251`) or inside `except` or `finally`
(`automation.py:355-369`); and a redelivery that comes before PostgreSQL has ended the session
of the dead process finds the run locked and is acknowledged. That nothing else loses it is
`StartedRunIsCarried`. A run whose publication failed stays PENDING, in the model as in the
code (`automation.py:105`).

`assurance_execution` assumes the same of its workers (faults are not in
`WorkerNext`, except a lost continuation, and are bounded by `MaxFaults`), of
`RecoverRun`, which beat starts every 60 seconds (`config/celery.py:36`) and which
takes the least recently touched runs first, and of `TimePasses`: a clock reaches
`next_attempt_at`. `StartedRunEnds` covers every run that is RUNNING, since recovery
looks for those.

`reporting`: the workers go on with a capture (`SnapshotFairness`) and with an export, and
beat starts recovery and expiry every five minutes and every hour
(`config/celery.py:40-47`); each is weak fairness of the disjunction, since the pool, not one
message, is what goes on. Faults are bounded and in no fair action. `RequestsEnd` has no
recovery to rely on for snapshots: there it holds because a failing task always ends in a
retry or in `FailSnapshot`, and a task that a time limit kills is excepted (see
`StartedSnapshotEnds`).

`evidence`: a request goes on until it ends or its worker dies, half an hour passes, and
beat starts the cleanup every fifteen minutes and it goes on from row to row. Under this
fairness a PENDING row would leave that state if the code could make it.

## 6. Proofs

`AssetLifecycleProofs` proves, for any sets of rows and any limit, from
`NoneIsNoRow` and `LimitIsNat` alone:

- `TypeCorrect`: `Spec => []TypeOK`, one lemma per group of actions.
- `MaintenanceCorrect`: `Spec => []MaintenanceMatchesOrders`. The invariant is not
  inductive alone: `StartWorkOrder` puts an asset in maintenance only from ACTIVE,
  and the code's set of movable statuses has two more. `MaintenanceInv` adds
  `StatusesInUse` (those two are never reached) and `NamesAssets` (an inserted row
  names a registered asset). `RestoreEffect` describes
  `_restore_asset_if_no_active_work` once for completion and cancellation.
- `DisposalCorrect`: `Spec => []DisposedIsClosed`. The strengthening is
  `OneOpenDisposal`, the partial unique index as a state predicate: without it a
  second approved disposal would survive the completion of the first.
- `CapitalizationCorrect` and `DutiesSeparated`: `CapitalizedOnce` is inductive with
  `Shape` (types and the two facts above), `SeparationOfDuties` with the types. That the
  requester of a disposal does not approve it is a check in one service; it is proved here and
  is in no run.
- `PlacementCorrect`: `Spec => ActivePlacementMovesByTransfer` (a transfer of its own, or a
  correction that is counted), and `HistoryCorrect`:
  `Spec => HistoryIsFinal`, step by step from the same invariants.

`AssuranceExecutionProofs` proves, from `SubjectsAreOrdered` and `BoundsAreNumbers`,
with one invariant (`IInv`) for all three theorems:

- `RunTypeCorrect`: `Spec => []RunTypeOK`. The type of a completed work unit needs that
  `_evaluate_unit` finds a unit, hence `LeastExists` (a set of numbers has a least
  element) and, in `Consistent`, that a unit is
  left while the phase is EVALUATE.
- `PublicationCorrect`: `Spec => []PublishedWhole`. `Consistent` says that the staged
  candidates are those of the evaluated units at every moment; the completion gate of
  `_publish` turns that into the whole population.
- `LateFailureCorrect`: `Spec => LateFailureIsIgnored`. `Consistent` also says that the
  revision counts the units behind the run (`Progress`), so equal revisions mean the
  unit where the attempt failed. `StepFenced` shows that no step but `ChargeFailure`
  charges a failure.

`KeepsConsistent` treats at once all the steps that leave the data alone, and the three
phases have a lemma each (`CaptureDone`, `EvaluateDone`, `PublishDone`).

`DepreciationProofs` is first about `BooksSpec`, the books without the batch, from
`AmountsAreCents`, `LivesArePositive` and `LastMonthIsNat`:

- `BooksTyped`, `LedgerCorrect`, `BasisKept`: one invariant, `BooksInv`, which adds
  `PostedInOrder` (nothing is scheduled before capitalization nor posted before a schedule) to
  types, `LedgerRollsForward` and `ScheduleKeepsBasis`. A posting
  appends one entry to one ledger; what it appends continues the chain.
- `RemainderCorrect`: `Paced` says that an asset has depreciated the number of posted months
  times the periodic amount, or its whole base. With `RoundHalfUpClose` (a rounded quotient
  is within half of the exact one) a complete schedule is within half a cent per month.
- `DisposalSnapshotCorrect`, `BooksFinal`: from `BooksInv`, step by step.

It is then about the monthly batch over these books (`DepreciationRun`'s `Spec`), with
`SystemPosts` besides, for any number of workers, assets, months and crashes:

- The invariant `RunInv` is `BooksInv` with `Exclusive` (the advisory lock: two busy workers
  execute two months) and `Sound`: the run of a worker past the beginning is RUNNING, and each
  schedule it listed is still to check, due, posted or over (`Accounted`). People who post
  meanwhile only add entries and keep the months of a schedule (`BooksGrow`), so what was
  accounted for remains so. A step of a worker moves only that
  worker and the run of its month (`KeepsToMonth`), so the others stay sound.
- `CompletedPostedAll`: only the worker that holds the lock completes a run
  (`WhoCompletes`), and it has nothing due.
- `RunFinal` and `TotalsCorrect`: `RunMoves` lists what a step may do to the run of a month.
  One that is over stays and gets no system entry; one that is completed is completed with the
  total its ledger has at that step.
- `RunCarried`: `Spec => []StartedRunIsCarried`. No step takes a message from the queue or a
  worker from a run that has begun without ending the run, returning the message or
  recording it in `lost`.

`AssetTransactionsProofs` (`NoneIsNothing`, `LimitIsNat`, `CostsAreBounded`,
`TablesAreDisjoint`) proves, for any number of requests and rows:

- `ImplementationCorrect`: `Spec => ImplementsLifecycle`. Every commit is one atomic step
  of `AssetLifecycle`, although transfers, custody, orders and costs are read without locks.
  `Knows(q)` says that what request `q` read is still so: the rows it locked, and also what it
  did not lock. A disposal that found no custody, transfer or open order (`KnowsClear`) stays
  clear because whoever would add one needs the asset's lock; so do the other orders that the
  close of an order looked at (`KnowsOthers`).
- `CostsCorrect`: the total that a close recorded has every cost (`KnowsCosts`,
  `RecordedWhenClosed`): costs are added under the lock of the order, and to open orders only.
- `NoCircularWaitCorrect`: `LockOrder`: who holds an asset waits at most for an assignment or
  the work order sequence, and who holds one of these waits for nothing. Of any set of
  requests, one at its last lock or else one that holds an asset or else any waits for none
  of them, so there is no circle of any length.
- `LifecycleInherited`: hence the theorems of `AssetLifecycleProofs` (`L`, an instance over
  the committed rows) hold of the concurrent requests.

`RowsFramed` and `OthersFramed` say once what a transaction leaves alone.

`ReportingProofs` is about the composition, with the assumptions of its four parts:

- `SnapshotsCorrect`: `CaptureSound` says that a worker with an open capture is the only one
  at its snapshot, which is not over, and within the time limit.
- `ExportsCorrect`: `StorageAgrees`. `RowSound` and `AttemptSound` relate a row to the attempt
  its token names: a stored file is published, on the cleanup list of its row, or of
  the attempt that holds the row (`Accounted`), and what is to be deleted is of an attempt
  that lost its row and is not published (`Abandoned`). Each step is
  described from the row's side (`RowMoves`) and from the attempt's (`AttemptMoves`), which
  leaves two short arguments instead of one per pair of action and conjunct.
- `ExtractionComplete` and `ExtractionCurrent`: a snapshot that lies behind the watermark
  by more than the overlap was extracted (`DatasetSound`). The argument needs
  `OverlapCoversCapture`: a capture is visible within the time limit of its task, and the
  overlap is at least as long. A publication reads what was visible when it began; what became
  visible since (`Grown`) is inside the window of the next one.
- `CuratedCorrect`: the publications that a run may choose from only become newer
  (`PublicationsStay`, `NotBefore`); a claim fails the runs of other source sets, so one
  run is under way and its sources are no older than what was published (`ProcessingSound`).
- `TypesCorrect`.

`AssuranceControlsProofs` has three sections over `Evidence`, `Ledger` and the composition:

- `EvidenceCorrect` (`UploadsAssumption`): `UploadConsistent` relates the place of a request
  to its row and its object, and holds of every upload the cleanup task did not overtake;
  `SweepIsStale` (the task holds no fresh upload) makes the two disjoint.
- `LedgerCorrect` and `DetectionsCorrect` (`LedgerAssumption`), with `LedgerInv`: the columns
  of every finding and draft agree with its occurrences (`AllAgree`), a draft is the active
  finding with its run added and the only draft of its identity (`DraftsExtend`: the row lock
  and the partial unique index), a transaction has drafted its candidates up to where it is
  (`DraftsFollow`), and a run is in one finding of each candidate once it is completed and in
  none before (`AllRecorded`).
- `ResultsCorrect` and `CampaignsClose` (`SubjectsAssumption`, `WorkloadsAssumption`), with
  `UnrecordedIsClean` and `UnregisteredIsItem`, which the choice of a result rests on.
  `NextIsOfOnePart` shows that a step of the composition is one of a single part or stutters
  for it, so `PartsCorrect` has the properties of evidence and ledger in the composition too.

`TenancyProofs` (`SeatsAssumption`, `TimesAssumption`, `BillingBounds`,
`WorkloadsAssumption`) is about payments, identity and administration together:

- `AdminCorrect` and `SeatsCorrect`, for every step but the admin site's. `TenancyInv` has
  the plans that rows name (`PlansKnown`), types (`MembersTyped`), that nobody has paid for a
  tenant without a subscription (`Unbilled`) and what the beginning of a tenant leaves
  (`Beginnings`): a ticket that activates is of one person and is no longer open once there
  is a subscription, and the account that brought it about cannot be deleted. `Logged` has the
  number of edits. Billing reaches membership only through `BillsMembers`: its people stay,
  and a plan changes only to one they fit.
- `EntitlementCorrect` and `AccessCorrect`, from `MoneyInv`: a checkout is settled once, by a
  payment that succeeded, and one whose payment was taken back unrecorded has an event that
  still waits (`CheckoutSound`); an event that was handled has had its effect (`EventSound`);
  the invoice of a checkout agrees with its payment (`PaymentSound`), and `RemoteSound` says
  which subscriptions of the provider there are. For the time of access, `SubscriptionSound`
  bounds the end of the period. With Paystack it is at most `Period` after the settlement that
  gives access. In the sandbox a settlement of the same plan extends from the greater of now
  and the end so far, and a reversal leaves that end, so the bound (`PaidFor`) is a `Period`
  for each checkout of the plan that was ever settled (`SettledRefs`), reversed ones included;
  it grows with nothing else.

`OrderLemmas`: a nonempty set of naturals has a least element, a bounded one a greatest, and
`Min` and `Max` are they.

The properties were checked by TLC before they were proved, and the inductive invariants of
payments and transactions too. Every safety property of the passing runs is a theorem.
`SeparationOfDuties` is proved and in no run. Only model-checked is liveness
(`DeliveredRunFinishes`, `StartedRunEnds`, `RequestsEnd`, `StorageSettles`): it and everything about ENABLED are beyond the prover, as are facts about
data that need induction (the value of a sum over a ledger of any length).

## 7. Where code and documents disagree

1. `docs/business-rules.md:91`: a disposed asset cannot have an active plan.
   `complete_disposal` does not look at plans (`lifecycle_plan`).
2. `docs/business-rules.md:63-64`: one period per useful-life month, and the final
   posting absorbs the rounding remainder. Every month posts the same amount: 10 cents
   over 3 months give 3, 3, 3 and leave a cent; 6 cents over 4 months give 2, 2, 2, the
   fourth posting is refused, the schedule never completes and the monthly batch fails on
   it (`depreciation_rounding`).
3. `docs/business-rules.md:71`: a run records aggregate progress. One interrupted
   after a posting and failed at redelivery because its period was closed does
   not (`monthly_progress`).
4. `verification/services.py:1512`: the cleanup task marks abandoned uploads failed. The
   check constraint `verify_evidence_reference_present` (`verification/models.py:593`)
   refuses that for an upload without an external reference that is no NOTE, so the row stays
   PENDING, the task ends there each time, and later rows are not reached (`evidence`).

Five more, met while modelling, have no run of their own; the models follow the code:

5. `docs/business-rules.md:71`: "A scheduled `DepreciationRun` records the monthly outcome".
   A run whose publication failed stays PENDING (`automation.py:105`), and one whose task was
   killed at its time limit or failed outside its handler stays RUNNING
   (`automation.py:250`, `355`, `config/settings.py:211`); nothing recovers it
   (`ScheduleFails`, `TaskFails`).
6. `verification/services.py:468-469`: a comment says that a duplicate adds an exception to
   the earlier observation "rather than rewriting it or its result". Lines 472-477 rewrite the
   result to DUPLICATE_TAG, whatever it was.
   `docs/business-rules.md:120` allows that, `CreateVerification` does it, and
   `ResultsSummarizeExceptions` demands it: against the comment, with the code.
7. `docs/business-rules.md:26`: "Capitalization, maintenance, and disposal services own their
   supported transitions." `AssetAdmin.save_model` (`assets/admin.py:139-147`) saves every
   column of a row that it read without a lock. A service that commits between the two is
   undone: the status of a maintenance or disposal and the balances of a posting come back as
   they were, and the audit event names only the fields of the form. `AssetLifecycle` has the
   page's own edits and not this overwriting, so its theorems are about the services, and
   about corrections saved over the row as it is.
8. `accounts/admin_api.py:263`: "The organization must retain at least one active
   administrator." The user page of the admin site (`accounts/admin.py:7-83`) demotes,
   deactivates and deletes without a look at the others, and adds and reactivates users
   without counting seats. `AdminRetained` and `SeatsWithinLimit` therefore except its steps
   (`SiteNext`).
9. `docs/saas/implementation.md:15`: "A same-plan renewal preserves unexpired paid time", and
   a refund or chargeback "suspends writes for review". In the sandbox a reversal leaves
   `period_ends_at` (`billing.py:240-245`); the next settlement of the same plan extends that end
   (`billing.py:220-228`) and makes the subscription ACTIVE, so time that was refunded is kept,
   without review. `AccessIsBounded` counts reversed checkouts for this reason.

Noted besides:

- `docs/business-rules.md:122-123` let a tag that is seen twice make both observations
  duplicates. When the earlier one is of an unregistered item, the constraint
  `physical_verify_asset_result_valid` refuses the result DUPLICATE_TAG and the second
  observation is rejected whole; this is a guard of `CreateVerification`.
- A commit whose acknowledgement is lost raises although it took effect. The branches at
  `reporting/exports.py:280`, `analytics/services.py:421` and `verification/services.py:981`
  then delete a file that a committed row names. The models take such a commit as rolled back.
- A transient storage error while evidence is opened marks intact evidence CORRUPT, for good
  (`verification/services.py:1456`, `FindCorrupt`).
- A cleanup that overtakes a request of more than thirty minutes can leave VERIFIED
  evidence without its file; `docker-compose.production.yml:81` kills requests at two
  minutes, and `EvidenceAgrees` excepts the overtaken ones.
- A tenant whose activation ticket was revoked by a suspension cannot be invited again
  (`commercial/api.py:337`). A Paystack checkout that was abandoned stays PENDING and blocks
  cancellation and new checkouts until an operator reconciles it (`commercial/billing.py:76`).
- A save of the asset page in which no form field changed writes the whole row and records no
  event (`assets/admin.py:139-181`).

## 8. Not modelled

Permissions and tenant isolation (each model is one organization), descriptive
fields, audit payloads, serialization and the web client. `update_disposal`,
proceeds and gain or loss. The synchronous `execute_run` of assurance and its rules, which
are pure functions of the captured inputs (`Detections` is any of their results). Evidence
that is a note or a reference and no file, the validation of file formats, and the assignee
of an exception. The contents of reports, exports and batches, hence the row
transformations of the Spark job (`Transform` writes the outputs of an attempt). Sessions
and `session_version`, rate limits, sales leads, the billing e-mail address, departments,
and platform operators, who enter only by what they do to a tenant. What makes a provider's
event fail is left open (`RejectEvent` may happen to any). Deadlocks of requests other than
those of `AssetTransactions`: `accounts/identity_api.py:222` is one the hazards name.

Of the admin site, what is modelled is the placement of an asset and the status, role and
password of a user. Not modelled are the overwriting of an asset row by a copy read earlier
(section 7), the same of a user row (`session_version`, the password), a superuser who moves a
user to another organization or changes an e-mail address, and the pages of assurance runs and
findings, which save whole rows too. The acquisition page calls the services; the other pages
are read-only.

`AssetTransactions` has the row locks that the services ask for. The shared locks that
PostgreSQL takes for foreign keys, waits at a unique index, and the locks of posting (period,
asset, schedule) and of verification are outside it, and so outside `NoCircularWait`. The
redelivery of a message whose task runs longer than the broker's visibility timeout is not a
step of any model. Tenants that existed before subscriptions, and keep their access without
one (`docs/saas/implementation.md:11`), are no initial state here; a tenant without a
subscription is one that was provisioned. A checkout, a cancellation or a simulated payment
is authorized when its request is authenticated (`billing.py:42-52`): under the lock the
models ask only what the code asks there.
