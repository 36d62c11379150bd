-------------------------- MODULE DepreciationRun --------------------------
(***************************************************************************)
(* The monthly depreciation run of one organization, driven by Celery, and *)
(* the people who work on the same books meanwhile.                        *)
(*                                                                         *)
(* Beat queues a scheduling task; the task commits a run row and publishes *)
(* an execution message; a worker executes the run under an advisory lock  *)
(* in many transactions: begin, list, check each schedule, post each asset *)
(* and record progress, complete or fail, acknowledge.  Both tasks         *)
(* acknowledge late: a process that dies gives its message back, while a   *)
(* task that raises or exceeds its time limit is acknowledged as it is.    *)
(* Entries are posted by Depreciation's PostDepreciation, whole.           *)
(***************************************************************************)
EXTENDS Depreciation, FiniteSets

CONSTANTS
  Workers,
  System,        \* the poster that stands for created_by NULL
  MaxCrashes     \* bound on the processes that die and the tasks that raise

ASSUME SystemPosts == System \in Posters
ASSUME CrashesAreBounded == MaxCrashes \in Nat

VARIABLES
  run,        \* the SCHEDULED run of each month: its status and posted entries
  beat,       \* where the month's scheduling task is: waiting for the first of the month,
              \* queued, committed but not published, published but not acknowledged, done
  queue,      \* [Months -> Nat], execution messages the broker holds
  worker,     \* the step of each worker, its month, the schedules it listed
              \* (schedules_due_for_period), those left to check and those due
  orphaned,   \* the months whose advisory lock is still held by the database session of a
              \* process that is gone
  lost,       \* history: the months whose message was acknowledged with the run left as it is
  crashes     \* processes that have died, tasks that have raised

jobs == <<run, beat, queue, worker, orphaned, lost, crashes>>
vars == <<books, jobs>>

Finished == {"COMPLETED", "FAILED"}
IdleWorker == [step |-> "idle", month |-> 0, listed |-> {}, left |-> {}, due |-> {}]

CapitalizedAsset(c, r, l, s) ==
  [status |-> "ACTIVE", cost |-> c, residual |-> r, life |-> l, start |-> s,
   accumulated |-> 0, value |-> c]

\* the assets are capitalized, nothing is scheduled, no period exists
RunInit ==
  /\ asset \in [Assets -> {CapitalizedAsset(c, r, l, s) :
                             c \in Costs, r \in Residuals, l \in Lives, s \in Months}]
  /\ schedule = [a \in Assets |-> [status |-> "ABSENT", cost |-> 0, base |-> 0, residual |-> 0,
                                   life |-> 0, start |-> 0, periodic |-> 0]]
  /\ period = [m \in Months |-> "ABSENT"]
  /\ ledger = [a \in Assets |-> <<>>]
  /\ snapshot = [a \in Assets |-> [accumulated |-> 0, carrying |-> 0]]
  /\ run = [m \in Months |-> [status |-> "ABSENT", posted |-> 0]]
  /\ beat = [m \in Months |-> "waiting"]
  /\ queue = [m \in Months |-> 0]
  /\ worker = [w \in Workers |-> IdleWorker]
  /\ orphaned = {}
  /\ lost = {}
  /\ crashes = 0

-----------------------------------------------------------------------------
(* Scheduling *)

\* months come in order and every month's beat fires once
Beat(m) ==
  /\ beat[m] = "waiting"
  /\ \A k \in Months : k < m => beat[k] # "waiting"
  /\ beat' = [beat EXCEPT ![m] = "queued"]
  /\ UNCHANGED <<books, run, queue, worker, orphaned, lost, crashes>>

\* schedule_organization_depreciation up to its commit: get_or_create, and a new run
\* without an open period fails at once
ScheduleRun(m) ==
  LET status == IF run[m].status # "ABSENT" THEN run[m].status
                ELSE IF period[m] = "OPEN" THEN "PENDING" ELSE "FAILED"
  IN /\ beat[m] = "queued"
     /\ run' = [run EXCEPT ![m].status = status]
     /\ beat' = [beat EXCEPT ![m] = IF status \in Finished THEN "done" ELSE "committed"]
     /\ UNCHANGED <<books, queue, worker, orphaned, lost, crashes>>

\* the on_commit callback
PublishRun(m) ==
  /\ beat[m] = "committed"
  /\ beat' = [beat EXCEPT ![m] = "published"]
  /\ queue' = [queue EXCEPT ![m] = @ + 1]
  /\ UNCHANGED <<books, run, worker, orphaned, lost, crashes>>

\* scheduling the organization raises before its commit, or the broker refuses the message:
\* schedule_monthly_depreciation logs it and ends normally
ScheduleFails(m) ==
  /\ beat[m] \in {"queued", "committed"}
  /\ beat' = [beat EXCEPT ![m] = "done"]
  /\ UNCHANGED <<books, run, queue, worker, orphaned, lost, crashes>>

AcknowledgeBeat(m) ==
  /\ beat[m] = "published"
  /\ beat' = [beat EXCEPT ![m] = "done"]
  /\ UNCHANGED <<books, run, queue, worker, orphaned, lost, crashes>>

\* the process that runs the scheduling task dies and the task is delivered again
SchedulerCrash(m) ==
  /\ beat[m] \in {"committed", "published"}
  /\ crashes < MaxCrashes
  /\ crashes' = crashes + 1
  /\ beat' = [beat EXCEPT ![m] = "queued"]
  /\ UNCHANGED <<books, run, queue, worker, orphaned, lost>>

-----------------------------------------------------------------------------
(* Execution *)

\* a plausible bug: no lock, as _try_run_lock has it for other databases
NeverLocked(m) == FALSE

\* pg_try_advisory_lock fails: another session has the lock of the run of month m
RunLocked(m) ==
  m \in orphaned \/ \E w \in Workers : worker[w].step # "idle" /\ worker[w].month = m

Goto(w, step) == worker' = [worker EXCEPT ![w].step = step]

\* a delivery that finds the run locked is acknowledged without doing anything: no loss
\* when a worker executes the run, but the last of it when the lock's process is gone
ReceiveRun(w, m) ==
  /\ worker[w].step = "idle"
  /\ queue[m] > 0
  /\ queue' = [queue EXCEPT ![m] = @ - 1]
  /\ worker' = IF RunLocked(m) THEN worker
               ELSE [worker EXCEPT ![w] = [IdleWorker EXCEPT !.step = "begin", !.month = m]]
  /\ lost' = IF m \in orphaned THEN lost \cup {m} ELSE lost
  /\ UNCHANGED <<books, run, beat, orphaned, crashes>>

\* a plausible bug: a redelivered run that failed is taken up again
BeginFailedRun(w) ==
  LET m == worker[w].month IN
  /\ worker[w].step = "begin"
  /\ IF run[m].status = "COMPLETED" \/ period[m] # "OPEN"
       THEN Goto(w, "end") /\ UNCHANGED run
       ELSE /\ run' = [run EXCEPT ![m].status = "RUNNING"]
            /\ Goto(w, "list")
  /\ UNCHANGED <<books, beat, queue, orphaned, lost, crashes>>

BeginRun(w) ==
  LET m == worker[w].month IN
  /\ worker[w].step = "begin"
  /\ CASE run[m].status \in Finished -> Goto(w, "end") /\ UNCHANGED run
       [] run[m].status \notin Finished /\ period[m] # "OPEN" ->
            Goto(w, "end") /\ run' = [run EXCEPT ![m].status = "FAILED"]
       [] OTHER -> Goto(w, "list") /\ run' = [run EXCEPT ![m].status = "RUNNING"]
  /\ UNCHANGED <<books, beat, queue, orphaned, lost, crashes>>

\* schedules_due_for_period
ListSchedules(w) ==
  LET listed == {a \in Assets : /\ schedule[a].status = "ACTIVE"
                                /\ asset[a].status = "ACTIVE"
                                /\ schedule[a].start <= worker[w].month}
  IN /\ worker[w].step = "list"
     /\ worker' = [worker EXCEPT ![w].listed = listed, ![w].left = listed, ![w].step = "check"]
     /\ UNCHANGED <<books, run, beat, queue, orphaned, lost, crashes>>

PostedFor(a, m) == \E i \in 1..Len(ledger[a]) : ledger[a][i].month = m

\* one turn of the first loop: asset tags decide which schedule is next, so any may be.
\* The schedule is behind or ahead, and the batch fails; or it is posted or over, and
\* passed over; or it is due.
CheckSchedule(w, a) ==
  LET m == worker[w].month
      over == PostedFor(a, m)
                \/ (NextMonth(a) = m /\ schedule[a].start + schedule[a].life - 1 < m)
  IN /\ worker[w].step = "check" /\ a \in worker[w].left
     /\ IF ~PostedFor(a, m) /\ NextMonth(a) # m
          THEN Goto(w, "fail")
          ELSE worker' = [worker EXCEPT ![w].left = @ \ {a},
                            ![w].due = IF over THEN @ ELSE @ \cup {a}]
     /\ UNCHANGED <<books, run, beat, queue, orphaned, lost, crashes>>

EndOfChecks(w) ==
  /\ worker[w].step = "check" /\ worker[w].left = {}
  /\ Goto(w, "post")
  /\ UNCHANGED <<books, run, beat, queue, orphaned, lost, crashes>>

\* one turn of the second loop: post_depreciation commits ...
PostDue(w, a) ==
  /\ worker[w].step = "post" /\ a \in worker[w].due
  /\ PostDepreciation(a, worker[w].month, System)
  /\ worker' = [worker EXCEPT ![w].due = @ \ {a}, ![w].step = "progress"]
  /\ UNCHANGED <<run, beat, queue, orphaned, lost, crashes>>

\* a plausible bug: a posting that is refused is passed over and the batch goes on
PassOverRejected(w, a) ==
  /\ worker[w].step = "post" /\ a \in worker[w].due
  /\ ~MayPost(a, worker[w].month)
  /\ worker' = [worker EXCEPT ![w].due = @ \ {a}]
  /\ UNCHANGED <<books, run, beat, queue, orphaned, lost, crashes>>

\* ... or raises, because the books have moved since the check
PostRejected(w, a) ==
  /\ worker[w].step = "post" /\ a \in worker[w].due
  /\ ~MayPost(a, worker[w].month)
  /\ Goto(w, "fail")
  /\ UNCHANGED <<books, run, beat, queue, orphaned, lost, crashes>>

\* _system_posting_totals: an asset has at most one entry per month
SystemPostings(m) ==
  Cardinality({a \in Assets : \E i \in 1..Len(ledger[a]) :
                                ledger[a][i].month = m /\ ledger[a][i].by = System})

PersistProgress(w) ==
  LET m == worker[w].month IN
  /\ worker[w].step = "progress"
  /\ run' = [run EXCEPT ![m].posted = SystemPostings(m)]
  /\ Goto(w, "post")
  /\ UNCHANGED <<books, beat, queue, orphaned, lost, crashes>>

CompleteRun(w) ==
  LET m == worker[w].month IN
  /\ worker[w].step = "post" /\ worker[w].due = {}
  /\ run' = [run EXCEPT ![m] = [status |-> "COMPLETED", posted |-> SystemPostings(m)]]
  /\ Goto(w, "end")
  /\ UNCHANGED <<books, beat, queue, orphaned, lost, crashes>>

\* the except branch
FailRun(w) ==
  LET m == worker[w].month IN
  /\ worker[w].step = "fail"
  /\ run' = [run EXCEPT ![m] = IF @.status \in Finished THEN @
                               ELSE [status |-> "FAILED", posted |-> SystemPostings(m)]]
  /\ Goto(w, "end")
  /\ UNCHANGED <<books, beat, queue, orphaned, lost, crashes>>

\* the finally branch releases the lock; the task returns and its message is acknowledged
AcknowledgeRun(w) ==
  /\ worker[w].step = "end"
  /\ worker' = [worker EXCEPT ![w] = IdleWorker]
  /\ UNCHANGED <<books, run, beat, queue, orphaned, lost, crashes>>

\* any statement of the try block may fail: lost access, database errors
RaiseError(w) ==
  /\ worker[w].step \in {"begin", "list", "check", "post", "progress"}
  /\ crashes < MaxCrashes
  /\ crashes' = crashes + 1
  /\ Goto(w, "fail")
  /\ UNCHANGED <<books, run, beat, queue, orphaned, lost>>

\* the task of worker w is gone; its database session still has the lock
Abandon(w) ==
  /\ worker[w].step # "idle"
  /\ crashes < MaxCrashes
  /\ crashes' = crashes + 1
  /\ worker' = [worker EXCEPT ![w] = IdleWorker]
  /\ orphaned' = orphaned \cup {worker[w].month}

\* a plausible bug: the message was acknowledged on delivery (acks_late=False)
WorkerCrashAckedEarly(w) == Abandon(w) /\ UNCHANGED <<books, run, beat, queue, lost>>

\* the process dies: acks_late and reject_on_worker_lost give the message back
WorkerCrash(w) ==
  /\ Abandon(w)
  /\ queue' = [queue EXCEPT ![worker[w].month] = @ + 1]
  /\ UNCHANGED <<books, run, beat, lost>>

\* Acknowledged and not redelivered: the task exceeds CELERY_TASK_TIME_LIMIT and its process
\* is killed, or a statement outside the try block raises (the first read of the run, the
\* except branch itself, the release of the lock).  Nothing else marks the run.
TaskFails(w) ==
  /\ Abandon(w)
  /\ lost' = lost \cup {worker[w].month}
  /\ UNCHANGED <<books, run, beat, queue>>

\* PostgreSQL notices that the client is gone and ends its session
SessionEnds(m) ==
  /\ m \in orphaned
  /\ orphaned' = orphaned \ {m}
  /\ UNCHANGED <<books, run, beat, queue, worker, lost, crashes>>

-----------------------------------------------------------------------------
BeatNext ==
  \E m \in Months : Beat(m) \/ ScheduleRun(m) \/ PublishRun(m) \/ ScheduleFails(m)
                      \/ AcknowledgeBeat(m) \/ SchedulerCrash(m)

Execute(w) ==
  \/ BeginRun(w) \/ ListSchedules(w) \/ EndOfChecks(w) \/ PersistProgress(w)
  \/ CompleteRun(w) \/ FailRun(w) \/ AcknowledgeRun(w)
  \/ \E a \in Assets : CheckSchedule(w, a) \/ PostDue(w, a) \/ PostRejected(w, a)

WorkerNext(w) == Execute(w) \/ \E m \in Months : ReceiveRun(w, m)

\* accountants schedule, post, open and close; maintenance takes assets out and back
PeopleNext ==
  /\ \/ PeriodNext
     \/ \E a \in Assets :
          \/ GenerateDepreciationSchedule(a)
          \/ StartWorkOrder(a) \/ RestoreAssetIfNoActiveWork(a)
          \/ \E m \in Months, by \in Posters \ {System} : PostDepreciation(a, m, by)
  /\ UNCHANGED jobs

Next ==
  \/ BeatNext
  \/ \E w \in Workers : WorkerNext(w) \/ RaiseError(w) \/ WorkerCrash(w) \/ TaskFails(w)
  \/ \E m \in Months : SessionEnds(m)
  \/ PeopleNext

\* a live worker goes on with its task and takes the next message
Fairness == \A w \in Workers : WF_vars(WorkerNext(w))

RunSpec == RunInit /\ [][Next]_vars
Spec == RunSpec /\ Fairness

-----------------------------------------------------------------------------
(* Properties *)

\* The step of worker w that completes its run.
CompletesRun(w) ==
  LET m == worker[w].month IN
  /\ worker[w].step = "post" /\ worker'[w].step = "end"
  /\ run[m].status = "RUNNING" /\ run'[m].status = "COMPLETED"

\* Worker w has nothing left to post.
AllPosted(w) ==
  LET m == worker[w].month IN
  \A a \in worker[w].listed : PostedFor(a, m) \/ schedule[a].start + schedule[a].life - 1 < m

CompletesInFull == \A w \in Workers : CompletesRun(w) => AllPosted(w)

\* A run is COMPLETED only when every schedule it listed has its entry for the month, or
\* ended before it, whoever posted it and however often the run was interrupted.
CompletedRunPostedAll == [][CompletesInFull]_vars

\* The totals of a completed run count every system entry of its month, those posted
\* before a crash and by earlier deliveries included.
CompletedTotalsAgree ==
  \A m \in Months : run[m].status = "COMPLETED" => run[m].posted = SystemPostings(m)

\* The row of a run that is over stays, and no system entry is added to its month.
FinishedRunStays ==
  \A m \in Months : run[m].status \in Finished =>
    run'[m] = run[m] /\ SystemPostings(m)' = SystemPostings(m)

\* Nothing happens under a run that is over, whatever is still queued or redelivered
\* (business-rules.md:70 "Completed-run redelivery does not post again").
FinishedRunIsFinal == [][FinishedRunStays]_vars

\* A run whose execution message reached the broker comes to an end, through deaths of its
\* workers, duplicate deliveries and people posting, closing and moving assets under it,
\* unless its message was lost: only a task that failed outside its own handler or was killed
\* at its time limit, or a delivery that met the lock of a dead process, loses it.
DeliveredRunFinishes ==
  \A m \in Months :
    queue[m] > 0 /\ m \notin lost ~> run[m].status \in Finished \/ m \in lost

\* A run that has begun and is not over is never forgotten otherwise: a message of it is in
\* the queue or a worker is on it.
StartedRunIsCarried ==
  \A m \in Months : run[m].status = "RUNNING" =>
    \/ queue[m] > 0 \/ m \in lost
    \/ \E w \in Workers : worker[w].step # "idle" /\ worker[w].month = m

\* docs/business-rules.md:71 "A scheduled `DepreciationRun` records the monthly outcome and
\* aggregate progress."
FinishedRunRecordsProgress ==
  \A m \in Months : run[m].status \in Finished => run[m].posted = SystemPostings(m)
=============================================================================
