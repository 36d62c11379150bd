-------------------------- MODULE ReportSnapshots --------------------------
(***************************************************************************)
(* Report snapshots of one organization: durable requests, each captured   *)
(* by a Celery task in two transactions.  The first moves the row from     *)
(* QUEUED to RUNNING; the second locks it, captures the rows of the report *)
(* under REPEATABLE READ and completes it.  Whoever is between the two, or *)
(* waits for the lock, may find that another delivery got there first.     *)
(*                                                                         *)
(* The completion time of a capture is read from the clock before its      *)
(* transaction commits, so snapshots become visible in another order than  *)
(* that of their times: the extraction of analytics depends on it.         *)
(***************************************************************************)
EXTENDS Naturals

CONSTANTS
  Snapshots,      \* a set of numbers: the order of the primary keys
  Workers,
  SnapshotRetries,\* max_retries of generate_report_snapshot
  CaptureLimit,   \* how long a task may run, CELERY_TASK_TIME_LIMIT
  MaxTime,        \* bound on the clock
  MaxMessages,    \* bound on the messages of one snapshot when another is requested
  MaxFaults       \* bound on errors, crashes and lost messages

\* primary keys are 64 bits wide: there is a last one
ASSUME SnapshotsAreOrdered == /\ Snapshots \subseteq Nat
                              /\ \E last \in Snapshots : \A s \in Snapshots : s <= last
ASSUME SnapshotBounds == /\ SnapshotRetries \in Nat /\ CaptureLimit \in Nat
                         /\ MaxTime \in Nat \ {0} /\ MaxMessages \in Nat /\ MaxFaults \in Nat

VARIABLES
  snapshot,       \* [Snapshots -> SnapshotRow]
  snapshotQueue,  \* [Snapshots \X (0..SnapshotRetries) -> Nat], messages by retries made
  worker,         \* [Workers -> WorkerState]
  now,            \* the clock
  stranded,       \* snapshots of a task that ended without leaving a message or a verdict
                  \* (no such record in the code)
  faults          \* errors, crashes and lost messages so far

snapshotVars == <<snapshot, snapshotQueue, worker, now, stranded>>

SnapshotRow == [status : {"ABSENT", "QUEUED", "RUNNING", "COMPLETED", "FAILED"},
                generatedAt : 0..MaxTime]

\* at: the time generated_at was given in the open transaction
WorkerState == [step : {"idle", "started", "captured", "failed", "exhausted"},
                snapshot : Snapshots, tries : 0..SnapshotRetries, at : 0..MaxTime]

SnapshotTypeOK ==
  /\ snapshot \in [Snapshots -> SnapshotRow]
  /\ snapshotQueue \in [Snapshots \X (0..SnapshotRetries) -> Nat]
  /\ worker \in [Workers -> WorkerState]
  /\ now \in 0..MaxTime /\ stranded \subseteq Snapshots
  /\ faults \in 0..MaxFaults

SnapshotInit(captured) ==
  /\ snapshot = [s \in Snapshots |->
                   IF s \in captured THEN [status |-> "COMPLETED", generatedAt |-> 1]
                                     ELSE [status |-> "ABSENT", generatedAt |-> 0]]
  /\ snapshotQueue = [m \in Snapshots \X (0..SnapshotRetries) |-> 0]
  /\ worker \in [Workers -> [step : {"idle"}, snapshot : {CHOOSE s \in Snapshots : TRUE},
                             tries : {0}, at : {0}]]
  /\ now = 1 /\ stranded = {}

Fault == faults < MaxFaults /\ faults' = faults + 1

Completed(s) == snapshot[s].status = "COMPLETED"
Ended(s) == snapshot[s].status \in {"COMPLETED", "FAILED"}

Idle(w) == worker' = [worker EXCEPT ![w] = [step |-> "idle", snapshot |-> @.snapshot,
                                            tries |-> 0, at |-> 0]]
SendSnapshot(s, n) == snapshotQueue' = [snapshotQueue EXCEPT ![<<s, n>>] = @ + 1]

-----------------------------------------------------------------------------
\* request_snapshot: a new row, or the QUEUED row of a repeated key, is sent to the
\* worker after the commit, where the message may be lost
RequestSnapshot(s) ==
  /\ snapshot[s].status \in {"ABSENT", "QUEUED"}
  /\ snapshotQueue[<<s, 0>>] < MaxMessages
  /\ snapshot' = [snapshot EXCEPT ![s].status = "QUEUED"]
  /\ \/ SendSnapshot(s, 0) /\ UNCHANGED faults
     \/ Fault /\ UNCHANGED snapshotQueue
  /\ UNCHANGED <<worker, now, stranded>>

\* execute_snapshot, the first transaction: a terminal row ends the task, a RUNNING one
\* is resumed
StartSnapshot(w, s, n) ==
  /\ worker[w].step = "idle"
  /\ snapshotQueue[<<s, n>>] > 0
  /\ snapshotQueue' = [snapshotQueue EXCEPT ![<<s, n>>] = @ - 1]
  /\ IF Ended(s)
     THEN UNCHANGED <<snapshot, worker>>
     ELSE /\ snapshot' = [snapshot EXCEPT ![s].status = "RUNNING"]
          /\ worker' = [worker EXCEPT ![w] = [step |-> "started", snapshot |-> s,
                                              tries |-> n, at |-> 0]]
  /\ UNCHANGED <<now, stranded, faults>>

\* the second transaction takes the row lock, finds the row still open, captures and
\* reads the clock
Capture(w) ==
  LET s == worker[w].snapshot IN
  /\ worker[w].step = "started"
  /\ \A v \in Workers : worker[v].step = "captured" => worker[v].snapshot # s
  /\ IF Ended(s) THEN Idle(w)
     ELSE worker' = [worker EXCEPT ![w].step = "captured", ![w].at = now]
  /\ UNCHANGED <<snapshot, snapshotQueue, now, stranded, faults>>

\* the commit that makes the snapshot COMPLETED, with its rows, for everyone
CompleteSnapshot(w) ==
  LET s == worker[w].snapshot IN
  /\ worker[w].step = "captured"
  /\ snapshot' = [snapshot EXCEPT ![s] = [status |-> "COMPLETED",
                                          generatedAt |-> worker[w].at]]
  /\ Idle(w)
  /\ UNCHANGED <<snapshotQueue, now, stranded, faults>>

\* an error in either transaction rolls it back: the serialization failure of a
\* transaction that waited for another's capture, the database, a report too large
SnapshotTaskFails(w) ==
  /\ worker[w].step \in {"started", "captured"}
  /\ \/ worker' = [worker EXCEPT ![w].step = "failed", ![w].at = 0]
     \/ worker' = [worker EXCEPT ![w].step = "exhausted", ![w].at = 0]  \* SnapshotTooLarge
  /\ Fault
  /\ UNCHANGED <<snapshot, snapshotQueue, now, stranded>>

\* generate_report_snapshot sends its retry, or gives up
RetrySnapshot(w) ==
  LET s == worker[w].snapshot  n == worker[w].tries IN
  /\ worker[w].step = "failed"
  /\ IF n < SnapshotRetries
     THEN SendSnapshot(s, n + 1) /\ Idle(w)
     ELSE UNCHANGED snapshotQueue /\ worker' = [worker EXCEPT ![w].step = "exhausted"]
  /\ UNCHANGED <<snapshot, now, stranded, faults>>

\* plausible bugs: the failed task overrules whatever another delivery did meanwhile; a
\* task that gives up leaves the row to a recovery there is none of
FailRegardless(w) ==
  /\ worker[w].step = "exhausted"
  /\ snapshot' = [snapshot EXCEPT ![worker[w].snapshot] = [status |-> "FAILED",
                                                           generatedAt |-> 0]]
  /\ Idle(w)
  /\ UNCHANGED <<snapshotQueue, now, stranded, faults>>
GiveUpSilently(w) ==
  /\ worker[w].step = "exhausted"
  /\ Idle(w)
  /\ UNCHANGED <<snapshot, snapshotQueue, now, stranded, faults>>

\* fail_snapshot waits for the row lock of a capture
FailSnapshot(w) ==
  LET s == worker[w].snapshot IN
  /\ worker[w].step = "exhausted"
  /\ \A v \in Workers : worker[v].step = "captured" => worker[v].snapshot # s
  /\ snapshot' = IF Completed(s) THEN snapshot
                 ELSE [snapshot EXCEPT ![s].status = "FAILED"]
  /\ Idle(w)
  /\ UNCHANGED <<snapshotQueue, now, stranded, faults>>

\* the message of a lost worker returns to the queue: acks_late, reject_on_worker_lost
SnapshotWorkerLost(w) ==
  /\ worker[w].step # "idle"
  /\ SendSnapshot(worker[w].snapshot, worker[w].tries)
  /\ Idle(w)
  /\ Fault
  /\ UNCHANGED <<snapshot, now, stranded>>

\* a task killed by its time limit is acknowledged, and so is one that could neither send
\* its retry nor record its failure: nothing is left to resume the row
SnapshotTaskLost(w) ==
  /\ worker[w].step # "idle"
  /\ stranded' = stranded \cup {worker[w].snapshot}
  /\ Idle(w)
  /\ Fault
  /\ UNCHANGED <<snapshot, snapshotQueue, now>>

\* the clock; no task outlives its time limit
Tick ==
  /\ now < MaxTime
  /\ \A w \in Workers : worker[w].step = "captured" => now < worker[w].at + CaptureLimit
  /\ now' = now + 1
  /\ UNCHANGED <<snapshot, snapshotQueue, worker, stranded, faults>>

SnapshotStep(w) ==
  \/ \E s \in Snapshots, n \in 0..SnapshotRetries : StartSnapshot(w, s, n)
  \/ Capture(w) \/ CompleteSnapshot(w) \/ RetrySnapshot(w) \/ FailSnapshot(w)

SnapshotNext ==
  \/ \E s \in Snapshots : RequestSnapshot(s)
  \/ \E w \in Workers : SnapshotStep(w) \/ SnapshotTaskFails(w) \/ SnapshotWorkerLost(w)
                         \/ SnapshotTaskLost(w)
  \/ Tick

-----------------------------------------------------------------------------
\* What a report once showed it shows for ever: whatever late, repeated or failing
\* deliveries still do, a completed snapshot stays completed with its time, and is the
\* capture of one transaction (services.py:146-149, 233).
CompletedSnapshotStays ==
  [][\A s \in Snapshots : Completed(s) => snapshot'[s] = snapshot[s]]_snapshot

\* A started capture ends, whatever fails, repeats or crashes.  Nothing recovers RUNNING
\* snapshots, so the message and fail_snapshot must see to it: only a task that is lost
\* with its message strands its snapshot (tasks.py:16-39).
StartedSnapshotEnds ==
  \A s \in Snapshots : snapshot[s].status = "RUNNING" ~> Ended(s) \/ s \in stranded

\* the pool of workers goes on while it has something to do
SnapshotFairness == WF_snapshotVars(\E w \in Workers : SnapshotStep(w))
=============================================================================
