------------------------- MODULE AssuranceExecution -------------------------
(***************************************************************************)
(* One organization's assurance runs, advanced by Celery workers.          *)
(*                                                                         *)
(* A delivery of execute_assurance_run advances a run by one phase or one  *)
(* work unit (CAPTURE, EVALUATE unit by unit, PUBLISH) in transactions of  *)
(* its own: begin, attempt, and after an exception a third that charges    *)
(* the failure to the run.  The row is locked within each and free between *)
(* them.  A task whose run goes on sends the next message itself; a beat   *)
(* task dispatches again whatever is RUNNING and due, so several messages  *)
(* for one run are normal.                                                 *)
(*                                                                         *)
(* A subject is an asset or an unregistered observation; a work unit holds *)
(* one.  What the rules find in it is one candidate or none.  The live     *)
(* records change at any time and are no variable: whoever reads them may  *)
(* find any condition of any subject.                                      *)
(***************************************************************************)
EXTENDS Naturals, FiniteSets

CONSTANTS
  Runs, Workers,
  Subjects,      \* a set of numbers: the order of capture
  MaxRetries,    \* ASSURANCE_MAX_TRANSIENT_RETRIES
  MaxMessages,   \* bound on the messages queued for one run when another is added
  MaxFaults      \* bound on errors, crashes and lost messages

ASSUME SubjectsAreOrdered == Subjects \subseteq Nat
ASSUME BoundsAreNumbers == MaxRetries \in Nat /\ MaxMessages \in Nat /\ MaxFaults \in Nat

VARIABLES
  run,         \* [Runs -> RunRow]
  sealed,      \* [Runs -> [Subjects -> Condition]], AssuranceRunInput
  evaluated,   \* [Runs -> SUBSET Subjects], the completed work units
  staged,      \* [Runs -> SUBSET Subjects], AssuranceRunCandidate
  published,   \* [Runs -> SUBSET Subjects], occurrences of findings
  queue,       \* [Runs -> Nat], messages the broker holds
  worker,      \* [Workers -> WorkerState]
  faults       \* errors, crashes and lost messages so far

data == <<sealed, evaluated, staged, published>>
vars == <<run, data, queue, worker, faults>>

Condition == {"absent", "clean", "faulty"}
Terminal == {"COMPLETED", "FAILED", "CANCELLED"}

\* next: whether next_attempt_at is NULL, ahead or past
RunRow == [status : {"PENDING", "RUNNING"} \cup Terminal,
           phase : {"CAPTURE", "EVALUATE", "PUBLISH", "DONE"},
           revision : Nat,
           retries : 0..MaxRetries,
           next : {"none", "later", "due"}]

\* seen: the revision the worker read last; continue: its copy of the run is RUNNING
WorkerState == [step : {"idle", "begin", "attempt", "failed", "continue", "acknowledge"},
                run : Runs, seen : Nat, transient : BOOLEAN]

Init ==
  /\ run = [r \in Runs |-> [status |-> "PENDING", phase |-> "CAPTURE", revision |-> 0,
                            retries |-> 0, next |-> "none"]]
  /\ sealed = [r \in Runs |-> [s \in Subjects |-> "absent"]]
  /\ evaluated = [r \in Runs |-> {}]
  /\ staged = [r \in Runs |-> {}]
  /\ published = [r \in Runs |-> {}]
  /\ queue = [r \in Runs |-> 0]
  /\ worker \in [Workers -> [step : {"idle"}, run : Runs, seen : {0}, transient : {FALSE}]]
  /\ faults = 0

Population(r) == {s \in Subjects : sealed[r][s] # "absent"}
Fault == faults < MaxFaults /\ faults' = faults + 1

\* what the worker read for the attempt is forgotten
Goto(w, step) == worker' = [worker EXCEPT ![w] = [step |-> step, run |-> @.run, seen |-> 0,
                                                  transient |-> FALSE]]
Send(r) == queue' = [queue EXCEPT ![r] = @ + 1]

-----------------------------------------------------------------------------
(* People dispatch and cancel, beat recovers *)

\* dispatch_run, by the API or the daily schedule; the message is sent after the commit
\* and may be lost there
DispatchRun(r) ==
  /\ run[r].status \in {"PENDING", "RUNNING"}
  /\ queue[r] < MaxMessages
  /\ run' = [run EXCEPT ![r].status = "RUNNING"]
  /\ \/ Send(r) /\ UNCHANGED faults
     \/ Fault /\ UNCHANGED queue
  /\ UNCHANGED <<data, worker>>

CancelRun(r) ==
  /\ run[r].status = "PENDING"
  /\ run' = [run EXCEPT ![r].status = "CANCELLED"]
  /\ UNCHANGED <<data, queue, worker, faults>>

\* a plausible bug: a run that waits for its retry is left to the message it has sent
RecoverNeverAttempted(r) ==
  /\ run[r].status = "RUNNING" /\ run[r].next = "none"
  /\ queue[r] < MaxMessages
  /\ Send(r)
  /\ UNCHANGED <<run, data, worker, faults>>

\* recover_unfinished_runs touches updated_at alone; its message may be lost too
RecoverRun(r) ==
  /\ run[r].status = "RUNNING" /\ run[r].next # "later"
  /\ queue[r] < MaxMessages
  /\ \/ Send(r) /\ UNCHANGED faults
     \/ Fault /\ UNCHANGED queue
  /\ UNCHANGED <<run, data, worker>>

TimePasses(r) ==
  /\ run[r].next = "later"
  /\ run' = [run EXCEPT ![r].next = "due"]
  /\ UNCHANGED <<data, queue, worker, faults>>

-----------------------------------------------------------------------------
(* execute_assurance_run *)

Receive(w, r) ==
  /\ worker[w].step = "idle"
  /\ queue[r] > 0
  /\ queue' = [queue EXCEPT ![r] = @ - 1]
  /\ worker' = [worker EXCEPT ![w] = [step |-> "begin", run |-> r, seen |-> 0, transient |-> FALSE]]
  /\ UNCHANGED <<run, data, faults>>

\* the first transaction.  A terminal run returns or raises; either ends the task.
Begin(w) ==
  LET r == worker[w].run IN
  /\ worker[w].step = "begin"
  /\ run' = [run EXCEPT ![r].status = IF @ = "PENDING" THEN "RUNNING" ELSE @]
  /\ worker' = [worker EXCEPT ![w].seen = run[r].revision,
                  ![w].step = IF run[r].status \in Terminal THEN "idle"
                              ELSE IF run[r].next = "later" THEN "continue" ELSE "attempt"]
  /\ UNCHANGED <<data, queue, faults>>

\* what each phase does to the locked row, once the unit has succeeded
Advanced(r, phase, status) ==
  run' = [run EXCEPT ![r] = [status |-> status, phase |-> phase, revision |-> @.revision + 1,
                             retries |-> 0, next |-> "none"]]

\* the snapshot the REPEATABLE READ transaction copies
Capture(r) ==
  /\ run[r].phase = "CAPTURE"
  /\ \E snapshot \in [Subjects -> Condition] : sealed' = [sealed EXCEPT ![r] = snapshot]
  /\ Advanced(r, IF sealed'[r] = [s \in Subjects |-> "absent"] THEN "PUBLISH" ELSE "EVALUATE",
              "RUNNING")
  /\ UNCHANGED <<evaluated, staged, published>>

\* a plausible bug: the rules read the live records
EvaluateLive(r) ==
  LET left == Population(r) \ evaluated[r]
      s == CHOOSE s \in left : \A t \in left : s <= t
  IN /\ run[r].phase = "EVALUATE"
     /\ evaluated' = [evaluated EXCEPT ![r] = @ \cup {s}]
     /\ \E found \in SUBSET {s} : staged' = [staged EXCEPT ![r] = @ \cup found]
     /\ Advanced(r, IF left = {s} THEN "PUBLISH" ELSE "EVALUATE", "RUNNING")
     /\ UNCHANGED <<sealed, published>>

EvaluateUnit(r) ==
  LET left == Population(r) \ evaluated[r]
      s == CHOOSE s \in left : \A t \in left : s <= t
  IN /\ run[r].phase = "EVALUATE"
     /\ evaluated' = [evaluated EXCEPT ![r] = @ \cup {s}]
     /\ staged' = [staged EXCEPT ![r] = IF sealed[r][s] = "faulty" THEN @ \cup {s} ELSE @]
     /\ Advanced(r, IF left = {s} THEN "PUBLISH" ELSE "EVALUATE", "RUNNING")
     /\ UNCHANGED <<sealed, published>>

\* the manifest must be complete, or the attempt raises
Publish(r) ==
  /\ run[r].phase = "PUBLISH"
  /\ evaluated[r] = Population(r)
  /\ published' = [published EXCEPT ![r] = staged[r]]
  /\ Advanced(r, "DONE", "COMPLETED")
  /\ UNCHANGED <<sealed, evaluated, staged>>

\* the second transaction reads the row again, under its lock
Attempt(w) ==
  LET r == worker[w].run IN
  /\ worker[w].step = "attempt"
  /\ IF run[r].status = "RUNNING" /\ run[r].next # "later"
       THEN /\ Capture(r) \/ EvaluateUnit(r) \/ Publish(r)
            /\ Goto(w, IF run'[r].status = "RUNNING" THEN "continue" ELSE "idle")
       ELSE /\ Goto(w, IF run[r].status = "RUNNING" THEN "continue" ELSE "idle")
            /\ UNCHANGED <<run, data>>
  /\ UNCHANGED <<queue, faults>>

\* The second transaction rolls back: before it has the lock (the revision is that of the
\* first) or after (that of the row).  Losing a REPEATABLE READ conflict is one such error.
AttemptFails(w) ==
  LET r == worker[w].run IN
  /\ worker[w].step = "attempt"
  /\ Fault
  /\ \E transient \in BOOLEAN :
       \/ worker' = [worker EXCEPT ![w].step = "failed", ![w].transient = transient]
       \/ /\ run[r].status = "RUNNING" /\ run[r].next # "later"
          /\ worker' = [worker EXCEPT ![w].step = "failed", ![w].transient = transient,
                                      ![w].seen = run[r].revision]
  /\ UNCHANGED <<run, data, queue>>

\* a plausible bug: a late failure is charged to a run that has moved on
Overtaken(w) == run[worker[w].run].status # "RUNNING"

\* another worker has advanced or ended the run since
LostRace(w) ==
  run[worker[w].run].status # "RUNNING" \/ run[worker[w].run].revision # worker[w].seen

\* a plausible bug: one retry too many
MayRetryOnceMore(w) == worker[w].transient /\ run[worker[w].run].retries <= MaxRetries

MayRetry(w) == worker[w].transient /\ run[worker[w].run].retries < MaxRetries

\* the third transaction
ChargeFailure(w) ==
  LET r == worker[w].run IN
  /\ worker[w].step = "failed"
  /\ \/ /\ LostRace(w)
        /\ Goto(w, IF run[r].status = "RUNNING" THEN "continue" ELSE "idle")
        /\ UNCHANGED run
     \/ /\ ~LostRace(w) /\ MayRetry(w)
        /\ run' = [run EXCEPT ![r].retries = @ + 1, ![r].next = "later"]
        /\ Goto(w, "continue")
     \/ /\ ~LostRace(w) /\ ~MayRetry(w)
        /\ run' = [run EXCEPT ![r].status = "FAILED", ![r].next = "none"]
        /\ Goto(w, "idle")
  /\ UNCHANGED <<data, queue, faults>>

\* the first or the third transaction raises: the task fails, and Celery acknowledges it
TaskFails(w) ==
  /\ worker[w].step \in {"begin", "failed"}
  /\ Fault
  /\ Goto(w, "idle")
  /\ UNCHANGED <<run, data, queue>>

\* the next message of a run that goes on, or the exception robust=True swallows
SendContinuation(w) ==
  /\ worker[w].step = "continue"
  /\ \/ Send(worker[w].run) /\ Goto(w, "acknowledge") /\ UNCHANGED faults
     \/ Fault /\ Goto(w, "idle") /\ UNCHANGED queue
  /\ UNCHANGED <<run, data>>

Acknowledge(w) ==
  /\ worker[w].step = "acknowledge"
  /\ Goto(w, "idle")
  /\ UNCHANGED <<run, data, queue, faults>>

\* acks_late and reject_on_worker_lost
WorkerCrash(w) ==
  /\ worker[w].step # "idle"
  /\ Fault
  /\ Send(worker[w].run)
  /\ Goto(w, "idle")
  /\ UNCHANGED <<run, data>>

-----------------------------------------------------------------------------
WorkerNext(w) ==
  \/ \E r \in Runs : Receive(w, r)
  \/ Begin(w) \/ Attempt(w) \/ ChargeFailure(w) \/ SendContinuation(w) \/ Acknowledge(w)

Next ==
  \/ \E r \in Runs : DispatchRun(r) \/ CancelRun(r) \/ RecoverRun(r) \/ TimePasses(r)
  \/ \E w \in Workers : WorkerNext(w) \/ AttemptFails(w) \/ TaskFails(w) \/ WorkerCrash(w)

\* live workers go on, beat dispatches what it finds, and clocks advance
Fairness ==
  /\ \A w \in Workers : WF_vars(WorkerNext(w))
  /\ \A r \in Runs : WF_vars(RecoverRun(r)) /\ WF_vars(TimePasses(r))

Spec == Init /\ [][Next]_vars /\ Fairness

-----------------------------------------------------------------------------
(* Properties *)

RunTypeOK ==
  /\ run \in [Runs -> RunRow]
  /\ sealed \in [Runs -> [Subjects -> Condition]]
  /\ evaluated \in [Runs -> SUBSET Subjects]
  /\ staged \in [Runs -> SUBSET Subjects]
  /\ published \in [Runs -> SUBSET Subjects]
  /\ queue \in [Runs -> Nat]
  /\ worker \in [Workers -> WorkerState]
  /\ faults \in 0..MaxFaults

\* A run publishes everything its sealed inputs hold or nothing: a completed run has
\* published exactly what was faulty in the captured population, whatever has changed
\* since, and any other run, failed ones included, has published nothing (business-rules
\* .md:139 "Failed runs publish no findings or occurrences").
PublishedWhole ==
  \A r \in Runs :
    published[r] = IF run[r].status = "COMPLETED" THEN {s \in Subjects : sealed[r][s] = "faulty"}
                   ELSE {}

\* A failure is charged to a run only at the unit where the attempt failed: a worker that
\* comes late, after another has done that unit, neither uses up a retry of the next unit
\* nor fails the run (execution.py:181).  Progress is the number of units behind the run.
Progress(r) ==
  Cardinality(evaluated[r]) + (IF run[r].phase = "CAPTURE" THEN 0 ELSE 1)
    + (IF run[r].phase = "DONE" THEN 1 ELSE 0)

LateFailureIsIgnored ==
  [][\A r \in Runs :
       (run'[r].retries > run[r].retries \/ (run'[r].status = "FAILED" /\ run[r].status # "FAILED"))
         => \E w \in Workers : /\ worker[w].step = "failed" /\ worker'[w].step # "failed"
                               /\ worker[w].run = r
                               /\ worker[w].seen = Progress(r)]_vars

\* A run that has started comes to an end, through lost messages, crashes, duplicate
\* deliveries and workers that overtake each other (assurance/README.md:84).
StartedRunEnds ==
  \A r \in Runs : run[r].status = "RUNNING" ~> run[r].status \in Terminal
=============================================================================
