---------------------- MODULE AssuranceExecutionProofs ----------------------
(***************************************************************************)
(* Types, publication and the fence of AssuranceExecution, for any number  *)
(* of runs, workers, subjects, retries, messages and faults.               *)
(***************************************************************************)
EXTENDS AssuranceExecution, FiniteSetTheorems, OrderLemmas, TLAPS

\* What the data of a run say at each phase: nothing before the capture, a unit left while
\* units are evaluated, candidates of exactly the evaluated units, and one revision for
\* each unit of work behind the run.
Consistent(r) ==
  /\ run[r].phase = "CAPTURE" => evaluated[r] = {}
  /\ run[r].phase = "EVALUATE" => Population(r) \ evaluated[r] # {}
  /\ staged[r] = {s \in evaluated[r] : sealed[r][s] = "faulty"}
  /\ IsFiniteSet(evaluated[r])
  /\ run[r].revision = Progress(r)

AllConsistent == \A r \in Runs : Consistent(r)

IInv == RunTypeOK /\ AllConsistent /\ PublishedWhole

-----------------------------------------------------------------------------
(* The subject of a work unit *)

\* _evaluate_unit finds a unit while one is left.
LEMMA NextUnit ==
  ASSUME NEW r \in Runs, Population(r) \ evaluated[r] # {}
  PROVE  LET left == Population(r) \ evaluated[r] IN
         (CHOOSE s \in left : \A t \in left : s <= t) \in left
<1> DEFINE left == Population(r) \ evaluated[r]
<1>1. left \in SUBSET Nat
  BY SubjectsAreOrdered DEF Population
<1>2. \E s \in left : \A t \in left : s <= t
  BY <1>1, LeastExists
<1> HIDE DEF left
<1>3. (CHOOSE s \in left : \A t \in left : s <= t) \in left
  BY <1>2, Zenon
<1> QED  BY <1>3 DEF left

-----------------------------------------------------------------------------
(* Steps that leave the data alone *)

\* what such a step may do to the rows of the runs
KeepsProgress ==
  /\ UNCHANGED data
  /\ \A r \in Runs : /\ run'[r].phase = run[r].phase
                     /\ run'[r].revision = run[r].revision
                     /\ run'[r].status = "COMPLETED" <=> run[r].status = "COMPLETED"

LEMMA KeepsConsistent ==
  ASSUME IInv, KeepsProgress
  PROVE  AllConsistent' /\ PublishedWhole'
<1>1. ASSUME NEW r \in Runs
      PROVE  Consistent(r)'
  <2>1. Population(r)' = Population(r)
    BY DEF Population, KeepsProgress, data
  <2>2. Progress(r)' = Progress(r)
    BY DEF Progress, KeepsProgress, data
  <2> QED  BY <2>1, <2>2 DEF IInv, AllConsistent, Consistent, KeepsProgress, data
<1>2. PublishedWhole'
  BY DEF IInv, PublishedWhole, KeepsProgress, data
<1> QED  BY <1>1, <1>2 DEF AllConsistent

LEMMA DataTypes ==
  ASSUME RunTypeOK, UNCHANGED data
  PROVE  /\ sealed' \in [Runs -> [Subjects -> Condition]]
         /\ evaluated' \in [Runs -> SUBSET Subjects]
         /\ staged' \in [Runs -> SUBSET Subjects]
         /\ published' \in [Runs -> SUBSET Subjects]
BY DEF RunTypeOK, data

LEMMA FaultType ==
  ASSUME RunTypeOK, Fault \/ UNCHANGED faults
  PROVE  faults' \in 0..MaxFaults
BY BoundsAreNumbers DEF RunTypeOK, Fault

LEMMA SendType ==
  ASSUME RunTypeOK, NEW r \in Runs, Send(r) \/ UNCHANGED queue
  PROVE  queue' \in [Runs -> Nat]
BY DEF RunTypeOK, Send

LEMMA GotoType ==
  ASSUME RunTypeOK, NEW w \in Workers,
         NEW step \in {"idle", "begin", "attempt", "failed", "continue", "acknowledge"},
         Goto(w, step)
  PROVE  worker' \in [Workers -> WorkerState]
BY DEF RunTypeOK, Goto, WorkerState

-----------------------------------------------------------------------------
(* One unit of work: the three phases *)

\* what each phase establishes of the data and of the row it advances
UnitDone ==
  /\ run' \in [Runs -> RunRow]
  /\ sealed' \in [Runs -> [Subjects -> Condition]]
  /\ evaluated' \in [Runs -> SUBSET Subjects]
  /\ staged' \in [Runs -> SUBSET Subjects]
  /\ published' \in [Runs -> SUBSET Subjects]
  /\ AllConsistent'
  /\ PublishedWhole'

LEMMA AdvancedType ==
  ASSUME RunTypeOK, NEW r \in Runs,
         NEW phase \in {"EVALUATE", "PUBLISH", "DONE"}, NEW status \in {"RUNNING", "COMPLETED"},
         Advanced(r, phase, status)
  PROVE  /\ run' \in [Runs -> RunRow]
         /\ run'[r].phase = phase /\ run'[r].status = status
         /\ run'[r].revision = run[r].revision + 1
         /\ \A q \in Runs \ {r} : run'[q] = run[q]
BY BoundsAreNumbers DEF RunTypeOK, RunRow, Advanced, Terminal

\* A row whose data and whose run did not change is as consistent as it was.
LEMMA OthersConsistent ==
  ASSUME IInv, NEW q \in Runs, run'[q] = run[q], sealed'[q] = sealed[q],
         evaluated'[q] = evaluated[q], staged'[q] = staged[q]
  PROVE  Consistent(q)'
<1>1. Population(q)' = Population(q)
  BY DEF Population
<1>2. Progress(q)' = Progress(q)
  BY DEF Progress
<1> QED  BY <1>1, <1>2 DEF IInv, AllConsistent, Consistent

LEMMA CaptureDone ==
  ASSUME IInv, NEW r \in Runs, run[r].status = "RUNNING", Capture(r)
  PROVE  UnitDone
<1> USE DEF IInv
<1>1. PICK snapshot \in [Subjects -> Condition] : sealed' = [sealed EXCEPT ![r] = snapshot]
  BY DEF Capture
<1> DEFINE phase == IF sealed'[r] = [s \in Subjects |-> "absent"] THEN "PUBLISH" ELSE "EVALUATE"
<1>2. /\ run[r].phase = "CAPTURE" /\ Advanced(r, phase, "RUNNING")
      /\ UNCHANGED <<evaluated, staged, published>>
  BY DEF Capture
<1>3. /\ sealed' \in [Runs -> [Subjects -> Condition]] /\ sealed'[r] = snapshot
      /\ \A q \in Runs \ {r} : sealed'[q] = sealed[q]
  BY <1>1 DEF RunTypeOK
<1>4. phase \in {"EVALUATE", "PUBLISH", "DONE"}
  OBVIOUS
<1> HIDE DEF phase
<1>5. /\ run' \in [Runs -> RunRow] /\ run'[r].phase = phase /\ run'[r].status = "RUNNING"
      /\ run'[r].revision = run[r].revision + 1
      /\ \A q \in Runs \ {r} : run'[q] = run[q]
  BY <1>2, <1>4, AdvancedType
<1>6. evaluated[r] = {} /\ staged[r] = {} /\ run[r].revision = 0
  <2>1. evaluated[r] = {} /\ staged[r] = {} /\ run[r].revision = Progress(r)
    BY <1>2 DEF AllConsistent, Consistent
  <2> QED  BY <1>2, <2>1, FS_EmptySet DEF Progress
<1>7. Consistent(r)'
  <2>1. run'[r].phase = "EVALUATE" => Population(r)' # {}
    <3> SUFFICES ASSUME phase = "EVALUATE"
                 PROVE  \E s \in Subjects : sealed'[r][s] # "absent"
      BY <1>5 DEF Population
    <3>1. sealed'[r] # [s \in Subjects |-> "absent"]
      BY DEF phase
    <3> QED  BY <1>3, <3>1
  <2>2. Progress(r)' = 1
    BY <1>2, <1>5, <1>6, FS_EmptySet DEF Progress, phase
  <2>3. run'[r].phase # "CAPTURE"
    BY <1>5 DEF phase
  <2> QED  BY <1>2, <1>5, <1>6, <2>1, <2>2, <2>3, FS_EmptySet DEF Consistent
<1>8. AllConsistent'
  BY <1>2, <1>3, <1>5, <1>7, OthersConsistent DEF AllConsistent
<1>9. PublishedWhole'
  BY <1>2, <1>3, <1>5 DEF PublishedWhole
<1> QED  BY <1>2, <1>3, <1>5, <1>8, <1>9 DEF UnitDone, RunTypeOK

LEMMA EvaluateDone ==
  ASSUME IInv, NEW r \in Runs, run[r].status = "RUNNING", EvaluateUnit(r)
  PROVE  UnitDone
<1> USE DEF IInv
<1> DEFINE left == Population(r) \ evaluated[r]
           s == CHOOSE s \in left : \A t \in left : s <= t
           phase == IF left = {s} THEN "PUBLISH" ELSE "EVALUATE"
<1>1. /\ run[r].phase = "EVALUATE"
      /\ evaluated' = [evaluated EXCEPT ![r] = @ \cup {s}]
      /\ staged' = [staged EXCEPT ![r] = IF sealed[r][s] = "faulty" THEN @ \cup {s} ELSE @]
      /\ Advanced(r, phase, "RUNNING")
      /\ UNCHANGED <<sealed, published>>
  BY DEF EvaluateUnit
<1>2. s \in left
  BY <1>1, NextUnit DEF AllConsistent, Consistent
<1>3. phase \in {"EVALUATE", "PUBLISH", "DONE"}
  OBVIOUS
<1> HIDE DEF s, phase
<1>4. /\ run' \in [Runs -> RunRow] /\ run'[r].phase = phase /\ run'[r].status = "RUNNING"
      /\ run'[r].revision = run[r].revision + 1
      /\ \A q \in Runs \ {r} : run'[q] = run[q]
  BY <1>1, <1>3, AdvancedType
<1>5. s \in Subjects /\ s \notin evaluated[r]
  BY <1>2 DEF Population
<1>6. /\ evaluated' \in [Runs -> SUBSET Subjects] /\ evaluated'[r] = evaluated[r] \cup {s}
      /\ staged' \in [Runs -> SUBSET Subjects]
      /\ staged'[r] = IF sealed[r][s] = "faulty" THEN staged[r] \cup {s} ELSE staged[r]
      /\ \A q \in Runs \ {r} : evaluated'[q] = evaluated[q] /\ staged'[q] = staged[q]
  BY <1>1, <1>5 DEF RunTypeOK
<1>7. Consistent(r)'
  <2>1. run'[r].phase = "EVALUATE" => (Population(r) \ evaluated[r])' # {}
    <3>1. Population(r)' = Population(r)
      BY <1>1 DEF Population
    <3>2. (Population(r) \ evaluated[r])' = left \ {s}
      BY <1>6, <3>1
    <3> QED  BY <1>2, <1>4, <3>2 DEF phase
  <2>2. /\ IsFiniteSet(evaluated'[r])
        /\ Cardinality(evaluated'[r]) = Cardinality(evaluated[r]) + 1
        /\ Cardinality(evaluated[r]) \in Nat
    <3>1. IsFiniteSet(evaluated[r])
      BY DEF AllConsistent, Consistent
    <3>2. /\ IsFiniteSet(evaluated[r] \cup {s})
          /\ Cardinality(evaluated[r] \cup {s}) = Cardinality(evaluated[r]) + 1
      BY <1>5, <3>1, FS_AddElement
    <3> QED  BY <1>6, <3>1, <3>2, FS_CardinalityType
  <2>3. run'[r].revision = Progress(r)'
    <3>1. run[r].revision = Cardinality(evaluated[r]) + 1
      BY <1>1, <2>2 DEF AllConsistent, Consistent, Progress
    <3>2. Progress(r)' = Cardinality(evaluated'[r]) + 1
      BY <1>4, <2>2 DEF Progress, phase
    <3> QED  BY <1>4, <2>2, <3>1, <3>2
  <2>4. staged'[r] = {t \in evaluated'[r] : sealed'[r][t] = "faulty"}
    BY <1>1, <1>6 DEF AllConsistent, Consistent
  <2>5. run'[r].phase # "CAPTURE"
    BY <1>4 DEF phase
  <2> QED  BY <2>1, <2>2, <2>3, <2>4, <2>5 DEF Consistent
<1>8. AllConsistent'
  BY <1>1, <1>4, <1>6, <1>7, OthersConsistent DEF AllConsistent
<1>9. PublishedWhole'
  BY <1>1, <1>4 DEF PublishedWhole
<1> QED  BY <1>1, <1>4, <1>6, <1>8, <1>9 DEF UnitDone, RunTypeOK

LEMMA PublishDone ==
  ASSUME IInv, NEW r \in Runs, run[r].status = "RUNNING", Publish(r)
  PROVE  UnitDone
<1> USE DEF IInv
<1>1. /\ run[r].phase = "PUBLISH" /\ evaluated[r] = Population(r)
      /\ published' = [published EXCEPT ![r] = staged[r]]
      /\ Advanced(r, "DONE", "COMPLETED")
      /\ UNCHANGED <<sealed, evaluated, staged>>
  BY DEF Publish
<1>2. /\ run' \in [Runs -> RunRow] /\ run'[r].phase = "DONE" /\ run'[r].status = "COMPLETED"
      /\ run'[r].revision = run[r].revision + 1
      /\ \A q \in Runs \ {r} : run'[q] = run[q]
  BY <1>1, AdvancedType
<1>3. /\ published' \in [Runs -> SUBSET Subjects] /\ published'[r] = staged[r]
      /\ \A q \in Runs \ {r} : published'[q] = published[q]
  BY <1>1 DEF RunTypeOK
<1>4. Consistent(r)'
  <2>1. /\ IsFiniteSet(evaluated[r]) /\ Cardinality(evaluated[r]) \in Nat
        /\ staged[r] = {s \in evaluated[r] : sealed[r][s] = "faulty"}
        /\ run[r].revision = Progress(r)
    BY FS_CardinalityType DEF AllConsistent, Consistent
  <2>2. run'[r].revision = Progress(r)'
    BY <1>1, <1>2, <2>1 DEF Progress
  <2> QED  BY <1>1, <1>2, <2>1, <2>2 DEF Consistent
<1>5. AllConsistent'
  BY <1>1, <1>2, <1>4, OthersConsistent DEF AllConsistent
<1>6. staged[r] = {s \in Subjects : sealed[r][s] = "faulty"}
  BY <1>1 DEF AllConsistent, Consistent, Population
<1>7. PublishedWhole'
  BY <1>1, <1>2, <1>3, <1>6, ZenonT(60) DEF PublishedWhole
<1> QED  BY <1>1, <1>2, <1>3, <1>5, <1>7 DEF UnitDone, RunTypeOK

-----------------------------------------------------------------------------
(* People, recovery and workers, one lemma each *)

LEMMA DispatchStep ==
  ASSUME IInv, NEW r \in Runs, DispatchRun(r)
  PROVE  RunTypeOK' /\ KeepsProgress
<1>1. run' \in [Runs -> RunRow] /\ KeepsProgress
  BY ZenonT(60) DEF IInv, RunTypeOK, RunRow, DispatchRun, KeepsProgress, data
<1>2. /\ UNCHANGED data /\ UNCHANGED worker
      /\ Send(r) \/ UNCHANGED queue
      /\ Fault \/ UNCHANGED faults
  BY DEF DispatchRun
<1> QED  BY <1>1, <1>2, DataTypes, FaultType, SendType DEF IInv, RunTypeOK

LEMMA CancelStep ==
  ASSUME IInv, NEW r \in Runs, CancelRun(r)
  PROVE  RunTypeOK' /\ KeepsProgress
<1>1. run' \in [Runs -> RunRow] /\ KeepsProgress
  BY ZenonT(60) DEF IInv, RunTypeOK, RunRow, Terminal, CancelRun, KeepsProgress, data
<1> QED  BY <1>1, DataTypes DEF IInv, RunTypeOK, CancelRun

LEMMA RecoverStep ==
  ASSUME IInv, NEW r \in Runs, RecoverRun(r)
  PROVE  RunTypeOK' /\ KeepsProgress
<1>1. KeepsProgress
  BY DEF RecoverRun, KeepsProgress
<1>2. /\ UNCHANGED data /\ UNCHANGED <<run, worker>>
      /\ Send(r) \/ UNCHANGED queue
      /\ Fault \/ UNCHANGED faults
  BY DEF RecoverRun
<1> QED  BY <1>1, <1>2, DataTypes, FaultType, SendType DEF IInv, RunTypeOK

LEMMA TimeStep ==
  ASSUME IInv, NEW r \in Runs, TimePasses(r)
  PROVE  RunTypeOK' /\ KeepsProgress
<1>1. run' \in [Runs -> RunRow] /\ KeepsProgress
  BY DEF IInv, RunTypeOK, RunRow, TimePasses, KeepsProgress, data
<1> QED  BY <1>1, DataTypes DEF IInv, RunTypeOK, TimePasses

LEMMA ReceiveStep ==
  ASSUME IInv, NEW w \in Workers, NEW r \in Runs, Receive(w, r)
  PROVE  RunTypeOK' /\ KeepsProgress
<1>1. KeepsProgress
  BY DEF Receive, KeepsProgress
<1>2. worker' \in [Workers -> WorkerState] /\ queue' \in [Runs -> Nat]
  BY DEF IInv, RunTypeOK, WorkerState, Receive
<1> QED  BY <1>1, <1>2, DataTypes DEF IInv, RunTypeOK, Receive

LEMMA BeginStep ==
  ASSUME IInv, NEW w \in Workers, Begin(w)
  PROVE  RunTypeOK' /\ KeepsProgress
<1>1. worker[w].run \in Runs
  BY DEF IInv, RunTypeOK, WorkerState
<1>2. run' \in [Runs -> RunRow] /\ KeepsProgress
  BY <1>1 DEF IInv, RunTypeOK, RunRow, Begin, KeepsProgress, data
<1>3. worker' \in [Workers -> WorkerState]
  <2>1. worker[w] \in WorkerState /\ run[worker[w].run].revision \in Nat
    BY <1>1 DEF IInv, RunTypeOK, RunRow
  <2>2. PICK step \in {"idle", "continue", "attempt"} :
          worker' = [worker EXCEPT ![w].seen = run[worker[w].run].revision, ![w].step = step]
    BY DEF Begin
  <2>3. worker'[w] \in WorkerState
    BY <2>1, <2>2 DEF IInv, RunTypeOK, WorkerState
  <2> QED  BY <2>2, <2>3 DEF IInv, RunTypeOK
<1> QED  BY <1>2, <1>3, DataTypes DEF IInv, RunTypeOK, Begin

LEMMA AttemptStep ==
  ASSUME IInv, NEW w \in Workers, Attempt(w)
  PROVE  IInv'
<1> DEFINE r == worker[w].run
<1>1. r \in Runs
  BY DEF IInv, RunTypeOK, WorkerState
<1>2. worker' \in [Workers -> WorkerState]
  <2>1. Goto(w, "continue") \/ Goto(w, "idle")
    BY DEF Attempt
  <2> QED  BY <2>1, GotoType DEF IInv
<1>3. UNCHANGED <<queue, faults>>
  BY DEF Attempt
<1>4. CASE run[r].status = "RUNNING" /\ run[r].next # "later"
  <2>1. Capture(r) \/ EvaluateUnit(r) \/ Publish(r)
    BY <1>4 DEF Attempt
  <2>2. UnitDone
    BY <1>1, <1>4, <2>1, CaptureDone, EvaluateDone, PublishDone
  <2> QED  BY <1>2, <1>3, <2>2 DEF UnitDone, IInv, RunTypeOK
<1>5. CASE ~ (run[r].status = "RUNNING" /\ run[r].next # "later")
  <2>1. UNCHANGED <<run, data>>
    BY <1>5 DEF Attempt
  <2>2. KeepsProgress
    BY <2>1 DEF KeepsProgress
  <2> QED  BY <1>2, <1>3, <2>1, <2>2, DataTypes, KeepsConsistent DEF IInv, RunTypeOK
<1> QED  BY <1>4, <1>5

LEMMA AttemptFailsStep ==
  ASSUME IInv, NEW w \in Workers, AttemptFails(w)
  PROVE  RunTypeOK' /\ KeepsProgress
<1>1. KeepsProgress
  BY DEF AttemptFails, KeepsProgress
<1>2. worker[w].run \in Runs
  BY DEF IInv, RunTypeOK, WorkerState
<1>3. worker' \in [Workers -> WorkerState]
  <2>1. PICK transient \in BOOLEAN :
          \/ worker' = [worker EXCEPT ![w].step = "failed", ![w].transient = transient]
          \/ worker' = [worker EXCEPT ![w].step = "failed", ![w].transient = transient,
                                      ![w].seen = run[worker[w].run].revision]
    BY DEF AttemptFails
  <2>2. worker[w] \in WorkerState /\ run[worker[w].run].revision \in Nat
    BY <1>2 DEF IInv, RunTypeOK, RunRow
  <2>3. worker'[w] \in WorkerState
    <3>1. PICK seen \in Nat :
            worker'[w] = [step |-> "failed", run |-> worker[w].run, seen |-> seen,
                          transient |-> transient]
      BY <2>1, <2>2 DEF IInv, RunTypeOK, WorkerState
    <3> QED  BY <1>2, <3>1 DEF WorkerState
  <2> QED  BY <2>1, <2>3 DEF IInv, RunTypeOK
<1>4. faults' \in 0..MaxFaults
  BY FaultType DEF IInv, AttemptFails
<1> QED  BY <1>1, <1>3, <1>4, DataTypes DEF IInv, RunTypeOK, AttemptFails

LEMMA ChargeStep ==
  ASSUME IInv, NEW w \in Workers, ChargeFailure(w)
  PROVE  RunTypeOK' /\ KeepsProgress
<1> DEFINE r == worker[w].run
<1>1. r \in Runs
  BY DEF IInv, RunTypeOK, WorkerState
<1>2. worker' \in [Workers -> WorkerState]
  <2>1. Goto(w, "continue") \/ Goto(w, "idle")
    BY DEF ChargeFailure
  <2> QED  BY <2>1, GotoType DEF IInv
<1>3. run' \in [Runs -> RunRow] /\ KeepsProgress
  <2>1. CASE UNCHANGED run
    BY <2>1 DEF IInv, RunTypeOK, KeepsProgress, ChargeFailure
  <2>2. CASE /\ ~LostRace(w) /\ MayRetry(w)
             /\ run' = [run EXCEPT ![r].retries = @ + 1, ![r].next = "later"]
    <3>1. run[r].retries + 1 \in 0..MaxRetries
      BY <1>1, <2>2, BoundsAreNumbers DEF IInv, RunTypeOK, RunRow, MayRetry
    <3>2. run' \in [Runs -> RunRow]
      BY <1>1, <2>2, <3>1 DEF IInv, RunTypeOK, RunRow
    <3>3. KeepsProgress
      BY <1>1, <2>2, SMTT(30) DEF IInv, RunTypeOK, KeepsProgress, ChargeFailure
    <3> QED  BY <3>2, <3>3
  <2>3. CASE /\ ~LostRace(w)
             /\ run' = [run EXCEPT ![r].status = "FAILED", ![r].next = "none"]
    BY <1>1, <2>3, SMTT(30) DEF IInv, RunTypeOK, RunRow, Terminal, LostRace, KeepsProgress,
                                ChargeFailure
  <2> QED  BY <2>1, <2>2, <2>3 DEF ChargeFailure
<1> QED  BY <1>2, <1>3, DataTypes DEF IInv, RunTypeOK, ChargeFailure

LEMMA MessageStep ==
  ASSUME IInv, NEW w \in Workers,
         TaskFails(w) \/ SendContinuation(w) \/ Acknowledge(w) \/ WorkerCrash(w)
  PROVE  RunTypeOK' /\ KeepsProgress
<1>1. UNCHANGED <<run, data>>
  BY DEF TaskFails, SendContinuation, Acknowledge, WorkerCrash
<1>2. worker[w].run \in Runs
  BY DEF IInv, RunTypeOK, WorkerState
<1>3. /\ Goto(w, "idle") \/ Goto(w, "acknowledge")
      /\ Send(worker[w].run) \/ UNCHANGED queue
      /\ Fault \/ UNCHANGED faults
  BY DEF TaskFails, SendContinuation, Acknowledge, WorkerCrash
<1>4. worker' \in [Workers -> WorkerState]
  BY <1>3, GotoType DEF IInv
<1>5. queue' \in [Runs -> Nat] /\ faults' \in 0..MaxFaults
  BY <1>2, <1>3, SendType, FaultType DEF IInv
<1> QED  BY <1>1, <1>4, <1>5, DataTypes DEF IInv, RunTypeOK, KeepsProgress

-----------------------------------------------------------------------------
(* The invariant *)

LEMMA InitInvariant == Init => IInv
<1> SUFFICES ASSUME Init PROVE IInv
  OBVIOUS
<1>1. RunTypeOK
  <2>1. run \in [Runs -> RunRow] /\ faults \in 0..MaxFaults
    BY BoundsAreNumbers DEF Init, RunRow
  <2>2. worker \in [Workers -> WorkerState]
    <3>1. ASSUME NEW st \in [step : {"idle"}, run : Runs, seen : {0}, transient : {FALSE}]
          PROVE  st \in WorkerState
      <4>1. PICK r \in Runs :
              st = [step |-> "idle", run |-> r, seen |-> 0, transient |-> FALSE]
        BY <3>1
      <4> QED  BY <4>1 DEF WorkerState
    <3> QED  BY <3>1 DEF Init
  <2>3. sealed \in [Runs -> [Subjects -> Condition]]
    BY DEF Init, Condition
  <2> QED  BY <2>1, <2>2, <2>3 DEF Init, RunTypeOK
<1>2. ASSUME NEW r \in Runs
      PROVE  Consistent(r)
  BY FS_EmptySet DEF Init, Consistent, Progress
<1>3. PublishedWhole
  BY DEF Init, PublishedWhole
<1> QED  BY <1>1, <1>2, <1>3 DEF IInv, AllConsistent

LEMMA NextInvariant == IInv /\ [Next]_vars => IInv'
<1> SUFFICES ASSUME IInv, [Next]_vars PROVE IInv'
  OBVIOUS
<1>1. ASSUME RunTypeOK', KeepsProgress
      PROVE  IInv'
  BY <1>1, KeepsConsistent DEF IInv
<1>2. CASE \E r \in Runs : DispatchRun(r) \/ CancelRun(r) \/ RecoverRun(r) \/ TimePasses(r)
  BY <1>1, <1>2, DispatchStep, CancelStep, RecoverStep, TimeStep
<1>3. CASE \E w \in Workers : WorkerNext(w) \/ AttemptFails(w) \/ TaskFails(w) \/ WorkerCrash(w)
  <2> PICK w \in Workers : WorkerNext(w) \/ AttemptFails(w) \/ TaskFails(w) \/ WorkerCrash(w)
    BY <1>3
  <2>1. CASE \E r \in Runs : Receive(w, r)
    BY <1>1, <2>1, ReceiveStep
  <2>2. CASE Begin(w)
    BY <1>1, <2>2, BeginStep
  <2>3. CASE Attempt(w)
    BY <2>3, AttemptStep
  <2>4. CASE AttemptFails(w)
    BY <1>1, <2>4, AttemptFailsStep
  <2>5. CASE ChargeFailure(w)
    BY <1>1, <2>5, ChargeStep
  <2>6. CASE TaskFails(w) \/ SendContinuation(w) \/ Acknowledge(w) \/ WorkerCrash(w)
    BY <1>1, <2>6, MessageStep
  <2> QED  BY <2>1, <2>2, <2>3, <2>4, <2>5, <2>6 DEF WorkerNext
<1>4. CASE UNCHANGED vars
  <2>1. KeepsProgress
    BY <1>4 DEF vars, KeepsProgress
  <2>2. RunTypeOK'
    BY <1>4, DataTypes DEF vars, IInv, RunTypeOK
  <2> QED  BY <1>1, <2>1, <2>2
<1> QED  BY <1>2, <1>3, <1>4 DEF Next

\* Every table, worker and counter keeps its shape; in particular the retries of a unit
\* never pass ASSURANCE_MAX_TRANSIENT_RETRIES.
THEOREM RunTypeCorrect == Spec => []RunTypeOK
<1>1. IInv => RunTypeOK
  BY DEF IInv
<1> QED  BY <1>1, InitInvariant, NextInvariant, PTL DEF Spec

\* A completed run has published exactly what the sealed population holds, and any other
\* run nothing.
THEOREM PublicationCorrect == Spec => []PublishedWhole
<1>1. IInv => PublishedWhole
  BY DEF IInv
<1> QED  BY <1>1, InitInvariant, NextInvariant, PTL DEF Spec

-----------------------------------------------------------------------------
(* The fence against late failures *)

\* one step of the property
Fenced ==
  \A r \in Runs :
    (run'[r].retries > run[r].retries \/ (run'[r].status = "FAILED" /\ run[r].status # "FAILED"))
      => \E w \in Workers : /\ worker[w].step = "failed" /\ worker'[w].step # "failed"
                            /\ worker[w].run = r
                            /\ worker[w].seen = Progress(r)

\* what every step but ChargeFailure does to the rows
NoCharge ==
  \A r \in Runs : /\ ~ (run'[r].retries > run[r].retries)
                  /\ run'[r].status = "FAILED" => run[r].status = "FAILED"

LEMMA AdvancedNoCharge ==
  ASSUME RunTypeOK, NEW w \in Workers, Attempt(w)
  PROVE  NoCharge
<1> DEFINE r == worker[w].run
<1>1. r \in Runs /\ \A q \in Runs : run[q].retries \in Nat
  BY BoundsAreNumbers DEF RunTypeOK, RunRow, WorkerState
<1>2. CASE UNCHANGED run
  BY <1>1, <1>2 DEF NoCharge
<1>3. CASE \E phase, status : status # "FAILED" /\ Advanced(r, phase, status)
  BY <1>1, <1>3 DEF NoCharge, Advanced, RunTypeOK
<1>4. Capture(r) \/ EvaluateUnit(r) \/ Publish(r) \/ UNCHANGED run
  BY DEF Attempt
<1>5. Capture(r) \/ EvaluateUnit(r) \/ Publish(r)
        => \E phase, status : status # "FAILED" /\ Advanced(r, phase, status)
  <2>1. Capture(r) => \E phase : Advanced(r, phase, "RUNNING")
    BY DEF Capture
  <2>2. EvaluateUnit(r) => \E phase : Advanced(r, phase, "RUNNING")
    BY DEF EvaluateUnit
  <2>3. Publish(r) => Advanced(r, "DONE", "COMPLETED")
    BY DEF Publish
  <2> QED  BY <2>1, <2>2, <2>3
<1> QED  BY <1>2, <1>3, <1>4, <1>5

LEMMA ChargeFenced ==
  ASSUME IInv, NEW w \in Workers, ChargeFailure(w)
  PROVE  Fenced
<1> DEFINE q == worker[w].run
<1>1. q \in Runs /\ run \in [Runs -> RunRow] /\ worker \in [Workers -> WorkerState]
  BY DEF IInv, RunTypeOK, WorkerState
<1>2. worker[w].step = "failed" /\ worker'[w].step # "failed"
  <2>1. worker[w].step = "failed" /\ (Goto(w, "continue") \/ Goto(w, "idle"))
    BY DEF ChargeFailure
  <2> QED  BY <1>1, <2>1 DEF Goto
<1>3. CASE LostRace(w)
  <2>1. UNCHANGED run /\ \A r \in Runs : run[r].retries \in Nat
    BY <1>1, <1>3, BoundsAreNumbers DEF ChargeFailure, RunRow
  <2> QED  BY <2>1 DEF Fenced
<1>4. CASE ~LostRace(w)
  <2>1. worker[w].seen = Progress(q)
    BY <1>1, <1>4 DEF LostRace, IInv, AllConsistent, Consistent
  <2>2. \A r \in Runs \ {q} : run'[r] = run[r] /\ run[r].retries \in Nat
    BY <1>1, <1>4, BoundsAreNumbers DEF ChargeFailure, RunRow
  <2> QED  BY <1>2, <2>1, <2>2 DEF Fenced
<1> QED  BY <1>3, <1>4

LEMMA StepFenced == IInv /\ [Next]_vars => Fenced
<1> SUFFICES ASSUME IInv, [Next]_vars PROVE Fenced
  OBVIOUS
<1>1. run \in [Runs -> RunRow] /\ \A r \in Runs : run[r].retries \in Nat
  BY BoundsAreNumbers DEF IInv, RunTypeOK, RunRow
<1>2. NoCharge => Fenced
  BY DEF NoCharge, Fenced
<1>3. ASSUME NEW r \in Runs, DispatchRun(r) \/ CancelRun(r) \/ RecoverRun(r) \/ TimePasses(r)
      PROVE  NoCharge
  BY <1>1, <1>3 DEF RunRow, NoCharge, DispatchRun, CancelRun, RecoverRun, TimePasses
<1>4. ASSUME NEW w \in Workers, Begin(w)
      PROVE  NoCharge
  <2>1. worker[w].run \in Runs
    BY DEF IInv, RunTypeOK, WorkerState
  <2> QED  BY <1>1, <1>4, <2>1 DEF RunRow, NoCharge, Begin
<1>5. UNCHANGED run => NoCharge
  BY <1>1 DEF NoCharge
<1>6. ASSUME NEW w \in Workers,
             \/ \E r \in Runs : Receive(w, r)
             \/ SendContinuation(w) \/ Acknowledge(w)
             \/ AttemptFails(w) \/ TaskFails(w) \/ WorkerCrash(w)
      PROVE  UNCHANGED run
  BY <1>6 DEF Receive, SendContinuation, Acknowledge, AttemptFails, TaskFails, WorkerCrash
<1>7. UNCHANGED vars => UNCHANGED run
  BY DEF vars
<1>8. RunTypeOK
  BY DEF IInv
<1> QED
  BY <1>2, <1>3, <1>4, <1>5, <1>6, <1>7, <1>8, AdvancedNoCharge, ChargeFenced DEF Next, WorkerNext

\* A retry is used up, and a run fails, only at the unit where the attempt failed.
THEOREM LateFailureCorrect == Spec => LateFailureIsIgnored
<1>1. IInv /\ [Next]_vars => [Fenced]_vars
  BY StepFenced
<1> QED  BY <1>1, InitInvariant, NextInvariant, PTL DEF Spec, LateFailureIsIgnored, Fenced
=============================================================================
