--------------------------- MODULE ReportingProofs ---------------------------
(***************************************************************************)
(* Proofs about ReportingPipeline, for any number of snapshots, exports,   *)
(* extractions, attempts and workers, and any faults: what a report showed *)
(* it shows for ever, rows and stored files agree, no snapshot is missed   *)
(* by extraction, and neither extracted nor curated data ever goes back.   *)
(*                                                                         *)
(* The readers meet in few variables, so each part has an invariant of its *)
(* own: of the snapshots, of the exports, of the extraction (over the      *)
(* snapshots) and of curating (over the publications).                     *)
(***************************************************************************)
EXTENDS ReportingPipeline, OrderLemmas

-----------------------------------------------------------------------------
(* The inductive invariants *)

Captures(w) == worker[w].step = "captured"

\* an open transaction holds its row, which is not over, and is within the time limit
CaptureSound(w) ==
  Captures(w) =>
    /\ ~Ended(worker[w].snapshot)
    /\ \A v \in Workers : Captures(v) /\ worker[v].snapshot = worker[w].snapshot => v = w
    /\ worker[w].at <= now /\ now <= worker[w].at + CaptureLimit

SnapshotInv ==
  /\ SnapshotTypeOK
  /\ \A w \in Workers : CaptureSound(w)

\* an attempt that has not yet given up its row
EarlySteps == {"rendering", "saved", "error", "deleted"}
Used(t) == attempt[t].step # "unused"
RowOf(t) == export[attempt[t].export]

\* what a row names is an attempt at this row, and the published one is over
RowSound(e) ==
  LET row == export[e] IN
  /\ row.token # NoToken => Used(row.token) /\ attempt[row.token].export = e
  /\ row.status = "RUNNING" => row.token # NoToken
  /\ row.storage # NoToken => /\ row.status \in {"COMPLETED", "EXPIRED"}
                              /\ attempt[row.storage].step = "over"
                              /\ attempt[row.storage].export = e
  /\ row.status = "COMPLETED" => row.storage \in files
  /\ \A t \in row.cleanup : attempt[t].export = e

\* nothing will publish the file of the attempt, and no row shows it
Abandoned(t) == Used(t) /\ ~Mine(t) /\ ~Published(t)

\* the row accounts for the file
Accounted(t) == \/ RowOf(t).storage = t \/ t \in RowOf(t).cleanup
                \/ RowOf(t).token = t /\ RowOf(t).status \in {"QUEUED", "RUNNING"}

AttemptSound(t) ==
  /\ t \in files => Used(t)
  /\ t \in RowOf(t).cleanup \cup sweep.keys => Abandoned(t)
  /\ attempt[t].step \in EarlySteps => Mine(t) \/ t \in overtaken
  /\ attempt[t].step = "saved" /\ Mine(t) => t \in files
  /\ t \in files \ overtaken => Accounted(t)

ExportInv ==
  /\ ExportTypeOK
  /\ \A e \in Exports : RowSound(e)
  /\ \A t \in Tokens : AttemptSound(t)

Mark(d) == checkpoint[d].mark
Extracted(d) == UNION {publication[i].content : i \in PublicationsOf(d)}
\* no mark, or that of a snapshot everyone sees
MarkOf(d, c) == c = NoCursor \/ \E s \in Visible(d) : c = CursorOf(s)

\* what lies behind the window of the next run was extracted
DatasetSound(d) ==
  LET mark == checkpoint[d].mark  x == checkpoint[d].token IN
  /\ mark[1] <= now
  /\ MarkOf(d, mark)
  /\ \A s \in Visible(d) : snapshot[s].generatedAt + Overlap < mark[1] => s \in Extracted(d)
  /\ x # NoExtraction =>
       /\ extraction[x].dataset = d /\ extraction[x].step # "unused"
       /\ extraction[x].step \in {"claimed", "high", "staged"} => extraction[x].current = mark

\* what an attempt has read so far
ExtractionSound(x) ==
  LET t == extraction[x]  d == extraction[x].dataset IN
  /\ t.step \in {"claimed", "high", "staged"} => t.there \subseteq Visible(d) /\ MarkOf(d, t.current)
  /\ t.step \in {"high", "staged"} =>
       /\ MarkOf(d, t.high) /\ t.high[1] <= now
       /\ ~Before(t.high, t.current)
       /\ \A s \in t.there : ~Before(t.high, CursorOf(s))
  /\ t.step = "staged" =>
       /\ t.content \subseteq Visible(d)
       /\ t.high # NoCursor => t.high[2] \in t.content
       /\ \A s \in t.content : ~Before(t.high, CursorOf(s))
       /\ \A s \in t.there : s \in t.content \/ snapshot[s].generatedAt + Overlap < t.current[1]
       /\ \A s \in Visible(d) : \/ s \in t.content
                                \/ t.high[1] <= snapshot[s].generatedAt + Overlap
                                \/ snapshot[s].generatedAt + Overlap < t.current[1]

PublicationSound(i) ==
  LET p == publication[i] IN
  /\ p.content \subseteq Visible(p.dataset)
  /\ ~Before(Mark(p.dataset), p.high)

\* what is complete bears a time that is over
TimesPast == \A s \in Snapshots : Completed(s) => snapshot[s].generatedAt <= now

ExtractionInv ==
  /\ ExtractionTypeOK /\ TimesPast
  /\ \A d \in Datasets : DatasetSound(d)
  /\ \A x \in Extractions : ExtractionSound(x)
  /\ \A i \in DOMAIN publication : PublicationSound(i)

\* latest publications by dataset
SourceSets == UNION {[some -> Nat] : some \in SUBSET Datasets}
\* a source set holds no older publication than another
NotBefore(old, new) == \A d \in DOMAIN old : d \in DOMAIN new /\ old[d] <= new[d]
Curates(key) == processing[key].status = "RUNNING"

ProcessingSound(key) ==
  /\ NotBefore(key, Latest)
  /\ Curates(key) => /\ \A other \in DOMAIN processing : Curates(other) => other = key
                     /\ \A i \in DOMAIN curated : NotBefore(curated[i], key)

CuratedInv ==
  /\ DOMAIN processing \subseteq SourceSets
  /\ \A key \in DOMAIN processing : processing[key] \in ProcessingRow
  /\ curating \in [Attempts -> [step : CuratingStep, sources : SourceSets]]
  /\ curated \in Seq(DOMAIN processing)
  /\ \A key \in DOMAIN processing : ProcessingSound(key)
  /\ \A i \in DOMAIN curated : processing[curated[i]].status = "COMPLETED"

-----------------------------------------------------------------------------
(* Report snapshots *)

\* Nothing has started in the initial states.
LEMMA SnapshotStart == Init => SnapshotInv
<1> SUFFICES ASSUME Init PROVE SnapshotInv
  OBVIOUS
<1> USE SnapshotsAreOrdered, SnapshotBounds
<1>1. (CHOOSE s \in Snapshots : TRUE) \in Snapshots
  OBVIOUS
<1>2. /\ now = 1 /\ stranded = {} /\ faults = 0
      /\ snapshotQueue = [m \in Snapshots \X (0..SnapshotRetries) |-> 0]
      /\ worker \in [Workers -> [step : {"idle"}, snapshot : {CHOOSE s \in Snapshots : TRUE},
                                 tries : {0}, at : {0}]]
      /\ snapshot = [s \in Snapshots |->
                       IF s \in workload.captured THEN [status |-> "COMPLETED", generatedAt |-> 1]
                                                  ELSE [status |-> "ABSENT", generatedAt |-> 0]]
  BY DEF Init, SnapshotInit
<1>3. snapshot \in [Snapshots -> SnapshotRow]
  BY <1>2 DEF SnapshotRow
<1>4. \A w \in Workers : worker[w] \in WorkerState /\ worker[w].step = "idle"
  BY <1>1, <1>2 DEF WorkerState
<1>5. worker \in [Workers -> WorkerState]
  BY <1>2, <1>4
<1>6. SnapshotTypeOK
  BY <1>2, <1>3, <1>5 DEF SnapshotTypeOK
<1> QED
  BY <1>4, <1>6 DEF SnapshotInv, CaptureSound, Captures

\* Every step counts at most one fault within the bound.
LEMMA FaultsBounded ==
  ASSUME faults \in 0..MaxFaults, [Next]_vars
  PROVE  faults' \in 0..MaxFaults
<1> USE SnapshotBounds
<1>1. Fault => faults' \in 0..MaxFaults
  BY DEF Fault
<1>2. UNCHANGED faults => faults' \in 0..MaxFaults
  OBVIOUS
<1>3. CASE SnapshotNext
  BY <1>1, <1>2, <1>3
     DEF SnapshotNext, SnapshotStep, RequestSnapshot, StartSnapshot, Capture, CompleteSnapshot,
         SnapshotTaskFails, RetrySnapshot, FailSnapshot, SnapshotWorkerLost, SnapshotTaskLost, Tick
<1>4. CASE ExportNext
  <2>1. \A e \in Exports : RequestExport(e) \/ RetentionEnds(e) \/ Overtake(e) \/ Beat(e)
          => Fault \/ UNCHANGED faults
    BY DEF RequestExport, RetentionEnds, Overtake, Beat, RecoverExport, ExpireExport,
           DeleteExpired, Delete
  <2>2. \A e \in Exports, n \in 0..ExportRetries : ClaimErrs(e, n) \/ Deliver(e, n)
          => Fault \/ UNCHANGED faults
    BY DEF ClaimErrs, Deliver, ReceiveNothingToDo, ClaimExport
  <2>3. \A t \in Tokens : AttemptErrs(t) \/ ExportWorkerLost(t) \/ AttemptStep(t)
          => Fault \/ UNCHANGED faults
    BY DEF AttemptErrs, ExportWorkerLost, AttemptStep, SaveFile, PublishFile, DropRefused,
           DropAfterError, ReleaseRow, RetryOrFail, Delete
  <2>4. Sweeper => Fault \/ UNCHANGED faults
    BY DEF Sweeper, StartSweep, SweepKey, EndSweep, Delete
  <2> QED
    BY <1>1, <1>2, <1>4, <2>1, <2>2, <2>3, <2>4 DEF ExportNext, ExportWorkers
<1>5. CASE ExtractionNext
  BY <1>1, <1>2, <1>5
     DEF ExtractionNext, ClaimExtraction, ReadHigh, StageOutput, PublishExtraction, ExtractionErrs,
         RecordFailure, ExtractionLost
<1>6. CASE CuratedNext
  BY <1>1, <1>2, <1>6
     DEF CuratedNext, SelectSources, ClaimProcessing, StageManifest, Transform, PublishCurated,
         CuratingErrs, MarkFailure
<1> QED
  BY <1>2, <1>3, <1>4, <1>5, <1>6 DEF Next, Capturing, Exporting, Extracting, Curating, vars

\* A worker that stops leaves the captures of the others as they were.
LEMMA StopKeepsCaptures ==
  ASSUME SnapshotInv, NEW w \in Workers, Idle(w), now' = now,
         \A s \in Snapshots : Ended(s)' => Ended(s) \/ (Captures(w) /\ s = worker[w].snapshot)
  PROVE  /\ worker' \in [Workers -> WorkerState]
         /\ \A v \in Workers : CaptureSound(v)'
<1> USE SnapshotBounds
<1>1. worker \in [Workers -> WorkerState]
  BY DEF SnapshotInv, SnapshotTypeOK
<1>2. worker' \in [Workers -> WorkerState]
  BY <1>1 DEF Idle, WorkerState
<1>3. ~Captures(w)' /\ \A v \in Workers : v # w => worker'[v] = worker[v]
  BY <1>1 DEF Idle, Captures
<1>4. ASSUME NEW v \in Workers, Captures(v)'
      PROVE  CaptureSound(v)'
  <2>1. v # w /\ Captures(v) /\ worker'[v] = worker[v]
    BY <1>3, <1>4 DEF Captures
  <2>2. CaptureSound(v) /\ worker[v].snapshot \in Snapshots
    BY <1>1 DEF SnapshotInv, WorkerState
  <2>3. ~Ended(worker[v].snapshot)'
    BY <2>1, <2>2 DEF CaptureSound, Ended
  <2>4. \A u \in Workers : Captures(u)' => Captures(u) /\ worker'[u] = worker[u]
    BY <1>3 DEF Captures
  <2> QED
    BY <2>1, <2>2, <2>3, <2>4 DEF CaptureSound, Ended
<1> QED
  BY <1>2, <1>4 DEF CaptureSound

\* A step of the capturing of snapshots preserves their invariant.
LEMMA SnapshotStepSound ==
  ASSUME SnapshotInv, SnapshotNext, faults' \in 0..MaxFaults
  PROVE  SnapshotInv'
<1> USE SnapshotBounds
<1>0. /\ SnapshotTypeOK /\ \A w \in Workers : CaptureSound(w)
      /\ snapshot \in [Snapshots -> SnapshotRow]
      /\ snapshotQueue \in [Snapshots \X (0..SnapshotRetries) -> Nat]
      /\ worker \in [Workers -> WorkerState]
      /\ now \in 0..MaxTime /\ stranded \subseteq Snapshots
  BY DEF SnapshotInv, SnapshotTypeOK
<1>s. \A s \in Snapshots, n \in 0..SnapshotRetries :
        SendSnapshot(s, n) => snapshotQueue' \in [Snapshots \X (0..SnapshotRetries) -> Nat]
  BY <1>0 DEF SendSnapshot
<1>w. \A w \in Workers : worker[w].snapshot \in Snapshots /\ worker[w].tries \in 0..SnapshotRetries
  BY <1>0 DEF WorkerState
<1>1. ASSUME NEW s \in Snapshots, RequestSnapshot(s)
      PROVE  SnapshotInv'
  <2>1. snapshot' \in [Snapshots -> SnapshotRow]
    BY <1>0, <1>1 DEF RequestSnapshot, SnapshotRow
  <2>2. SnapshotTypeOK'
    BY <1>0, <1>1, <1>s, <2>1 DEF RequestSnapshot, SnapshotTypeOK
  <2>3. \A r \in Snapshots : Ended(r)' => Ended(r)
    BY <1>0, <1>1 DEF RequestSnapshot, Ended
  <2>4. \A w \in Workers : CaptureSound(w)'
    BY <1>0, <1>1, <1>w, <2>3 DEF RequestSnapshot, CaptureSound, Captures
  <2> QED
    BY <2>2, <2>4 DEF SnapshotInv
<1>2. ASSUME NEW w \in Workers, NEW s \in Snapshots, NEW n \in 0..SnapshotRetries,
             StartSnapshot(w, s, n)
      PROVE  SnapshotInv'
  <2>1. snapshotQueue' \in [Snapshots \X (0..SnapshotRetries) -> Nat]
    BY <1>0, <1>2 DEF StartSnapshot
  <2>2. snapshot' \in [Snapshots -> SnapshotRow]
    BY <1>0, <1>2 DEF StartSnapshot, SnapshotRow
  <2>3. worker' \in [Workers -> WorkerState]
    BY <1>0, <1>2 DEF StartSnapshot, WorkerState
  <2>4. SnapshotTypeOK'
    BY <1>0, <1>2, <2>1, <2>2, <2>3 DEF StartSnapshot, SnapshotTypeOK
  <2>5. \A r \in Snapshots : Ended(r)' => Ended(r)
    <3>1. snapshot' = snapshot \/ snapshot' = [snapshot EXCEPT ![s].status = "RUNNING"]
      BY <1>2 DEF StartSnapshot
    <3>2. ASSUME NEW r \in Snapshots, snapshot' = [snapshot EXCEPT ![s].status = "RUNNING"]
          PROVE  Ended(r)' => Ended(r)
      <4>1. CASE r = s
        <5>1. snapshot'[r].status = "RUNNING"
          BY <1>0, <3>2, <4>1 DEF SnapshotRow
        <5> QED
          BY <5>1 DEF Ended
      <4>2. CASE r # s
        <5>1. snapshot'[r] = snapshot[r]
          BY <1>0, <3>2, <4>2
        <5> QED
          BY <5>1 DEF Ended
      <4> QED
        BY <4>1, <4>2
    <3> QED
      BY <3>1, <3>2 DEF Ended
  <2>6. \A v \in Workers : Captures(v)' => Captures(v) /\ worker'[v] = worker[v]
    BY <1>0, <1>2 DEF StartSnapshot, Captures
  <2>7. \A v \in Workers : CaptureSound(v)'
    BY <1>0, <1>2, <1>w, <2>5, <2>6 DEF StartSnapshot, CaptureSound
  <2> QED
    BY <2>4, <2>7 DEF SnapshotInv
<1>3. ASSUME NEW w \in Workers, Capture(w)
      PROVE  SnapshotInv'
  <2>1. CASE Ended(worker[w].snapshot)
    <3>1. Idle(w) /\ now' = now /\ snapshot' = snapshot
      BY <1>3, <2>1 DEF Capture
    <3>e. \A s \in Snapshots : Ended(s)' => Ended(s) \/ (Captures(w) /\ s = worker[w].snapshot)
      BY <3>1 DEF Ended
    <3>2. worker' \in [Workers -> WorkerState] /\ \A v \in Workers : CaptureSound(v)'
      BY <3>1, <3>e, StopKeepsCaptures
    <3> QED
      BY <1>0, <1>3, <3>2 DEF Capture, SnapshotInv, SnapshotTypeOK
  <2>2. CASE ~Ended(worker[w].snapshot)
    <3>1. worker' = [worker EXCEPT ![w].step = "captured", ![w].at = now]
      BY <1>3, <2>2 DEF Capture
    <3>2. worker' \in [Workers -> WorkerState]
      BY <1>0, <3>1 DEF WorkerState
    <3>3. \A v \in Workers : /\ v # w => worker'[v] = worker[v]
                             /\ worker'[v].snapshot = worker[v].snapshot
      BY <1>0, <3>1 DEF WorkerState
    <3>4. worker'[w].at = now
      BY <1>0, <3>1 DEF WorkerState
    <3>5. \A v \in Workers : Captures(v) => worker[v].snapshot # worker[w].snapshot
      BY <1>3 DEF Capture, Captures
    <3>6. \A v \in Workers : CaptureSound(v)'
      <4> SUFFICES ASSUME NEW v \in Workers, Captures(v)' PROVE CaptureSound(v)'
        BY DEF CaptureSound
      <4>1. ~Ended(worker[v].snapshot)'
        BY <1>0, <1>3, <2>2, <3>3 DEF Capture, CaptureSound, Captures, Ended
      <4>2. \A u \in Workers : Captures(u)' /\ (worker[u].snapshot = worker[v].snapshot)' => u = v
        BY <1>0, <3>3, <3>5 DEF CaptureSound, Captures
      <4>3. worker'[v].at <= now /\ now <= worker'[v].at + CaptureLimit
        BY <1>0, <3>3, <3>4 DEF CaptureSound, Captures
      <4> QED
        BY <1>3, <4>1, <4>2, <4>3 DEF Capture, CaptureSound
    <3> QED
      BY <1>0, <1>3, <3>2, <3>6 DEF Capture, SnapshotInv, SnapshotTypeOK
  <2> QED
    BY <2>1, <2>2
<1>4. ASSUME NEW w \in Workers, CompleteSnapshot(w)
      PROVE  SnapshotInv'
  <2>1. snapshot' \in [Snapshots -> SnapshotRow]
    BY <1>0, <1>4 DEF CompleteSnapshot, SnapshotRow, WorkerState
  <2>c. /\ Captures(w)
        /\ \A s \in Snapshots : s # worker[w].snapshot => snapshot'[s] = snapshot[s]
    BY <1>0, <1>4 DEF CompleteSnapshot, Captures
  <2>2. \A s \in Snapshots : Ended(s)' => Ended(s) \/ (Captures(w) /\ s = worker[w].snapshot)
    BY <2>c DEF Ended
  <2>3. worker' \in [Workers -> WorkerState] /\ \A v \in Workers : CaptureSound(v)'
    BY <1>4, <2>2, StopKeepsCaptures DEF CompleteSnapshot
  <2> QED
    BY <1>0, <1>4, <2>1, <2>3 DEF CompleteSnapshot, SnapshotInv, SnapshotTypeOK
<1>5. ASSUME NEW w \in Workers, SnapshotTaskFails(w)
      PROVE  SnapshotInv'
  <2>1. worker' \in [Workers -> WorkerState]
    BY <1>0, <1>5 DEF SnapshotTaskFails, WorkerState
  <2>2. \A v \in Workers : Captures(v)' => Captures(v) /\ worker'[v] = worker[v]
    BY <1>0, <1>5 DEF SnapshotTaskFails, Captures, WorkerState
  <2>3. \A v \in Workers : CaptureSound(v)'
    BY <1>0, <1>5, <2>2 DEF SnapshotTaskFails, CaptureSound, Ended
  <2> QED
    BY <1>0, <1>5, <2>1, <2>3 DEF SnapshotTaskFails, SnapshotInv, SnapshotTypeOK
<1>6. ASSUME NEW w \in Workers, RetrySnapshot(w)
      PROVE  SnapshotInv'
  <2>1. CASE worker[w].tries < SnapshotRetries
    <3>1. Idle(w) /\ now' = now /\ snapshot' = snapshot
      BY <1>6, <2>1 DEF RetrySnapshot
    <3>e. \A s \in Snapshots : Ended(s)' => Ended(s) \/ (Captures(w) /\ s = worker[w].snapshot)
      BY <3>1 DEF Ended
    <3>2. worker' \in [Workers -> WorkerState] /\ \A v \in Workers : CaptureSound(v)'
      BY <3>1, <3>e, StopKeepsCaptures
    <3>3. SendSnapshot(worker[w].snapshot, worker[w].tries + 1)
      BY <1>6, <2>1 DEF RetrySnapshot
    <3>4. worker[w].tries + 1 \in 0..SnapshotRetries
      BY <1>w, <2>1
    <3> QED
      BY <1>0, <1>6, <1>s, <1>w, <3>2, <3>3, <3>4 DEF RetrySnapshot, SnapshotInv, SnapshotTypeOK
  <2>2. CASE ~(worker[w].tries < SnapshotRetries)
    <3>1. worker' = [worker EXCEPT ![w].step = "exhausted"]
      BY <1>6, <2>2 DEF RetrySnapshot
    <3>2. worker' \in [Workers -> WorkerState]
      BY <1>0, <3>1 DEF WorkerState
    <3>3. \A v \in Workers : Captures(v)' => Captures(v) /\ worker'[v] = worker[v]
      BY <1>0, <3>1 DEF Captures
    <3>4. \A v \in Workers : CaptureSound(v)'
      BY <1>0, <1>6, <3>3 DEF RetrySnapshot, CaptureSound, Ended
    <3> QED
      BY <1>0, <1>6, <2>2, <3>2, <3>4 DEF RetrySnapshot, SnapshotInv, SnapshotTypeOK
  <2> QED
    BY <2>1, <2>2
<1>7. ASSUME NEW w \in Workers, FailSnapshot(w)
      PROVE  SnapshotInv'
  <2> DEFINE f == worker[w].snapshot
  <2>1. snapshot' \in [Snapshots -> SnapshotRow]
    BY <1>0, <1>7 DEF FailSnapshot, SnapshotRow
  <2>2. \A s \in Snapshots : Ended(s)' => Ended(s) \/ s = f
    BY <1>0, <1>7 DEF FailSnapshot, Ended
  <2>3. worker' \in [Workers -> WorkerState]
    BY <1>0, <1>7 DEF FailSnapshot, Idle, WorkerState
  <2>4. \A v \in Workers : Captures(v)' => /\ Captures(v) /\ worker'[v] = worker[v]
                                           /\ worker[v].snapshot # f
    BY <1>0, <1>7 DEF FailSnapshot, Idle, Captures
  <2>5. \A v \in Workers : CaptureSound(v)'
    <3> HIDE DEF f
    <3> QED
      BY <1>0, <1>7, <1>w, <2>2, <2>4 DEF FailSnapshot, CaptureSound
  <2> QED
    BY <1>0, <1>7, <2>1, <2>3, <2>5 DEF FailSnapshot, SnapshotInv, SnapshotTypeOK
<1>8. ASSUME NEW w \in Workers, SnapshotWorkerLost(w) \/ SnapshotTaskLost(w)
      PROVE  SnapshotInv'
  <2>1. Idle(w) /\ now' = now /\ snapshot' = snapshot
    BY <1>8 DEF SnapshotWorkerLost, SnapshotTaskLost
  <2>e. \A s \in Snapshots : Ended(s)' => Ended(s) \/ (Captures(w) /\ s = worker[w].snapshot)
    BY <2>1 DEF Ended
  <2>2. worker' \in [Workers -> WorkerState] /\ \A v \in Workers : CaptureSound(v)'
    BY <2>1, <2>e, StopKeepsCaptures
  <2> QED
    BY <1>0, <1>8, <1>s, <1>w, <2>2
       DEF SnapshotWorkerLost, SnapshotTaskLost, SnapshotInv, SnapshotTypeOK
<1>9. ASSUME Tick
      PROVE  SnapshotInv'
  <2>1. SnapshotTypeOK'
    BY <1>0, <1>9 DEF Tick, SnapshotTypeOK
  <2>2. \A w \in Workers : worker[w].at \in Nat
    BY <1>0 DEF WorkerState
  <2>3. \A w \in Workers : CaptureSound(w)'
    BY <1>0, <1>9, <2>2 DEF Tick, CaptureSound, Captures, Ended
  <2> QED
    BY <2>1, <2>3 DEF SnapshotInv
<1> QED
  BY <1>1, <1>2, <1>3, <1>4, <1>5, <1>6, <1>7, <1>8, <1>9 DEF SnapshotNext, SnapshotStep

\* What a completed capture leaves: no step touches a completed snapshot.
LEMMA CompletedKept ==
  ASSUME SnapshotInv, SnapshotNext, NEW s \in Snapshots, Completed(s)
  PROVE  snapshot'[s] = snapshot[s]
<1>0. /\ \A w \in Workers : CaptureSound(w)
      /\ snapshot \in [Snapshots -> SnapshotRow]
  BY DEF SnapshotInv, SnapshotTypeOK
<1>1. \A r \in Snapshots : RequestSnapshot(r) => snapshot'[s] = snapshot[s]
  BY <1>0 DEF RequestSnapshot, Completed
<1>2. \A w \in Workers, r \in Snapshots, n \in 0..SnapshotRetries :
        StartSnapshot(w, r, n) => snapshot'[s] = snapshot[s]
  BY <1>0 DEF StartSnapshot, Completed, Ended
<1>3. \A w \in Workers : CompleteSnapshot(w) => snapshot'[s] = snapshot[s]
  BY <1>0 DEF CompleteSnapshot, CaptureSound, Captures, Completed, Ended
<1>4. \A w \in Workers : FailSnapshot(w) => snapshot'[s] = snapshot[s]
  BY <1>0 DEF FailSnapshot, Completed
<1>5. \A w \in Workers : \/ Capture(w) \/ RetrySnapshot(w) \/ SnapshotTaskFails(w)
                         \/ SnapshotWorkerLost(w) \/ SnapshotTaskLost(w)
        => snapshot' = snapshot
  BY DEF Capture, RetrySnapshot, SnapshotTaskFails, SnapshotWorkerLost, SnapshotTaskLost
<1>6. Tick => snapshot' = snapshot
  BY DEF Tick
<1> QED
  BY <1>1, <1>2, <1>3, <1>4, <1>5, <1>6 DEF SnapshotNext, SnapshotStep

\* Every step of the pipeline preserves the invariant of the snapshots.
LEMMA SnapshotsPreserved == SnapshotInv /\ [Next]_vars => SnapshotInv'
<1> SUFFICES ASSUME SnapshotInv, [Next]_vars PROVE SnapshotInv'
  OBVIOUS
<1>1. faults' \in 0..MaxFaults
  BY FaultsBounded DEF SnapshotInv, SnapshotTypeOK
<1>2. CASE SnapshotNext
  BY <1>1, <1>2, SnapshotStepSound
<1>3. CASE UNCHANGED snapshotVars
  <2>1. SnapshotTypeOK'
    BY <1>1, <1>3 DEF SnapshotInv, SnapshotTypeOK, snapshotVars
  <2>2. \A w \in Workers : CaptureSound(w)'
    BY <1>3 DEF SnapshotInv, CaptureSound, Captures, Ended, snapshotVars
  <2> QED
    BY <2>1, <2>2 DEF SnapshotInv
<1>4. ExtractionNext \/ CuratedNext => UNCHANGED snapshotVars
  BY DEF ExtractionNext, ClaimExtraction, ReadHigh, StageOutput, PublishExtraction, ExtractionErrs,
         RecordFailure, ExtractionLost, CuratedNext, SelectSources, ClaimProcessing, StageManifest,
         Transform, PublishCurated, CuratingErrs, MarkFailure
<1> QED
  BY <1>2, <1>3, <1>4 DEF Next, Capturing, Exporting, Extracting, Curating, vars

\* What a report once showed it shows for ever, for any number of snapshots, deliveries
\* and faults (services.py:146-149, 233).
THEOREM SnapshotsCorrect == Spec => CompletedSnapshotStays
<1>1. SnapshotInv /\ [Next]_vars =>
        [\A s \in Snapshots : Completed(s) => snapshot'[s] = snapshot[s]]_snapshot
  <2> SUFFICES ASSUME SnapshotInv, [Next]_vars, NEW s \in Snapshots, Completed(s)
               PROVE  snapshot'[s] = snapshot[s]
    OBVIOUS
  <2>1. CASE SnapshotNext
    BY <2>1, CompletedKept
  <2>2. CASE UNCHANGED snapshotVars
    BY <2>2 DEF snapshotVars
  <2>3. ExtractionNext \/ CuratedNext => UNCHANGED snapshotVars
    BY DEF ExtractionNext, ClaimExtraction, ReadHigh, StageOutput, PublishExtraction,
           ExtractionErrs, RecordFailure, ExtractionLost, CuratedNext, SelectSources,
           ClaimProcessing, StageManifest, Transform, PublishCurated, CuratingErrs, MarkFailure
  <2> QED
    BY <2>1, <2>2, <2>3 DEF Next, Capturing, Exporting, Extracting, Curating, vars
<1> QED
  BY SnapshotStart, SnapshotsPreserved, <1>1, PTL DEF Spec, CompletedSnapshotStays

-----------------------------------------------------------------------------
(* Report exports *)

\* Nothing is exported in the initial states.
LEMMA ExportStart == Init => ExportInv
<1> SUFFICES ASSUME Init PROVE ExportInv
  OBVIOUS
<1> USE ExportBounds, NoTokenIsNone
<1>1. (CHOOSE e \in Exports : TRUE) \in Exports
  OBVIOUS
<1>2. ExportInit
  BY DEF Init
<1>3. attempt \in [Tokens -> AttemptState] /\ \A t \in Tokens : attempt[t].step = "unused"
  <2> DEFINE none == CHOOSE e \in Exports : TRUE
  <2>1. attempt \in [Tokens -> [step : {"unused"}, export : {none}, tries : {0}, keyed : {FALSE}]]
    BY <1>2 DEF ExportInit
  <2> HIDE DEF none
  <2>2. ASSUME NEW t \in Tokens
        PROVE  attempt[t] \in AttemptState /\ attempt[t].step = "unused"
    <3>1. attempt[t] \in [step : {"unused"}, export : {none}, tries : {0}, keyed : {FALSE}]
      BY <2>1
    <3>2. attempt[t] = [step |-> "unused", export |-> none, tries |-> 0, keyed |-> FALSE]
      BY <3>1
    <3>3. none \in Exports /\ 0 \in 0..ExportRetries
      BY <1>1 DEF none
    <3> QED
      BY <3>2, <3>3 DEF AttemptState
  <2> QED
    BY <2>1, <2>2
<1>4. /\ export \in [Exports -> ExportRow]
      /\ \A e \in Exports : /\ export[e].status = "ABSENT" /\ export[e].token = NoToken
                            /\ export[e].storage = NoToken /\ export[e].cleanup = {}
  BY <1>2 DEF ExportInit, ExportRow
<1>5. files = {} /\ overtaken = {} /\ sweep = NoSweep /\ sweep.keys = {}
  BY <1>2 DEF ExportInit, NoSweep
<1>s. sweep \in [active : BOOLEAN, keys : SUBSET Tokens, storage : Tokens \cup {NoToken}]
  BY <1>5 DEF NoSweep
<1>q. exportQueue \in [Exports \X (0..ExportRetries) -> Nat]
  BY <1>2 DEF ExportInit
<1>6. ExportTypeOK
  BY <1>3, <1>4, <1>5, <1>s, <1>q DEF ExportTypeOK
<1>7. \A e \in Exports : RowSound(e)
  BY <1>4 DEF RowSound
<1>8. \A t \in Tokens : attempt[t].export \in Exports
  BY <1>3 DEF AttemptState
<1>9. \A t \in Tokens : AttemptSound(t)
  BY <1>3, <1>4, <1>5, <1>8 DEF AttemptSound, EarlySteps, RowOf
<1> QED
  BY <1>6, <1>7, <1>9 DEF ExportInv

\* What every step but the claim of a row and the publication of a file may do to a row:
\* it is requested, given up, expires or forgets a file that is gone ...
RowMoves(e) ==
  LET row == export[e]  new == export'[e] IN
  /\ new.token = row.token
  /\ \A t \in row.cleanup : t \in new.cleanup \/ t \notin files'
  /\ \A t \in new.cleanup : \/ t \in row.cleanup
                            \/ t = row.token /\ new.status \in {"QUEUED", "FAILED"}
  /\ \/ new.status = row.status /\ new.storage = row.storage
     \/ /\ row.status \in {"ABSENT", "QUEUED", "RUNNING"} /\ new.status \in {"QUEUED", "FAILED"}
        /\ new.storage = row.storage
        /\ new.status = "FAILED" => row.token = NoToken \/ row.token \in new.cleanup
        /\ row.status = "RUNNING" => \/ attempt'[row.token].step \notin EarlySteps
                                     \/ row.token \in overtaken'
     \/ /\ row.status \in {"COMPLETED", "EXPIRED"} /\ new.status = "EXPIRED"
        /\ new.storage = row.storage \/ (new.storage = NoToken /\ row.storage \notin files')

\* ... and to an attempt: it goes on, and deletes or stores its own file; nothing deletes
\* a file that is shown or about to be
AttemptMoves(t) ==
  LET step == attempt[t].step  new == attempt'[t].step IN
  /\ attempt'[t].export = attempt[t].export
  /\ new = step \/ (Working(t) /\ new # "unused")
  /\ new \in EarlySteps => step \in EarlySteps
  /\ new = "saved" => step = "saved" \/ t \in files'
  /\ t \in files \ files' => ~(step = "saved" /\ Mine(t)) /\ ~Published(t)
  /\ t \in files' \ files => step \in EarlySteps
  /\ t \in sweep'.keys => t \in sweep.keys \cup RowOf(t).cleanup
  /\ t \in overtaken => t \in overtaken'

\* Such steps preserve the invariant.
LEMMA MovesSound ==
  ASSUME ExportInv, ExportTypeOK',
         \A e \in Exports : RowMoves(e), \A t \in Tokens : AttemptMoves(t)
  PROVE  ExportInv'
<1> USE NoTokenIsNone
<1>0. /\ \A e \in Exports : RowSound(e)
      /\ \A t \in Tokens : AttemptSound(t)
      /\ ExportTypeOK
  BY DEF ExportInv
<1>t. /\ \A e \in Exports : export[e] \in ExportRow /\ export'[e] \in ExportRow
      /\ \A t \in Tokens : attempt[t] \in AttemptState /\ attempt'[t] \in AttemptState
      /\ files \subseteq Tokens /\ files' \subseteq Tokens
  BY <1>0 DEF ExportTypeOK
<1>1. ASSUME NEW e \in Exports
      PROVE  RowSound(e)'
  <2> DEFINE row == export[e]  new == export'[e]
  <2>1. RowSound(e) /\ RowMoves(e) /\ row \in ExportRow /\ new \in ExportRow
    BY <1>0, <1>t
  <2>2. ASSUME NEW t \in Tokens
        PROVE  /\ Used(t) => attempt'[t].step # "unused"
               /\ attempt[t].step = "over" => attempt'[t].step = "over"
               /\ attempt'[t].export = attempt[t].export
               /\ t \in files /\ t \notin files' => ~Published(t)
    BY DEF AttemptMoves, Working, Used
  <2>3. new.token # NoToken => attempt'[new.token].step # "unused" /\ attempt'[new.token].export = e
    BY <2>1, <2>2 DEF RowSound, RowMoves, ExportRow
  <2>4. new.status = "RUNNING" => new.token # NoToken
    BY <2>1 DEF RowSound, RowMoves
  <2>5. new.storage # NoToken => /\ new.status \in {"COMPLETED", "EXPIRED"}
                                 /\ attempt'[new.storage].step = "over"
                                 /\ attempt'[new.storage].export = e
    BY <2>1, <2>2 DEF RowSound, RowMoves, ExportRow
  <2>6. new.status = "COMPLETED" => new.storage \in files'
    <3> SUFFICES ASSUME new.status = "COMPLETED" PROVE new.storage \in files'
      OBVIOUS
    <3>1. row.status = "COMPLETED" /\ new.storage = row.storage /\ row.storage \in files
      BY <2>1 DEF RowSound, RowMoves
    <3>2. row.storage \in Tokens /\ attempt[row.storage].export = e
      BY <1>t, <2>1, <3>1 DEF RowSound
    <3>3. Published(row.storage)
      BY <3>1, <3>2 DEF Published
    <3> QED
      BY <2>2, <3>1, <3>2, <3>3
  <2>7. ASSUME NEW t \in new.cleanup
        PROVE  attempt'[t].export = e
    <3>1. t \in Tokens
      BY <2>1 DEF ExportRow
    <3>2. attempt[t].export = e
      BY <2>1, <2>7, <3>1 DEF RowSound, RowMoves
    <3> QED
      BY <2>2, <3>1, <3>2
  <2> QED
    BY <2>3, <2>4, <2>5, <2>6, <2>7 DEF RowSound, Used
<1>2. ASSUME NEW t \in Tokens
      PROVE  AttemptSound(t)'
  <2> DEFINE e == attempt[t].export
  <2>1. e \in Exports /\ attempt'[t].export = e
    BY <1>t DEF AttemptState, AttemptMoves
  <2> DEFINE row == export[e]  new == export'[e]
  <2>2. /\ RowSound(e) /\ RowMoves(e) /\ row \in ExportRow /\ new \in ExportRow
        /\ AttemptSound(t) /\ AttemptMoves(t)
        /\ attempt[t].export = e
    BY <1>0, <1>t, <2>1
  <2> HIDE DEF e
  <2>3. Used(t) => Used(t)'
    BY <2>2 DEF AttemptMoves, Working, Used
  <2>4. Mine(t)' => Mine(t) /\ new.status = row.status
    BY <2>1, <2>2 DEF RowMoves, Mine
  <2>5. Published(t)' => Published(t)
    BY <2>1, <2>2 DEF RowMoves, Published
  <2>6. t \in files' => Used(t)'
    BY <2>2, <2>3 DEF AttemptSound, AttemptMoves, EarlySteps, Used
  <2>7. t \in new.cleanup \cup sweep'.keys => Abandoned(t)'
    <3>1. t \in row.cleanup \cup sweep.keys => Abandoned(t)'
      BY <2>2, <2>3, <2>4, <2>5 DEF AttemptSound, RowOf, Abandoned
    <3>2. t = row.token /\ new.status \in {"QUEUED", "FAILED"} => Abandoned(t)'
      BY <2>1, <2>2, <2>3 DEF RowSound, Abandoned, Mine, Published
    <3> QED
      BY <2>2, <3>1, <3>2 DEF RowMoves, AttemptMoves, RowOf
  <2>8. attempt'[t].step \in EarlySteps => Mine(t)' \/ t \in overtaken'
    <3> SUFFICES ASSUME attempt'[t].step \in EarlySteps, t \notin overtaken' PROVE Mine(t)'
      OBVIOUS
    <3>1. Mine(t)
      BY <2>2 DEF AttemptMoves, AttemptSound
    <3> QED
      BY <2>1, <2>2, <3>1 DEF RowMoves, Mine
  <2>9. attempt'[t].step = "saved" /\ Mine(t)' => t \in files'
    BY <2>2, <2>4 DEF AttemptMoves, AttemptSound
  <2>10. t \in files' \ overtaken' => Accounted(t)'
    <3> SUFFICES ASSUME t \in files', t \notin overtaken' PROVE Accounted(t)'
      OBVIOUS
    <3>1. CASE t \in files
      <4>1. Accounted(t)
        BY <2>2, <3>1 DEF AttemptMoves, AttemptSound
      <4> QED
        BY <2>1, <2>2, <4>1 DEF Accounted, RowOf, RowMoves, RowSound
    <3>2. CASE t \notin files
      <4>1. Mine(t)
        BY <2>2, <3>2 DEF AttemptMoves, AttemptSound
      <4> QED
        BY <2>1, <2>2, <4>1 DEF Accounted, RowOf, RowMoves, Mine
    <3> QED
      BY <3>1, <3>2
  <2> QED
    BY <2>1, <2>6, <2>7, <2>8, <2>9, <2>10 DEF AttemptSound, RowOf
<1> QED
  BY <1>1, <1>2 DEF ExportInv

\* Every step of an export keeps the types.
LEMMA ExportTypes == ExportInv /\ ExportNext => ExportTypeOK'
<1> SUFFICES ASSUME ExportInv, ExportNext PROVE ExportTypeOK'
  OBVIOUS
<1> USE ExportBounds
<1>0. /\ export \in [Exports -> ExportRow]
      /\ exportQueue \in [Exports \X (0..ExportRetries) -> Nat]
      /\ attempt \in [Tokens -> AttemptState]
      /\ files \subseteq Tokens /\ overtaken \subseteq Tokens
      /\ sweep \in [active : BOOLEAN, keys : SUBSET Tokens, storage : Tokens \cup {NoToken}]
  BY DEF ExportInv, ExportTypeOK
<1>e. ASSUME NEW e \in Exports
      PROVE  export[e] \in ExportRow
  BY <1>0
<1>t. ASSUME NEW t \in Tokens
      PROVE  attempt[t] \in AttemptState /\ attempt[t].export \in Exports
  BY <1>0 DEF AttemptState
<1>s. \A e \in Exports, n \in 0..ExportRetries :
        SendExport(e, n) => exportQueue' \in [Exports \X (0..ExportRetries) -> Nat]
  BY <1>0 DEF SendExport
<1>r. \A e \in Exports, n \in 0..ExportRetries :
        Receive(e, n) => exportQueue' \in [Exports \X (0..ExportRetries) -> Nat]
  BY <1>0 DEF Receive
<1>a. \A t \in Tokens : \A step \in {"saved", "refused", "error", "deleted", "raised", "over"} :
        At(t, step) => attempt' \in [Tokens -> AttemptState]
  BY <1>0 DEF At, AttemptState
<1>o. \A t \in Tokens : Over(t) => attempt' \in [Tokens -> AttemptState]
  BY <1>a DEF Over
<1>d. \A t \in Tokens : Delete(t) => files' \subseteq Tokens
  BY <1>0 DEF Delete
<1>k. \A keys \in SUBSET Tokens, t \in Tokens \cup {NoToken} : WithKey(keys, t) \in SUBSET Tokens
  BY DEF WithKey
<1>f. \A row \in ExportRow : Failed(row) \in ExportRow /\ Requeued(row) \in ExportRow
  <2> SUFFICES ASSUME NEW row \in ExportRow
               PROVE  Failed(row) \in ExportRow /\ Requeued(row) \in ExportRow
    OBVIOUS
  <2>1. WithKey(row.cleanup, row.token) \in SUBSET Tokens
    BY <1>k DEF ExportRow
  <2> QED
    BY <2>1 DEF Failed, Requeued, ExportRow
<1>w. \A e \in Exports : \A row \in ExportRow :
        export' = [export EXCEPT ![e] = row] => export' \in [Exports -> ExportRow]
  BY <1>0
<1>u. \A t \in Tokens : \A new \in AttemptState :
        attempt' = [attempt EXCEPT ![t] = new] => attempt' \in [Tokens -> AttemptState]
  BY <1>0
<1>v. \A e \in Exports : Live(e) => export[e].token \in Tokens
  BY <1>0 DEF ExportInv, RowSound, Live, ExportRow
<1>1. ASSUME NEW e \in Exports, RequestExport(e)
      PROVE  ExportTypeOK'
  <2>1. export' \in [Exports -> ExportRow]
    <3> DEFINE new == [export[e] EXCEPT !.status = "QUEUED"]
    <3>1. export' = [export EXCEPT ![e] = new]
      BY <1>0, <1>1 DEF RequestExport
    <3>2. new \in ExportRow
      BY <1>e DEF ExportRow
    <3> HIDE DEF new
    <3> QED
      BY <1>w, <3>1, <3>2
  <2>2. exportQueue' \in [Exports \X (0..ExportRetries) -> Nat]
    BY <1>0, <1>1, <1>s DEF RequestExport
  <2> QED
    BY <1>0, <1>1, <2>1, <2>2 DEF RequestExport, ExportTypeOK
<1>2. ASSUME NEW e \in Exports, RetentionEnds(e)
      PROVE  ExportTypeOK'
  <2>1. export' \in [Exports -> ExportRow]
    <3> DEFINE new == [export[e] EXCEPT !.past = TRUE]
    <3>1. export' = [export EXCEPT ![e] = new]
      BY <1>0, <1>2 DEF RetentionEnds
    <3>2. new \in ExportRow
      BY <1>e DEF ExportRow
    <3> HIDE DEF new
    <3> QED
      BY <1>w, <3>1, <3>2
  <2> QED
    BY <1>0, <1>2, <2>1 DEF RetentionEnds, ExportTypeOK
<1>3. ASSUME NEW e \in Exports, RecoverExport(e) \/ Overtake(e)
      PROVE  ExportTypeOK'
  <2>1. export' = [export EXCEPT ![e] = Requeued(export[e])]
    BY <1>0, <1>3 DEF RecoverExport, Overtake
  <2>2. export' \in [Exports -> ExportRow]
    BY <1>e, <1>f, <1>w, <2>1
  <2>3. exportQueue' \in [Exports \X (0..ExportRetries) -> Nat]
    BY <1>0, <1>3, <1>s DEF RecoverExport, Overtake
  <2>4. overtaken' \subseteq Tokens
    BY <1>0, <1>3, <1>v DEF RecoverExport, Overtake
  <2> QED
    BY <1>0, <1>3, <2>2, <2>3, <2>4 DEF RecoverExport, Overtake, ExportTypeOK
<1>4. ASSUME NEW e \in Exports, ExpireExport(e)
      PROVE  ExportTypeOK'
  <2>1. export' \in [Exports -> ExportRow]
    <3> DEFINE new == [export[e] EXCEPT !.status = "EXPIRED"]
    <3>1. export' = [export EXCEPT ![e] = new]
      BY <1>0, <1>4 DEF ExpireExport
    <3>2. new \in ExportRow
      BY <1>e DEF ExportRow
    <3> HIDE DEF new
    <3> QED
      BY <1>w, <3>1, <3>2
  <2> QED
    BY <1>0, <1>4, <2>1 DEF ExpireExport, ExportTypeOK
<1>5. ASSUME NEW e \in Exports, DeleteExpired(e)
      PROVE  ExportTypeOK'
  <2>1. export' \in [Exports -> ExportRow]
    <3> DEFINE new == [export[e] EXCEPT !.storage = NoToken]
    <3>1. export' = export \/ export' = [export EXCEPT ![e] = new]
      BY <1>0, <1>5 DEF DeleteExpired
    <3>2. new \in ExportRow
      BY <1>e DEF ExportRow
    <3> HIDE DEF new
    <3> QED
      BY <1>0, <1>w, <3>1, <3>2
  <2>2. export[e].storage \in Tokens
    BY <1>e, <1>5 DEF DeleteExpired, ExportRow
  <2>3. files' \subseteq Tokens
    BY <1>5, <1>d, <2>2 DEF DeleteExpired
  <2> QED
    BY <1>0, <1>5, <2>1, <2>3 DEF DeleteExpired, ExportTypeOK
<1>6. ASSUME NEW e \in Exports, NEW n \in 0..ExportRetries, ClaimErrs(e, n)
      PROVE  ExportTypeOK'
  <2>1. CASE n < ExportRetries
    <3>1. n + 1 \in 0..ExportRetries
      BY <2>1
    <3>2. exportQueue' = [exportQueue EXCEPT ![<<e, n>>] = @ - 1, ![<<e, n + 1>>] = @ + 1]
      BY <1>6, <2>1 DEF ClaimErrs
    <3>3. exportQueue[<<e, n>>] - 1 \in Nat
      BY <1>0, <1>6 DEF ClaimErrs
    <3>4. exportQueue' \in [Exports \X (0..ExportRetries) -> Nat]
      BY <1>0, <3>1, <3>2, <3>3
    <3> QED
      BY <1>0, <1>6, <2>1, <3>4 DEF ClaimErrs, ExportTypeOK
  <2>2. CASE ~(n < ExportRetries)
    <3>1. export' = [export EXCEPT ![e] = Failed(export[e])]
      BY <1>0, <1>6, <2>2 DEF ClaimErrs
    <3>2. export' \in [Exports -> ExportRow]
      BY <1>e, <1>f, <1>w, <3>1
    <3>3. exportQueue' \in [Exports \X (0..ExportRetries) -> Nat]
      BY <1>6, <1>r, <2>2 DEF ClaimErrs
    <3>4. overtaken' \subseteq Tokens
      BY <1>0, <1>6, <1>v, <2>2 DEF ClaimErrs
    <3> QED
      BY <1>0, <1>6, <3>2, <3>3, <3>4 DEF ClaimErrs, ExportTypeOK
  <2> QED
    BY <2>1, <2>2
<1>7. ASSUME NEW e \in Exports, NEW n \in 0..ExportRetries, ReceiveNothingToDo(e, n)
      PROVE  ExportTypeOK'
  <2>1. WithKey(export[e].cleanup, export[e].token) \in SUBSET Tokens
    BY <1>e, <1>k DEF ExportRow
  <2>2. export' \in [Exports -> ExportRow]
    BY <1>0, <1>7, <2>1, SMTT(30) DEF ReceiveNothingToDo, ExportRow
  <2> QED
    BY <1>0, <1>7, <1>r, <2>2 DEF ReceiveNothingToDo, ExportTypeOK
<1>8. ASSUME NEW e \in Exports, NEW n \in 0..ExportRetries, ClaimExport(e, n)
      PROVE  ExportTypeOK'
  <2>1. PICK t \in Tokens :
          /\ export' = [export EXCEPT ![e].status = "RUNNING", ![e].token = t,
                                      ![e].cleanup = WithKey(@, export[e].token)]
          /\ attempt' = [attempt EXCEPT ![t] = [step |-> "rendering", export |-> e, tries |-> n,
                                                keyed |-> FALSE]]
    <3>1. (CHOOSE u \in Unused : TRUE) \in Tokens
      BY <1>8 DEF ClaimExport, Unused
    <3> QED
      BY <1>8, <3>1 DEF ClaimExport
  <2>2. WithKey(export[e].cleanup, export[e].token) \in SUBSET Tokens
    BY <1>e, <1>k DEF ExportRow
  <2>3. export' \in [Exports -> ExportRow]
    <3> DEFINE new == [export[e] EXCEPT !.status = "RUNNING", !.token = t,
                                        !.cleanup = WithKey(@, export[e].token)]
    <3>1. export' = [export EXCEPT ![e] = new]
      BY <1>0, <2>1
    <3>2. new \in ExportRow
      BY <1>e, <2>2 DEF ExportRow
    <3> HIDE DEF new
    <3> QED
      BY <1>w, <3>1, <3>2
  <2>4. attempt' \in [Tokens -> AttemptState]
    BY <1>0, <2>1 DEF AttemptState
  <2> QED
    BY <1>0, <1>8, <1>r, <2>3, <2>4 DEF ClaimExport, ExportTypeOK
<1>9. ASSUME NEW t \in Tokens, SaveFile(t) \/ AttemptErrs(t)
      PROVE  ExportTypeOK'
  <2>1. attempt' \in [Tokens -> AttemptState]
    <3>0. ASSUME NEW step \in {"saved", "error"},
                 attempt' = [attempt EXCEPT ![t].step = step, ![t].keyed = TRUE]
          PROVE  attempt' \in [Tokens -> AttemptState]
      <4> DEFINE new == [attempt[t] EXCEPT !.step = step, !.keyed = TRUE]
      <4>1. attempt' = [attempt EXCEPT ![t] = new]
        BY <1>0, <3>0
      <4>2. new \in AttemptState
        BY <1>t DEF AttemptState
      <4> HIDE DEF new
      <4> QED
        BY <1>u, <4>1, <4>2
    <3>1. CASE SaveFile(t)
      BY <3>0, <3>1 DEF SaveFile
    <3>2. CASE At(t, "error")
      BY <1>a, <3>2
    <3>3. CASE attempt' = [attempt EXCEPT ![t].step = "error", ![t].keyed = TRUE]
      BY <3>0, <3>3
    <3> QED
      BY <1>9, <3>1, <3>2, <3>3 DEF AttemptErrs
  <2>2. files' \subseteq Tokens
    BY <1>0, <1>9 DEF SaveFile, AttemptErrs
  <2> QED
    BY <1>0, <1>9, <2>1, <2>2 DEF SaveFile, AttemptErrs, ExportTypeOK
<1>10. ASSUME NEW t \in Tokens, PublishFile(t)
       PROVE  ExportTypeOK'
  <2>1. attempt' \in [Tokens -> AttemptState]
    BY <1>10, <1>a, <1>o DEF PublishFile
  <2>2. export' \in [Exports -> ExportRow]
    <3> DEFINE e == attempt[t].export
               shown == [export[e] EXCEPT !.status = "COMPLETED", !.token = NoToken,
                                          !.storage = t, !.cleanup = @ \ {t}]
               late == [export[e] EXCEPT !.status = "FAILED", !.cleanup = @ \cup {t}]
    <3>1. \/ export' = export
          \/ export' = [export EXCEPT ![e] = shown]
          \/ export' = [export EXCEPT ![e] = late]
      BY <1>0, <1>10 DEF PublishFile
    <3>2. e \in Exports
      BY <1>t
    <3> HIDE DEF e
    <3>3. shown \in ExportRow
      BY <1>e, <3>2 DEF ExportRow
    <3>4. late \in ExportRow
      BY <1>e, <3>2 DEF ExportRow
    <3> HIDE DEF shown, late
    <3> QED
      BY <1>0, <1>w, <3>1, <3>2, <3>3, <3>4
  <2> QED
    BY <1>0, <1>10, <2>1, <2>2 DEF PublishFile, ExportTypeOK
<1>11. ASSUME NEW t \in Tokens, DropRefused(t) \/ DropAfterError(t)
       PROVE  ExportTypeOK'
  <2>1. attempt' \in [Tokens -> AttemptState]
    BY <1>11, <1>a, <1>o DEF DropRefused, DropAfterError
  <2>2. files' \subseteq Tokens
    BY <1>0, <1>11, <1>d DEF DropRefused, DropAfterError
  <2> QED
    BY <1>0, <1>11, <2>1, <2>2 DEF DropRefused, DropAfterError, ExportTypeOK
<1>12. ASSUME NEW t \in Tokens, ReleaseRow(t)
       PROVE  ExportTypeOK'
  <2>1. attempt' \in [Tokens -> AttemptState]
    BY <1>12, <1>a DEF ReleaseRow
  <2>2. export' \in [Exports -> ExportRow]
    <3> DEFINE e == attempt[t].export
               new == [export[e] EXCEPT !.status = "QUEUED",
                                        !.cleanup = IF attempt[t].keyed THEN @ \cup {t} ELSE @]
    <3>1. export' = export \/ export' = [export EXCEPT ![e] = new]
      BY <1>0, <1>12 DEF ReleaseRow
    <3>2. e \in Exports
      BY <1>t
    <3> HIDE DEF e
    <3>3. new \in ExportRow
      BY <1>e, <3>2 DEF ExportRow
    <3> HIDE DEF new
    <3> QED
      BY <1>0, <1>w, <3>1, <3>2, <3>3
  <2> QED
    BY <1>0, <1>12, <2>1, <2>2 DEF ReleaseRow, ExportTypeOK
<1>13. ASSUME NEW t \in Tokens, RetryOrFail(t)
       PROVE  ExportTypeOK'
  <2>1. attempt' \in [Tokens -> AttemptState]
    BY <1>13, <1>o DEF RetryOrFail
  <2>2. export' \in [Exports -> ExportRow]
    <3>1. export' = export \/ export' = [export EXCEPT ![attempt[t].export] =
                                                        Failed(export[attempt[t].export])]
      BY <1>0, <1>13 DEF RetryOrFail
    <3> QED
      BY <1>0, <1>e, <1>f, <1>t, <1>w, <3>1
  <2>3. overtaken' \subseteq Tokens
    BY <1>0, <1>13, <1>t, <1>v DEF RetryOrFail
  <2>4. exportQueue' \in [Exports \X (0..ExportRetries) -> Nat]
    <3>1. attempt[t].tries < ExportRetries => attempt[t].tries + 1 \in 0..ExportRetries
      BY <1>t DEF AttemptState
    <3> QED
      BY <1>0, <1>13, <1>s, <1>t, <3>1 DEF RetryOrFail
  <2> QED
    BY <1>0, <1>13, <2>1, <2>2, <2>3, <2>4 DEF RetryOrFail, ExportTypeOK
<1>14. ASSUME NEW t \in Tokens, ExportWorkerLost(t)
       PROVE  ExportTypeOK'
  <2>1. attempt' \in [Tokens -> AttemptState]
    BY <1>14, <1>o DEF ExportWorkerLost
  <2>2. exportQueue' \in [Exports \X (0..ExportRetries) -> Nat]
    BY <1>0, <1>14, <1>s, <1>t DEF ExportWorkerLost, AttemptState
  <2> QED
    BY <1>0, <1>14, <2>1, <2>2 DEF ExportWorkerLost, ExportTypeOK
<1>15. ASSUME NEW e \in Exports, StartSweep(e)
       PROVE  ExportTypeOK'
  <2>1. sweep' \in [active : BOOLEAN, keys : SUBSET Tokens, storage : Tokens \cup {NoToken}]
    BY <1>15, <1>e DEF StartSweep, ExportRow
  <2> QED
    BY <1>0, <1>15, <2>1 DEF StartSweep, ExportTypeOK
<1>16. ASSUME NEW t \in Tokens, SweepKey(t)
       PROVE  ExportTypeOK'
  <2>1. sweep' \in [active : BOOLEAN, keys : SUBSET Tokens, storage : Tokens \cup {NoToken}]
    BY <1>0, <1>16 DEF SweepKey
  <2>2. files' \subseteq Tokens
    BY <1>0, <1>16, <1>d DEF SweepKey
  <2>3. export' \in [Exports -> ExportRow]
    <3>1. \A e \in Exports : [export[e] EXCEPT !.cleanup = @ \ {t}] \in ExportRow
      <4> SUFFICES ASSUME NEW e \in Exports
                   PROVE  [export[e] EXCEPT !.cleanup = @ \ {t}] \in ExportRow
        OBVIOUS
      <4> QED
        BY <1>e DEF ExportRow
    <3>2. \/ export' = export
          \/ export' = [e \in Exports |-> [export[e] EXCEPT !.cleanup = @ \ {t}]]
      BY <1>16 DEF SweepKey
    <3> QED
      BY <1>0, <3>1, <3>2
  <2> QED
    BY <1>0, <1>16, <2>1, <2>2, <2>3 DEF SweepKey, ExportTypeOK
<1>17. ASSUME EndSweep
       PROVE  ExportTypeOK'
  <2>1. sweep' \in [active : BOOLEAN, keys : SUBSET Tokens, storage : Tokens \cup {NoToken}]
    BY <1>17 DEF EndSweep, NoSweep
  <2> QED
    BY <1>0, <1>17, <2>1 DEF EndSweep, ExportTypeOK
<1>18. ASSUME NEW e \in Exports, Beat(e)
       PROVE  ExportTypeOK'
  BY <1>3, <1>4, <1>5, <1>18 DEF Beat
<1>19. ASSUME NEW t \in Tokens, AttemptStep(t)
       PROVE  ExportTypeOK'
  BY <1>9, <1>10, <1>11, <1>12, <1>13, <1>19 DEF AttemptStep
<1>20. ASSUME Sweeper
       PROVE  ExportTypeOK'
  BY <1>15, <1>16, <1>17, <1>20 DEF Sweeper
<1>21. ASSUME ExportWorkers
       PROVE  ExportTypeOK'
  BY <1>7, <1>8, <1>19, <1>21 DEF ExportWorkers, Deliver
<1> QED
  BY <1>1, <1>2, <1>3, <1>6, <1>9, <1>14, <1>18, <1>20, <1>21 DEF ExportNext

\* A step that leaves the rows, or the attempts and what depends on them, alone.
LEMMA RowsStay ==
  ASSUME ExportTypeOK, export' = export
  PROVE  \A e \in Exports : RowMoves(e)
BY DEF RowMoves

\* Attempts that a step leaves alone have moved as they may.
LEMMA AttemptsStay ==
  ASSUME ExportTypeOK, attempt' = attempt, files' = files, sweep' = sweep,
         overtaken \subseteq overtaken'
  PROVE  \A t \in Tokens : AttemptMoves(t)
BY DEF AttemptMoves

\* Most steps of one export are moves.
LEMMA RowStepMoves ==
  ASSUME ExportInv, NEW e \in Exports, NEW n \in 0..ExportRetries,
         \/ RequestExport(e) \/ RetentionEnds(e) \/ Overtake(e) \/ RecoverExport(e)
         \/ ExpireExport(e) \/ ClaimErrs(e, n) \/ ReceiveNothingToDo(e, n)
  PROVE  (\A p \in Exports : RowMoves(p)) /\ (\A t \in Tokens : AttemptMoves(t))
<1> USE NoTokenIsNone
<1>0. ExportTypeOK /\ RowSound(e)
  BY DEF ExportInv
<1>1. export \in [Exports -> ExportRow] /\ export[e] \in ExportRow
  BY <1>0 DEF ExportTypeOK
<1>2. attempt' = attempt /\ files' = files /\ sweep' = sweep /\ overtaken \subseteq overtaken'
  BY DEF RequestExport, RetentionEnds, Overtake, RecoverExport, ExpireExport, ClaimErrs,
         ReceiveNothingToDo
<1>3. \A t \in Tokens : AttemptMoves(t)
  BY <1>0, <1>2, AttemptsStay
<1>4. \A p \in Exports : p # e => export'[p] = export[p]
  BY <1>1 DEF RequestExport, RetentionEnds, Overtake, RecoverExport, ExpireExport, ClaimErrs,
         ReceiveNothingToDo
<1>5. \A p \in Exports : p # e => RowMoves(p)
  BY <1>4 DEF RowMoves
<1> DEFINE row == export[e]  new == export'[e]
<1>w. \A keys : /\ row.token # NoToken => WithKey(keys, row.token) = keys \cup {row.token}
                /\ row.token = NoToken => WithKey(keys, row.token) = keys
  BY DEF WithKey
<1>6. RowMoves(e)
  <2>1. CASE RequestExport(e)
    <3>1. /\ new = [row EXCEPT !.status = "QUEUED"]
          /\ row.status \in {"ABSENT", "QUEUED"}
      BY <1>1, <2>1 DEF RequestExport
    <3> QED
      BY <1>1, <3>1 DEF RowMoves, ExportRow
  <2>2. CASE RetentionEnds(e)
    <3>1. new = [row EXCEPT !.past = TRUE]
      BY <1>1, <2>2 DEF RetentionEnds
    <3> QED
      BY <1>1, <3>1 DEF RowMoves, ExportRow
  <2>3. CASE Overtake(e) \/ RecoverExport(e)
    <3>1. /\ new = Requeued(row) /\ row.status \in {"QUEUED", "RUNNING"}
          /\ row.token \in overtaken' \/ ~Live(e)
      BY <1>1, <2>3 DEF Overtake, RecoverExport, Live
    <3>2. row.status = "RUNNING" => attempt[row.token].step \notin EarlySteps
                                    \/ row.token \in overtaken'
      BY <3>1 DEF Live, Working, EarlySteps
    <3>3. /\ new.status = "QUEUED" /\ new.token = row.token /\ new.storage = row.storage
          /\ new.cleanup = row.cleanup \/ new.cleanup = WithKey(row.cleanup, row.token)
      BY <1>1, <3>1 DEF Requeued, ExportRow
    <3> QED
      BY <1>2, <1>w, <3>1, <3>2, <3>3 DEF RowMoves
  <2>4. CASE ExpireExport(e)
    <3>1. new = [row EXCEPT !.status = "EXPIRED"] /\ row.status = "COMPLETED"
      BY <1>1, <2>4 DEF ExpireExport
    <3> QED
      BY <1>1, <3>1 DEF RowMoves, ExportRow
  <2>5. CASE ClaimErrs(e, n)
    <3>1. CASE n < ExportRetries
      BY <2>5, <3>1 DEF ClaimErrs, RowMoves
    <3>2. CASE ~(n < ExportRetries)
      <4>1. /\ new = Failed(row) /\ row.status \in {"ABSENT", "QUEUED", "RUNNING"}
            /\ row.token \in overtaken' \/ ~Live(e)
        BY <1>1, <2>5, <3>2 DEF ClaimErrs, TerminalExport, ExportRow
      <4>2. row.status = "RUNNING" => attempt[row.token].step \notin EarlySteps
                                      \/ row.token \in overtaken'
        BY <4>1 DEF Live, Working, EarlySteps
      <4>3. /\ new.status = "FAILED" /\ new.token = row.token /\ new.storage = NoToken
            /\ new.cleanup = WithKey(row.cleanup, row.token)
        BY <1>1, <4>1 DEF Failed, ExportRow
      <4>4. row.storage = NoToken
        BY <1>0, <4>1 DEF RowSound
      <4> QED
        BY <1>2, <1>w, <4>1, <4>2, <4>3, <4>4 DEF RowMoves
    <3> QED
      BY <3>1, <3>2
  <2>6. CASE ReceiveNothingToDo(e, n)
    <3>1. CASE export' = export
      BY <3>1 DEF RowMoves
    <3>2. CASE row.status = "QUEUED" /\ export' # export
      <4>1. new = [row EXCEPT !.status = "FAILED", !.cleanup = WithKey(@, row.token)]
        BY <1>1, <2>6, <3>2 DEF ReceiveNothingToDo
      <4>2. /\ new.status = "FAILED" /\ new.token = row.token /\ new.storage = row.storage
            /\ new.cleanup = WithKey(row.cleanup, row.token)
        BY <1>1, <4>1 DEF ExportRow
      <4> QED
        BY <1>2, <1>w, <3>2, <4>2 DEF RowMoves
    <3> QED
      BY <2>6, <3>1, <3>2 DEF ReceiveNothingToDo
  <2> QED
    BY <2>1, <2>2, <2>3, <2>4, <2>5, <2>6
<1> QED
  BY <1>3, <1>5, <1>6

\* The file of an attempt that is neither published nor about to be may be deleted.
LEMMA DeletionMoves ==
  ASSUME ExportInv, NEW t \in Tokens, Delete(t), sweep'.keys \subseteq sweep.keys,
         overtaken' = overtaken, ~Published(t), ~(attempt[t].step = "saved" /\ Mine(t)),
         \A q \in Tokens : q # t => attempt'[q] = attempt[q],
         attempt'[t].export = attempt[t].export,
         attempt'[t].step \in {attempt[t].step, "over"}
           \/ (attempt[t].step = "error" /\ attempt'[t].step = "deleted"),
         attempt'[t].step = "over" => Working(t) \/ attempt[t].step = "over"
  PROVE  \A q \in Tokens : AttemptMoves(q)
<1>1. files' \subseteq files /\ files \ files' \subseteq {t}
  BY DEF Delete
<1>2. \A q \in Tokens : q # t => AttemptMoves(q)
  BY <1>1 DEF AttemptMoves
<1>3. AttemptMoves(t)
  BY <1>1 DEF AttemptMoves, Working, EarlySteps
<1> QED
  BY <1>2, <1>3

\* So are most steps of an attempt, and those of the sweeper and of expiry.
LEMMA AttemptStepMoves ==
  ASSUME ExportInv, NEW t \in Tokens,
         \/ SaveFile(t) \/ AttemptErrs(t) \/ DropRefused(t) \/ DropAfterError(t)
         \/ ReleaseRow(t) \/ RetryOrFail(t) \/ ExportWorkerLost(t)
         \/ PublishFile(t) /\ ~(Mine(t) /\ ~RowOf(t).past)
  PROVE  (\A e \in Exports : RowMoves(e)) /\ (\A q \in Tokens : AttemptMoves(q))
<1> USE NoTokenIsNone
<1> DEFINE e == attempt[t].export
<1>0. /\ ExportTypeOK /\ AttemptSound(t) /\ e \in Exports
      /\ export \in [Exports -> ExportRow] /\ attempt \in [Tokens -> AttemptState]
      /\ attempt[t] \in AttemptState
  BY DEF ExportInv, ExportTypeOK, AttemptState
<1>1. RowSound(e) /\ export[e] \in ExportRow
  BY <1>0 DEF ExportInv
<1> DEFINE row == export[e]  new == export'[e]
<1>n. Published(t) => attempt[t].step = "over"
  BY <1>1 DEF RowSound, Published
<1>m. Mine(t) <=> row.status = "RUNNING" /\ row.token = t
  BY DEF Mine
<1>p. RowOf(t) = row
  BY DEF RowOf
<1>2. \A q \in Tokens : q # t => attempt'[q] = attempt[q]
  BY <1>0 DEF SaveFile, AttemptErrs, DropRefused, DropAfterError, ReleaseRow, RetryOrFail,
              ExportWorkerLost, PublishFile, Over, At
<1>3. attempt'[t].export = e
  BY <1>0 DEF SaveFile, AttemptErrs, DropRefused, DropAfterError, ReleaseRow, RetryOrFail,
              ExportWorkerLost, PublishFile, Over, At, AttemptState
<1>4. sweep' = sweep /\ overtaken \subseteq overtaken'
  BY DEF SaveFile, AttemptErrs, DropRefused, DropAfterError, ReleaseRow, RetryOrFail,
         ExportWorkerLost, PublishFile
<1> HIDE DEF e
<1>5. CASE SaveFile(t) \/ AttemptErrs(t)
  <2>1. export' = export
    BY <1>5 DEF SaveFile, AttemptErrs
  <2>2. /\ attempt[t].step \in {"rendering", "saved"}
        /\ attempt'[t].step = "error" \/ (attempt'[t].step = "saved" /\ t \in files')
        /\ files \subseteq files' /\ files' \subseteq files \cup {t}
    BY <1>0, <1>5 DEF SaveFile, AttemptErrs, At, AttemptState
  <2>3. AttemptMoves(t)
    BY <1>3, <1>4, <2>2 DEF AttemptMoves, Working, EarlySteps, e
  <2>4. \A q \in Tokens : q # t => AttemptMoves(q)
    BY <1>2, <1>4, <2>2 DEF AttemptMoves
  <2> QED
    BY <1>0, <2>1, <2>3, <2>4, RowsStay
<1>6. CASE DropRefused(t) \/ DropAfterError(t)
  <2>1. export' = export /\ overtaken' = overtaken
    BY <1>6 DEF DropRefused, DropAfterError
  <2>2. /\ attempt[t].step \in {"refused", "error"}
        /\ \/ attempt'[t].step = "over"
           \/ attempt[t].step = "error" /\ attempt'[t].step = "deleted"
    BY <1>0, <1>6 DEF DropRefused, DropAfterError, Over, At, AttemptState
  <2>3. CASE Delete(t)
    <3>1. \A q \in Tokens : AttemptMoves(q)
      BY <1>2, <1>3, <1>4, <1>n, <2>1, <2>2, <2>3, DeletionMoves DEF Working, e
    <3> QED
      BY <1>0, <2>1, <3>1, RowsStay
  <2>4. CASE files' = files
    <3>1. \A q \in Tokens : q # t => AttemptMoves(q)
      BY <1>2, <1>4, <2>4 DEF AttemptMoves
    <3>2. AttemptMoves(t)
      BY <1>3, <1>4, <2>2, <2>4 DEF AttemptMoves, Working, EarlySteps, e
    <3> QED
      BY <1>0, <2>1, <3>1, <3>2, RowsStay
  <2> QED
    BY <1>6, <2>3, <2>4 DEF DropRefused, DropAfterError
<1>7. ASSUME files' = files, attempt'[t].step \in {"refused", "raised", "over"}, Working(t)
      PROVE  \A q \in Tokens : AttemptMoves(q)
  <2>1. \A q \in Tokens : q # t => AttemptMoves(q)
    BY <1>2, <1>4, <1>7 DEF AttemptMoves
  <2>2. AttemptMoves(t)
    BY <1>3, <1>4, <1>7 DEF AttemptMoves, Working, EarlySteps, e
  <2> QED
    BY <2>1, <2>2
<1>8. CASE ExportWorkerLost(t)
  <2>1. export' = export /\ files' = files /\ attempt'[t].step = "over" /\ Working(t)
    BY <1>0, <1>8 DEF ExportWorkerLost, Over, At, AttemptState
  <2> QED
    BY <1>0, <1>7, <2>1, RowsStay
<1>9. CASE ReleaseRow(t)
  <2>1. files' = files /\ attempt'[t].step = "raised" /\ Working(t)
    BY <1>0, <1>9 DEF ReleaseRow, At, AttemptState, Working
  <2>2. \A p \in Exports : p # e => export'[p] = export[p]
    BY <1>0, <1>9 DEF ReleaseRow, e
  <2>3. CASE ~Mine(t)
    BY <1>0, <1>7, <1>9, <2>1, <2>3, RowsStay DEF ReleaseRow
  <2>4. CASE Mine(t)
    <3>1. /\ new.status = "QUEUED" /\ new.token = row.token /\ new.storage = row.storage
          /\ new.cleanup = row.cleanup \/ new.cleanup = row.cleanup \cup {t}
      BY <1>0, <1>1, <1>9, <2>4 DEF ReleaseRow, ExportRow, e
    <3>2. RowMoves(e)
      BY <1>m, <2>1, <2>4, <3>1 DEF RowMoves, EarlySteps
    <3> QED
      BY <1>7, <2>1, <2>2, <3>2 DEF RowMoves
  <2> QED
    BY <2>3, <2>4
<1>10. CASE RetryOrFail(t)
  <2>1. files' = files /\ attempt'[t].step = "over" /\ Working(t)
    BY <1>0, <1>10 DEF RetryOrFail, Over, At, AttemptState, Working
  <2>2. CASE export' = export
    BY <1>0, <1>7, <2>1, <2>2, RowsStay
  <2>3. CASE export' # export
    <3>1. MayFail(e, t) /\ export' = [export EXCEPT ![e] = Failed(row)]
      BY <1>10, <2>3 DEF RetryOrFail, e
    <3>2. \A p \in Exports : p # e => export'[p] = export[p]
      BY <1>0, <3>1
    <3>3. /\ new.status = "FAILED" /\ new.token = row.token /\ new.storage = NoToken
          /\ new.cleanup = WithKey(row.cleanup, row.token)
      BY <1>0, <1>1, <3>1 DEF Failed, ExportRow
    <3>4. row.status \in {"ABSENT", "QUEUED", "RUNNING"} /\ row.token = t
      BY <1>1, <3>1 DEF MayFail, TerminalExport, ExportRow
    <3>5. row.storage = NoToken /\ new.cleanup = row.cleanup \cup {t}
      BY <1>1, <3>3, <3>4 DEF RowSound, WithKey
    <3>6. RowMoves(e)
      BY <2>1, <3>3, <3>4, <3>5 DEF RowMoves, EarlySteps
    <3> QED
      BY <1>7, <2>1, <3>2, <3>6 DEF RowMoves
  <2> QED
    BY <2>2, <2>3
<1>11. CASE PublishFile(t) /\ ~(Mine(t) /\ ~row.past)
  <2>1. files' = files /\ attempt'[t].step = "refused" /\ Working(t)
    BY <1>0, <1>11 DEF PublishFile, At, AttemptState, Working, e
  <2>2. CASE export' = export
    BY <1>0, <1>7, <2>1, <2>2, RowsStay
  <2>3. CASE export' # export
    <3>1. /\ Mine(t)
          /\ export' = [export EXCEPT ![e].status = "FAILED", ![e].cleanup = @ \cup {t}]
      BY <1>11, <2>3 DEF PublishFile, e
    <3>2. /\ \A p \in Exports : p # e => export'[p] = export[p]
          /\ new.status = "FAILED" /\ new.token = row.token /\ new.storage = row.storage
          /\ new.cleanup = row.cleanup \cup {t}
      BY <1>0, <1>1, <3>1 DEF ExportRow
    <3>3. RowMoves(e)
      BY <1>m, <2>1, <3>1, <3>2 DEF RowMoves, EarlySteps
    <3> QED
      BY <1>7, <2>1, <3>2, <3>3 DEF RowMoves
  <2> QED
    BY <2>2, <2>3
<1> QED
  BY <1>5, <1>6, <1>8, <1>9, <1>10, <1>11, <1>p

\* The steps of the beat move rows and attempts as they may.
LEMMA BeatMoves ==
  ASSUME ExportInv, ExportTypeOK',
         (\E e \in Exports : DeleteExpired(e) \/ StartSweep(e)) \/ (\E t \in Tokens : SweepKey(t))
           \/ EndSweep
  PROVE  (\A p \in Exports : RowMoves(p)) /\ (\A q \in Tokens : AttemptMoves(q))
<1> USE NoTokenIsNone
<1>0. /\ ExportTypeOK /\ \A e \in Exports : RowSound(e) /\ export[e] \in ExportRow
      /\ \A t \in Tokens : AttemptSound(t)
      /\ export \in [Exports -> ExportRow] /\ files \subseteq Tokens
      /\ \A t \in Tokens : attempt[t].export \in Exports
      /\ sweep \in [active : BOOLEAN, keys : SUBSET Tokens, storage : Tokens \cup {NoToken}]
  BY DEF ExportInv, ExportTypeOK, AttemptState
<1>1. ASSUME NEW e \in Exports, DeleteExpired(e)
      PROVE  (\A p \in Exports : RowMoves(p)) /\ (\A q \in Tokens : AttemptMoves(q))
  <2> DEFINE row == export[e]  new == export'[e]  t == row.storage
  <2>1. /\ row.status = "EXPIRED" /\ t \in Tokens /\ Delete(t)
        /\ attempt' = attempt /\ sweep' = sweep /\ overtaken' = overtaken
    BY <1>0, <1>1 DEF DeleteExpired, ExportRow
  <2>2. attempt[t].step = "over" /\ attempt[t].export = e
    BY <1>0, <2>1 DEF RowSound
  <2>3. \A q \in Tokens : AttemptMoves(q)
    BY <2>1, <2>2, DeletionMoves DEF Published
  <2>4. \A p \in Exports : p # e => export'[p] = export[p]
    BY <1>0, <1>1 DEF DeleteExpired
  <2>5. \/ new = row
        \/ new = [row EXCEPT !.storage = NoToken] /\ t \notin files'
    BY <1>0, <1>1 DEF DeleteExpired
  <2>6. RowMoves(e)
    BY <1>0, <2>1, <2>5 DEF RowMoves, ExportRow
  <2> QED
    BY <2>3, <2>4, <2>6 DEF RowMoves
<1>2. ASSUME NEW e \in Exports, StartSweep(e)
      PROVE  (\A p \in Exports : RowMoves(p)) /\ (\A q \in Tokens : AttemptMoves(q))
  <2>1. /\ export' = export /\ attempt' = attempt /\ files' = files /\ overtaken' = overtaken
        /\ sweep'.keys = export[e].cleanup
    BY <1>2 DEF StartSweep
  <2>2. \A q \in Tokens : q \in export[e].cleanup => q \in RowOf(q).cleanup
    BY <1>0 DEF RowSound, RowOf
  <2>3. \A q \in Tokens : AttemptMoves(q)
    BY <2>1, <2>2 DEF AttemptMoves
  <2> QED
    BY <1>0, <2>1, <2>3, RowsStay
<1>3. ASSUME EndSweep
      PROVE  (\A p \in Exports : RowMoves(p)) /\ (\A q \in Tokens : AttemptMoves(q))
  <2>1. /\ export' = export /\ attempt' = attempt /\ files' = files /\ overtaken' = overtaken
        /\ sweep'.keys = {}
    BY <1>3 DEF EndSweep, NoSweep
  <2>2. \A q \in Tokens : AttemptMoves(q)
    BY <2>1 DEF AttemptMoves
  <2> QED
    BY <1>0, <2>1, <2>2, RowsStay
<1>4. ASSUME NEW t \in Tokens, SweepKey(t)
      PROVE  (\A p \in Exports : RowMoves(p)) /\ (\A q \in Tokens : AttemptMoves(q))
  <2>1. /\ attempt' = attempt /\ overtaken' = overtaken /\ t \in sweep.keys
        /\ sweep'.keys \subseteq sweep.keys
    BY <1>0, <1>4 DEF SweepKey
  <2>2. CASE t = sweep.storage
    <3>1. export' = export /\ files' = files
      BY <1>4, <2>2 DEF SweepKey
    <3>2. \A q \in Tokens : AttemptMoves(q)
      BY <2>1, <3>1 DEF AttemptMoves
    <3> QED
      BY <1>0, <3>1, <3>2, RowsStay
  <2>3. CASE t # sweep.storage
    <3>1. Abandoned(t)
      BY <1>0, <2>1 DEF AttemptSound
    <3>2. Delete(t)
      BY <1>4, <2>3 DEF SweepKey
    <3>3. \A q \in Tokens : AttemptMoves(q)
      BY <2>1, <3>1, <3>2, DeletionMoves DEF Abandoned
    <3>4. CASE t \in files'
      <4>1. export' = export
        BY <1>4, <2>3, <3>4 DEF SweepKey
      <4> QED
        BY <1>0, <3>3, <4>1, RowsStay
    <3>5. CASE t \notin files'
      <4>1. export' = [e \in Exports |-> [export[e] EXCEPT !.cleanup = @ \ {t}]]
        BY <1>4, <2>3, <3>5 DEF SweepKey
      <4>2. ASSUME NEW e \in Exports
            PROVE  RowMoves(e)
        <5>1. export'[e] = [export[e] EXCEPT !.cleanup = @ \ {t}]
          BY <4>1
        <5>2. /\ export'[e].status = export[e].status /\ export'[e].token = export[e].token
              /\ export'[e].storage = export[e].storage
              /\ export'[e].cleanup = export[e].cleanup \ {t}
          BY <1>0, <5>1 DEF ExportRow
        <5> QED
          BY <3>5, <5>2 DEF RowMoves
      <4> QED
        BY <3>3, <4>2
    <3> QED
      BY <3>4, <3>5
  <2> QED
    BY <2>2, <2>3
<1> QED
  BY <1>1, <1>2, <1>3, <1>4

\* A claim gives the row to an attempt that no row, file or list knows.
LEMMA ClaimSound ==
  ASSUME ExportInv, ExportTypeOK', NEW e \in Exports, NEW n \in 0..ExportRetries,
         ClaimExport(e, n)
  PROVE  ExportInv'
<1> USE NoTokenIsNone
<1>0. /\ ExportTypeOK /\ \A p \in Exports : RowSound(p) /\ export[p] \in ExportRow
      /\ \A q \in Tokens : AttemptSound(q)
      /\ export \in [Exports -> ExportRow] /\ attempt \in [Tokens -> AttemptState]
      /\ files \subseteq Tokens
      /\ \A q \in Tokens : attempt[q].export \in Exports
  BY DEF ExportInv, ExportTypeOK, AttemptState
<1>1. PICK t \in Tokens :
        /\ ~Used(t)
        /\ export' = [export EXCEPT ![e].status = "RUNNING", ![e].token = t,
                                    ![e].cleanup = WithKey(@, export[e].token)]
        /\ attempt' = [attempt EXCEPT ![t] = [step |-> "rendering", export |-> e, tries |-> n,
                                              keyed |-> FALSE]]
  <2>1. (CHOOSE u \in Unused : TRUE) \in Unused
    BY DEF ClaimExport
  <2> QED
    BY <2>1 DEF ClaimExport, Unused, Used
<1>2. files' = files /\ sweep' = sweep /\ overtaken' = overtaken /\ export[e].status = "QUEUED"
  BY DEF ClaimExport
<1> DEFINE row == export[e]  new == export'[e]
<1>3. /\ new.status = "RUNNING" /\ new.token = t /\ new.storage = row.storage
      /\ row.token = NoToken => new.cleanup = row.cleanup
      /\ row.token # NoToken => new.cleanup = row.cleanup \cup {row.token}
  BY <1>0, <1>1 DEF ExportRow, WithKey
<1>4. \A p \in Exports : p # e => export'[p] = export[p]
  BY <1>0, <1>1
<1>5. /\ attempt'[t].step = "rendering" /\ attempt'[t].export = e
      /\ \A q \in Tokens : q # t => attempt'[q] = attempt[q]
  BY <1>0, <1>1
<1>6. /\ t \notin files /\ t \notin sweep.keys
      /\ \A p \in Exports : export[p].token # t /\ export[p].storage # t /\ t \notin export[p].cleanup
  <2>1. t \notin files /\ t \notin RowOf(t).cleanup \cup sweep.keys
    BY <1>0, <1>1 DEF AttemptSound, Abandoned
  <2>2. ASSUME NEW p \in Exports
        PROVE  export[p].token # t /\ export[p].storage # t /\ t \notin export[p].cleanup
    <3>1. RowSound(p) /\ export[p] \in ExportRow
      BY <1>0
    <3>2. t \in export[p].cleanup => RowOf(t) = export[p]
      BY <3>1 DEF RowSound, RowOf
    <3> QED
      BY <1>1, <2>1, <3>1, <3>2 DEF RowSound, Used
  <2> QED
    BY <2>1, <2>2
<1>7. row.storage = NoToken
  BY <1>0, <1>2 DEF RowSound
<1>8. ASSUME NEW p \in Exports
      PROVE  RowSound(p)'
  <2>1. RowSound(p) /\ export[p] \in ExportRow
    BY <1>0
  <2>2. CASE p # e
    BY <1>2, <1>4, <1>5, <1>6, <2>1, <2>2 DEF RowSound, Used, ExportRow
  <2>3. CASE p = e
    <3>1. \A q \in new.cleanup : attempt'[q].export = e
      BY <1>3, <1>5, <1>6, <2>1, <2>3 DEF RowSound, ExportRow
    <3> QED
      BY <1>3, <1>5, <1>7, <2>3, <3>1 DEF RowSound, Used
  <2> QED
    BY <2>2, <2>3
<1>9. AttemptSound(t)'
  <2>1. Used(t)' /\ Mine(t)' /\ RowOf(t)' = new
    BY <1>3, <1>5 DEF Used, Mine, RowOf
  <2>2. t \notin new.cleanup
    BY <1>3, <1>6
  <2> QED
    BY <1>2, <1>5, <1>6, <2>1, <2>2 DEF AttemptSound
<1>10. ASSUME NEW q \in Tokens, q # t
       PROVE  AttemptSound(q)'
  <2> DEFINE p == attempt[q].export
  <2>1. /\ p \in Exports /\ AttemptSound(q) /\ RowOf(q) = export[p] /\ RowSound(p)
        /\ export[p] \in ExportRow /\ RowOf(q)' = export'[p]
        /\ attempt[q].export = p /\ attempt'[q].export = p /\ attempt'[q].step = attempt[q].step
    BY <1>0, <1>5, <1>10 DEF RowOf
  <2> HIDE DEF p
  <2>2. CASE p # e
    BY <1>2, <1>4, <2>1, <2>2 DEF AttemptSound, Used, Abandoned, Mine, Published, Accounted
  <2>3. CASE p = e
    <3>1. ~Mine(q) /\ ~Mine(q)' /\ ~Published(q)'
      BY <1>2, <1>3, <1>10, <2>1, <2>3 DEF Mine, Published
    <3>2. q \in new.cleanup => Used(q)
      BY <1>3, <2>1, <2>3 DEF RowSound, AttemptSound, Abandoned
    <3>3. q \in files' \ overtaken' => Accounted(q)'
      BY <1>2, <1>3, <2>1, <2>3 DEF AttemptSound, Accounted
    <3>4. /\ Used(q)' = Used(q)
          /\ q \in files => Used(q)
          /\ q \in sweep.keys => Used(q)
          /\ attempt[q].step \in EarlySteps => q \in overtaken
      BY <2>1, <3>1 DEF AttemptSound, Used, Abandoned
    <3> QED
      BY <1>2, <2>1, <2>3, <3>1, <3>2, <3>3, <3>4 DEF AttemptSound, Abandoned
  <2> QED
    BY <2>2, <2>3
<1> QED
  BY <1>8, <1>9, <1>10 DEF ExportInv

\* A publication shows a file that is there, and that nothing will delete.
LEMMA PublishSound ==
  ASSUME ExportInv, ExportTypeOK', NEW t \in Tokens, PublishFile(t), Mine(t), ~RowOf(t).past
  PROVE  ExportInv'
<1> USE NoTokenIsNone
<1> DEFINE e == attempt[t].export
<1>0. /\ ExportTypeOK /\ \A p \in Exports : RowSound(p) /\ export[p] \in ExportRow
      /\ \A q \in Tokens : AttemptSound(q)
      /\ export \in [Exports -> ExportRow] /\ attempt \in [Tokens -> AttemptState]
      /\ files \subseteq Tokens
      /\ \A q \in Tokens : attempt[q].export \in Exports
  BY DEF ExportInv, ExportTypeOK, AttemptState
<1>1. /\ e \in Exports /\ export[e].status = "RUNNING" /\ export[e].token = t
      /\ attempt[t].export = e /\ attempt[t].step = "saved"
  BY <1>0 DEF Mine, PublishFile
<1>2. /\ export' = [export EXCEPT ![e].status = "COMPLETED", ![e].token = NoToken,
                                  ![e].storage = t, ![e].cleanup = @ \ {t}]
      /\ attempt' = [attempt EXCEPT ![t].step = "over"]
      /\ files' = files /\ sweep' = sweep /\ overtaken' = overtaken
  BY DEF PublishFile, RowOf, Over, At
<1>f. files' = files /\ sweep' = sweep /\ overtaken' = overtaken
  BY <1>2
<1> HIDE DEF e
<1> DEFINE row == export[e]  new == export'[e]
<1>3. /\ new.status = "COMPLETED" /\ new.token = NoToken /\ new.storage = t
      /\ new.cleanup = row.cleanup \ {t}
      /\ \A p \in Exports : p # e => export'[p] = export[p]
  BY <1>0, <1>1, <1>2 DEF ExportRow
<1>4. /\ attempt'[t].step = "over" /\ attempt'[t].export = e
      /\ \A q \in Tokens : q # t => attempt'[q] = attempt[q]
      /\ \A q \in Tokens : attempt'[q].export = attempt[q].export
      /\ \A q \in Tokens : attempt'[q].step # "unused" <=> attempt[q].step # "unused"
  BY <1>0, <1>1, <1>2 DEF AttemptState
<1>5. t \in files /\ Used(t) /\ t \notin row.cleanup \cup sweep.keys
  <2>1. AttemptSound(t) /\ RowOf(t) = row
    BY <1>0, <1>1 DEF RowOf
  <2> QED
    BY <1>1, <2>1 DEF AttemptSound, Used, Abandoned
<1>6. ASSUME NEW p \in Exports
      PROVE  RowSound(p)'
  <2>1. RowSound(p) /\ export[p] \in ExportRow
    BY <1>0
  <2>2. CASE p # e
    <3>1. export[p].storage # t
      BY <1>1, <2>1, <2>2 DEF RowSound
    <3>2. export'[p] = export[p]
      BY <1>3, <2>2
    <3>3. export[p].token # NoToken => attempt'[export[p].token].step # "unused"
                                       /\ attempt'[export[p].token].export = p
      BY <1>4, <2>1 DEF RowSound, Used, ExportRow
    <3>4. export[p].storage # NoToken => attempt'[export[p].storage] = attempt[export[p].storage]
      BY <1>4, <2>1, <3>1 DEF ExportRow
    <3>5. \A q \in export[p].cleanup : attempt'[q].export = p
      BY <1>4, <2>1 DEF RowSound, ExportRow
    <3> QED
      BY <1>f, <2>1, <3>2, <3>3, <3>4, <3>5 DEF RowSound, Used
  <2>3. CASE p = e
    <3>1. \A q \in new.cleanup : attempt'[q].export = e
      BY <1>3, <1>4, <2>1, <2>3 DEF RowSound, ExportRow
    <3>2. t \in Tokens /\ t # NoToken
      OBVIOUS
    <3> QED
      BY <1>f, <1>3, <1>4, <1>5, <2>3, <3>1, <3>2 DEF RowSound
  <2> QED
    BY <2>2, <2>3
<1>7. AttemptSound(t)'
  <2>1. Used(t)' /\ ~Mine(t)' /\ RowOf(t)' = new /\ Accounted(t)'
    BY <1>3, <1>4, <1>5 DEF Used, Mine, RowOf, Accounted
  <2>2. t \notin new.cleanup \cup sweep'.keys
    BY <1>2, <1>3, <1>5
  <2> QED
    BY <1>4, <2>1, <2>2 DEF AttemptSound, EarlySteps
<1>8. ASSUME NEW q \in Tokens, q # t
      PROVE  AttemptSound(q)'
  <2> DEFINE p == attempt[q].export
  <2>1. /\ p \in Exports /\ AttemptSound(q) /\ RowOf(q) = export[p] /\ RowSound(p)
        /\ export[p] \in ExportRow /\ RowOf(q)' = export'[p]
        /\ attempt[q].export = p /\ attempt'[q].export = p /\ attempt'[q].step = attempt[q].step
    BY <1>0, <1>4, <1>8 DEF RowOf
  <2> HIDE DEF p
  <2>2. CASE p # e
    <3>1. export'[p] = export[p]
      BY <1>3, <2>1, <2>2
    <3>2. /\ RowOf(q)' = RowOf(q) /\ (Used(q)' <=> Used(q)) /\ (Mine(q)' <=> Mine(q))
          /\ (Published(q)' <=> Published(q))
      BY <2>1, <3>1 DEF Used, Mine, Published
    <3>3. (Abandoned(q)' <=> Abandoned(q)) /\ (Accounted(q)' <=> Accounted(q))
      BY <3>2 DEF Abandoned, Accounted
    <3> QED
      BY <1>2, <2>1, <3>2, <3>3 DEF AttemptSound
  <2>3. CASE p = e
    <3>1. ~Mine(q) /\ ~Mine(q)' /\ ~Published(q)'
      BY <1>1, <1>3, <1>8, <2>1, <2>3 DEF Mine, Published
    <3>2. q \in new.cleanup => Used(q)
      BY <1>3, <2>1, <2>3 DEF RowSound, AttemptSound, Abandoned
    <3>3. q \in files' \ overtaken' => Accounted(q)'
      <4>1. row.storage = NoToken
        BY <1>1, <2>1, <2>3 DEF RowSound
      <4> QED
        BY <1>1, <1>2, <1>3, <1>8, <2>1, <2>3, <4>1 DEF AttemptSound, Accounted
    <3>4. /\ Used(q)' = Used(q)
          /\ q \in files => Used(q)
          /\ q \in sweep.keys => Used(q)
          /\ attempt[q].step \in EarlySteps => q \in overtaken
      BY <2>1, <3>1 DEF AttemptSound, Used, Abandoned
    <3> QED
      BY <1>2, <2>1, <2>3, <3>1, <3>2, <3>3, <3>4 DEF AttemptSound, Abandoned
  <2> QED
    BY <2>2, <2>3
<1> QED
  BY <1>6, <1>7, <1>8 DEF ExportInv

\* Every step of the pipeline preserves the invariant of the exports.
LEMMA ExportsPreserved == ExportInv /\ [Next]_vars => ExportInv'
<1> SUFFICES ASSUME ExportInv, [Next]_vars PROVE ExportInv'
  OBVIOUS
<1>1. CASE ExportNext
  <2>1. ExportTypeOK'
    BY <1>1, ExportTypes
  <2>2. ASSUME NEW e \in Exports, NEW n \in 0..ExportRetries, ClaimExport(e, n)
        PROVE  ExportInv'
    BY <2>1, <2>2, ClaimSound
  <2>3. ASSUME NEW e \in Exports, NEW n \in 0..ExportRetries,
               \/ RequestExport(e) \/ RetentionEnds(e) \/ Overtake(e) \/ RecoverExport(e)
               \/ ExpireExport(e) \/ ClaimErrs(e, n) \/ ReceiveNothingToDo(e, n)
        PROVE  ExportInv'
    <3>1. (\A p \in Exports : RowMoves(p)) /\ (\A t \in Tokens : AttemptMoves(t))
      BY <2>3, RowStepMoves
    <3> QED
      BY <2>1, <3>1, MovesSound
  <2>4. ASSUME (\E e \in Exports : DeleteExpired(e) \/ StartSweep(e))
                 \/ (\E t \in Tokens : SweepKey(t)) \/ EndSweep
        PROVE  ExportInv'
    <3>1. (\A p \in Exports : RowMoves(p)) /\ (\A t \in Tokens : AttemptMoves(t))
      BY <2>1, <2>4, BeatMoves
    <3> QED
      BY <2>1, <3>1, MovesSound
  <2>5. ASSUME NEW t \in Tokens, AttemptStep(t) \/ AttemptErrs(t) \/ ExportWorkerLost(t)
        PROVE  ExportInv'
    <3>1. CASE PublishFile(t) /\ Mine(t) /\ ~RowOf(t).past
      BY <2>1, <3>1, PublishSound
    <3>2. CASE ~(PublishFile(t) /\ Mine(t) /\ ~RowOf(t).past)
      <4>1. \/ SaveFile(t) \/ AttemptErrs(t) \/ DropRefused(t) \/ DropAfterError(t)
            \/ ReleaseRow(t) \/ RetryOrFail(t) \/ ExportWorkerLost(t)
            \/ PublishFile(t) /\ ~(Mine(t) /\ ~RowOf(t).past)
        BY <2>5, <3>2 DEF AttemptStep
      <4>2. (\A p \in Exports : RowMoves(p)) /\ (\A q \in Tokens : AttemptMoves(q))
        BY <4>1, AttemptStepMoves
      <4> QED
        BY <2>1, <4>2, MovesSound
    <3> QED
      BY <3>1, <3>2
  <2>6. 0 \in 0..ExportRetries
    BY ExportBounds
  <2> QED
    BY <1>1, <2>2, <2>3, <2>4, <2>5, <2>6 DEF ExportNext, ExportWorkers, Deliver, Beat, Sweeper
<1>2. CASE UNCHANGED exportVars
  <2>1. /\ export' = export /\ attempt' = attempt /\ files' = files /\ sweep' = sweep
        /\ overtaken' = overtaken /\ exportQueue' = exportQueue
    BY <1>2 DEF exportVars
  <2>2. ExportTypeOK /\ ExportTypeOK'
    BY <2>1 DEF ExportInv, ExportTypeOK
  <2>3. (\A p \in Exports : RowMoves(p)) /\ (\A q \in Tokens : AttemptMoves(q))
    BY <2>1, <2>2, RowsStay, AttemptsStay
  <2> QED
    BY <2>2, <2>3, MovesSound
<1> QED
  BY <1>1, <1>2 DEF Next, Capturing, Exporting, Extracting, Curating, vars

\* Rows and storage agree for any number of exports and attempts, whatever stale attempts,
\* sweeps, failures and recoveries do (exports.py:206, 274, 280, 574).
THEOREM ExportsCorrect == Spec => []StorageAgrees
<1>1. ExportInv => StorageAgrees
  <2> SUFFICES ASSUME ExportInv PROVE StorageAgrees
    OBVIOUS
  <2>1. PublishedFileExists
    BY DEF ExportInv, RowSound, PublishedFileExists
  <2>2. files \subseteq Tokens
    BY DEF ExportInv, ExportTypeOK
  <2>3. FilesAccounted
    BY <2>2 DEF ExportInv, AttemptSound, Accounted, RowOf, FilesAccounted
  <2> QED
    BY <2>1, <2>3 DEF StorageAgrees
<1> QED
  BY ExportStart, ExportsPreserved, <1>1, PTL DEF Spec

-----------------------------------------------------------------------------
(* Analytics extraction: cursors *)

\* The parts of a cursor are numbers.
LEMMA CursorParts ==
  ASSUME NEW c \in Cursor
  PROVE  c[1] \in 0..MaxTime /\ c[1] \in Nat /\ c[2] \in Nat /\ c = <<c[1], c[2]>>
<1>1. PICK a \in 0..MaxTime, b \in Snapshots \cup {0} : c = <<a, b>>
  BY DEF Cursor
<1>2. c[1] = a /\ c[2] = b /\ b \in Nat
  BY <1>1, SnapshotsAreOrdered
<1> QED
  BY <1>1, <1>2, SnapshotBounds

\* The cursor of a snapshot is one.
LEMMA CursorOfSnapshot ==
  ASSUME SnapshotTypeOK, NEW s \in Snapshots
  PROVE  /\ CursorOf(s) \in Cursor
         /\ CursorOf(s)[1] = snapshot[s].generatedAt /\ CursorOf(s)[2] = s
         /\ snapshot[s].generatedAt \in Nat
<1>1. snapshot[s].generatedAt \in 0..MaxTime
  BY DEF SnapshotTypeOK, SnapshotRow
<1> QED
  BY <1>1, SnapshotBounds DEF CursorOf, Cursor

\* No cursor comes before NoCursor.
LEMMA NoCursorIsFirst ==
  /\ NoCursor \in Cursor /\ NoCursor[1] = 0
  /\ \A c \in Cursor : ~Before(c, NoCursor) /\ (~Before(NoCursor, c) => c = NoCursor)
<1>1. NoCursor \in Cursor /\ NoCursor[1] = 0 /\ NoCursor[2] = 0
  BY SnapshotBounds DEF NoCursor, Cursor
<1>2. ASSUME NEW c \in Cursor
      PROVE  ~Before(c, NoCursor) /\ (~Before(NoCursor, c) => c = NoCursor)
  <2>1. ~Before(c, NoCursor)
    BY <1>1, CursorParts DEF Before
  <2>2. ASSUME ~Before(NoCursor, c) PROVE c = NoCursor
    <3>1. c[1] = 0 /\ c[2] = 0
      BY <1>1, <2>2, CursorParts DEF Before
    <3> QED
      BY <3>1, CursorParts DEF NoCursor
  <2> QED
    BY <2>1, <2>2
<1> QED
  BY <1>1, <1>2

\* not before is a total order
LEMMA CursorOrder ==
  ASSUME NEW a \in Cursor, NEW b \in Cursor, NEW c \in Cursor
  PROVE  /\ ~Before(a, a)
         /\ ~Before(a, b) /\ ~Before(b, c) => ~Before(a, c)
         /\ ~Before(a, b) => b[1] <= a[1]
         /\ Before(a, b) => a[1] <= b[1] /\ ~Before(b, a)
BY CursorParts DEF Before

\* Some cursors, at least one, have a latest.
LEMMA LatestCursor ==
  ASSUME NEW S \in SUBSET Cursor, S # {}
  PROVE  \E c \in S : \A b \in S : ~Before(c, b)
<1>1. PICK last \in Nat : \A s \in Snapshots : s <= last
  BY SnapshotsAreOrdered
<1> DEFINE times == {c[1] : c \in S}
<1>2. times \in SUBSET (0..MaxTime) /\ times # {}
  BY CursorParts
<1>3. MaxTime \in Nat
  BY SnapshotBounds
<1>4. PICK m \in times : \A t \in times : t <= m
  BY <1>2, <1>3, GreatestExists
<1> DEFINE keys == {c[2] : c \in {e \in S : e[1] = m}}
<1>5. keys # {}
  <2>1. PICK c \in S : c[1] = m
    BY <1>4
  <2> QED
    BY <2>1
<1>6. keys \in SUBSET (0..last)
  <2>1. ASSUME NEW c \in Cursor PROVE c[2] \in 0..last
    <3>1. PICK a \in 0..MaxTime, b \in Snapshots \cup {0} : c = <<a, b>>
      BY DEF Cursor
    <3> QED
      BY <1>1, <3>1, SnapshotsAreOrdered
  <2> QED
    BY <2>1
<1>7. PICK k \in keys : \A j \in keys : j <= k
  BY <1>5, <1>6, GreatestExists
<1>8. PICK c \in S : c[1] = m /\ c[2] = k
  BY <1>7
<1>9. ASSUME NEW b \in S
      PROVE  ~Before(c, b)
  <2>1. b[1] <= m /\ (b[1] = m => b[2] <= k)
    BY <1>4, <1>7
  <2>2. b[1] \in Nat /\ b[2] \in Nat /\ c[1] \in Nat /\ c[2] \in Nat
    BY CursorParts
  <2> HIDE DEF times, keys
  <2> QED
    BY <1>8, <2>1, <2>2 DEF Before
<1> QED
  BY <1>8, <1>9

-----------------------------------------------------------------------------
(* Analytics extraction: the steps *)

\* Nothing is extracted in the initial states.
LEMMA ExtractionStart == Init => ExtractionInv
<1> SUFFICES ASSUME Init PROVE ExtractionInv
  OBVIOUS
<1> USE SnapshotsAreOrdered, SnapshotBounds, DatasetOfSnapshot, RunsHaveKeys
<1> DEFINE none == CHOOSE d \in Datasets : TRUE
           key == CHOOSE k \in RunKeys : TRUE
<1>1. none \in Datasets /\ key \in RunKeys
  OBVIOUS
<1>2. /\ checkpoint = [d \in Datasets |-> [mark |-> NoCursor, token |-> NoExtraction]]
      /\ run = [r \in Datasets \X RunKeys |->
                  [status |-> "ABSENT", token |-> NoExtraction, full |-> FALSE]]
      /\ extraction \in [Extractions -> [step : {"unused"}, dataset : {none}, key : {key},
                                         current : {NoCursor}, high : {NoCursor}, content : {{}},
                                         there : {{}}]]
      /\ publication = <<>>
  BY DEF Init, ExtractionInit
<1> HIDE DEF none, key
<1>3. \A x \in Extractions : extraction[x] \in ExtractionState /\ extraction[x].step = "unused"
  BY <1>1, <1>2, NoCursorIsFirst DEF ExtractionState
<1>4. ExtractionTypeOK
  <2>1. checkpoint \in [Datasets -> [mark : Cursor, token : Extractions \cup {NoExtraction}]]
    BY <1>2, NoCursorIsFirst
  <2>2. run \in [Datasets \X RunKeys -> RunRow]
    BY <1>2 DEF RunRow
  <2>3. publication \in Seq(PublicationRow)
    BY <1>2
  <2> QED
    BY <1>2, <1>3, <2>1, <2>2, <2>3 DEF ExtractionTypeOK
<1>5. SnapshotTypeOK /\ now \in Nat
  BY SnapshotStart DEF SnapshotInv, SnapshotTypeOK
<1>6. ASSUME NEW d \in Datasets
      PROVE  DatasetSound(d)
  <2>1. checkpoint[d].mark = NoCursor /\ checkpoint[d].token = NoExtraction
    BY <1>2
  <2>2. ASSUME NEW s \in Visible(d)
        PROVE  ~(snapshot[s].generatedAt + Overlap < NoCursor[1])
    <3>1. s \in Snapshots
      BY DEF Visible
    <3>2. snapshot[s].generatedAt \in Nat /\ NoCursor[1] = 0 /\ Overlap \in Nat
      BY <1>5, <3>1, CursorOfSnapshot, NoCursorIsFirst, OverlapCoversCapture
    <3> QED
      BY <3>2
  <2> QED
    BY <1>5, <2>1, <2>2, NoCursorIsFirst DEF DatasetSound, MarkOf
<1>7. \A x \in Extractions : ExtractionSound(x)
  BY <1>3 DEF ExtractionSound
<1>8. DOMAIN publication = {}
  BY <1>2
<1>9. TimesPast
  <2>1. \A s \in Snapshots : Completed(s) => snapshot[s].generatedAt = 1
    BY DEF Init, SnapshotInit, Completed
  <2>2. now = 1
    BY DEF Init, SnapshotInit
  <2> QED
    BY <2>1, <2>2 DEF TimesPast
<1> QED
  BY <1>4, <1>6, <1>7, <1>8, <1>9 DEF ExtractionInv

\* Time goes on, completed snapshots stay, and one that appears bears a time that the
\* overlap reaches.
Grown ==
  /\ now <= now'
  /\ \A s \in Snapshots : Completed(s) => snapshot'[s] = snapshot[s]
  /\ \A s \in Snapshots : Completed(s)' /\ ~Completed(s) =>
       /\ snapshot'[s].generatedAt <= now'
       /\ now' <= snapshot'[s].generatedAt + Overlap

\* A step of the captures only completes snapshots, no later than Overlap after their time.
LEMMA SnapshotsGrow == SnapshotInv /\ SnapshotNext => Grown
<1> SUFFICES ASSUME SnapshotInv, SnapshotNext PROVE Grown
  OBVIOUS
<1> USE SnapshotBounds, OverlapCoversCapture
<1>0. /\ \A w \in Workers : CaptureSound(w) /\ worker[w] \in WorkerState
      /\ snapshot \in [Snapshots -> SnapshotRow] /\ now \in Nat
  BY DEF SnapshotInv, SnapshotTypeOK
<1>1. \A s \in Snapshots : Completed(s) => snapshot'[s] = snapshot[s]
  BY CompletedKept
<1>2. now' = now \/ now' = now + 1
  BY DEF SnapshotNext, SnapshotStep, RequestSnapshot, StartSnapshot, Capture, CompleteSnapshot,
         SnapshotTaskFails, RetrySnapshot, FailSnapshot, SnapshotWorkerLost, SnapshotTaskLost, Tick
<1>3. ASSUME NEW s \in Snapshots, Completed(s)', ~Completed(s)
      PROVE  snapshot'[s].generatedAt <= now' /\ now' <= snapshot'[s].generatedAt + Overlap
  <2>1. ASSUME NEW w \in Workers, CompleteSnapshot(w)
        PROVE  snapshot'[s].generatedAt <= now' /\ now' <= snapshot'[s].generatedAt + Overlap
    <3>1. s = worker[w].snapshot /\ Captures(w)
      BY <1>0, <1>3, <2>1 DEF CompleteSnapshot, Completed, Captures
    <3>2. snapshot'[s].generatedAt = worker[w].at /\ now' = now
      BY <1>0, <2>1, <3>1 DEF CompleteSnapshot
    <3>3. /\ worker[w].at <= now /\ now <= worker[w].at + CaptureLimit
          /\ worker[w].at \in Nat
      BY <1>0, <3>1 DEF CaptureSound, WorkerState
    <3> QED
      BY <1>0, <3>2, <3>3
  <2>2. ASSUME NEW r \in Snapshots, RequestSnapshot(r) PROVE FALSE
    BY <1>0, <1>3, <2>2 DEF RequestSnapshot, Completed, SnapshotRow
  <2>3. ASSUME NEW w \in Workers, NEW r \in Snapshots, NEW n \in 0..SnapshotRetries,
               StartSnapshot(w, r, n)
        PROVE  FALSE
    BY <1>0, <1>3, <2>3 DEF StartSnapshot, Completed, SnapshotRow
  <2>4. ASSUME NEW w \in Workers, FailSnapshot(w) PROVE FALSE
    BY <1>0, <1>3, <2>4 DEF FailSnapshot, Completed, SnapshotRow
  <2>5. \A w \in Workers : \/ Capture(w) \/ RetrySnapshot(w) \/ SnapshotTaskFails(w)
                           \/ SnapshotWorkerLost(w) \/ SnapshotTaskLost(w)
          => snapshot' = snapshot
    BY DEF Capture, RetrySnapshot, SnapshotTaskFails, SnapshotWorkerLost, SnapshotTaskLost
  <2>6. Tick => snapshot' = snapshot
    BY DEF Tick
  <2>7. snapshot' # snapshot
    BY <1>3 DEF Completed
  <2> QED
    BY <2>1, <2>2, <2>3, <2>4, <2>5, <2>6, <2>7 DEF SnapshotNext, SnapshotStep
<1> QED
  BY <1>0, <1>1, <1>2, <1>3 DEF Grown

\* What is complete keeps a time that is over.
LEMMA TimesStayPast ==
  ASSUME SnapshotTypeOK, SnapshotTypeOK', Grown, TimesPast
  PROVE  TimesPast'
<1> SUFFICES ASSUME NEW s \in Snapshots, Completed(s)' PROVE snapshot'[s].generatedAt <= now'
  BY DEF TimesPast
<1>1. now \in Nat /\ now' \in Nat /\ now <= now' /\ snapshot'[s].generatedAt \in Nat
  BY SnapshotBounds DEF SnapshotTypeOK, SnapshotRow, Grown
<1>2. CASE Completed(s)
  <2>1. snapshot'[s].generatedAt <= now
    BY <1>2 DEF TimesPast, Grown
  <2> QED
    BY <1>1, <2>1
<1>3. CASE ~Completed(s)
  BY <1>3 DEF Grown
<1> QED
  BY <1>2, <1>3

\* What extraction sees stays, with its cursor.
LEMMA VisibleGrows ==
  ASSUME SnapshotTypeOK, Grown, NEW d \in Datasets
  PROVE  /\ \A s \in Visible(d) : /\ s \in Snapshots /\ s \in Visible(d)'
                                  /\ snapshot'[s] = snapshot[s] /\ CursorOf(s)' = CursorOf(s)
         /\ \A s \in Visible(d)' : \/ s \in Visible(d)
                                   \/ now' <= snapshot'[s].generatedAt + Overlap
         /\ \A c : MarkOf(d, c) => c = NoCursor \/ \E s \in Visible(d)' : c = CursorOf(s)'
<1>1. ASSUME NEW s \in Visible(d)
      PROVE  /\ s \in Snapshots /\ s \in Visible(d)'
             /\ snapshot'[s] = snapshot[s] /\ CursorOf(s)' = CursorOf(s)
  BY <1>1 DEF Visible, Grown, CursorOf, Completed
<1>2. ASSUME NEW s \in Visible(d)'
      PROVE  \/ s \in Visible(d)
             \/ now' <= snapshot'[s].generatedAt + Overlap
  BY <1>2 DEF Visible, Grown
<1>3. ASSUME NEW c, MarkOf(d, c)
      PROVE  c = NoCursor \/ \E s \in Visible(d)' : c = CursorOf(s)'
  BY <1>1, <1>3 DEF MarkOf
<1> QED
  BY <1>1, <1>2, <1>3

Active == {"claimed", "high", "staged"}
\* an attempt goes on with what it claimed
GoesOn(x) ==
  /\ extraction'[x].dataset = extraction[x].dataset
  /\ extraction'[x].step = "unused" => extraction[x].step = "unused"
  /\ extraction'[x].step \in Active =>
       extraction[x].step \in Active /\ extraction'[x].current = extraction[x].current

ExtractedKept(d) == \A s \in Extracted(d) : s \in Extracted(d)'

\* A checkpoint a step leaves alone stays sound while snapshots complete.
LEMMA DatasetStays ==
  ASSUME ExtractionTypeOK, SnapshotTypeOK, SnapshotTypeOK', Grown, NEW d \in Datasets,
         DatasetSound(d), checkpoint'[d] = checkpoint[d], ExtractedKept(d),
         checkpoint[d].token # NoExtraction => GoesOn(checkpoint[d].token)
  PROVE  DatasetSound(d)'
<1> DEFINE mark == checkpoint[d].mark  x == checkpoint[d].token
<1>0. now \in Nat /\ now' \in Nat /\ now <= now' /\ Overlap \in Nat
  BY SnapshotBounds, OverlapCoversCapture DEF SnapshotTypeOK, Grown
<1>1. mark \in Cursor /\ mark[1] \in Nat
  BY CursorParts DEF ExtractionTypeOK
<1>2. mark[1] <= now'
  BY <1>0, <1>1 DEF DatasetSound
<1>3. mark = NoCursor \/ \E s \in Visible(d)' : mark = CursorOf(s)'
  BY VisibleGrows DEF DatasetSound
<1>4. ASSUME NEW s \in Visible(d)', snapshot'[s].generatedAt + Overlap < mark[1]
      PROVE  s \in Extracted(d)'
  <2>1. s \in Snapshots
    BY <1>4 DEF Visible
  <2>2. snapshot'[s].generatedAt \in Nat
    BY <2>1, SnapshotBounds DEF SnapshotTypeOK, SnapshotRow
  <2>3. s \in Visible(d)
    BY <1>0, <1>1, <1>2, <1>4, <2>2, VisibleGrows
  <2>4. s \in Extracted(d)
    BY <1>4, <2>3, VisibleGrows DEF DatasetSound
  <2> QED
    BY <2>4 DEF ExtractedKept
<1>5. ASSUME x # NoExtraction
      PROVE  /\ extraction'[x].dataset = d /\ extraction'[x].step # "unused"
             /\ extraction'[x].step \in Active => extraction'[x].current = mark
  BY <1>5 DEF DatasetSound, GoesOn, Active
<1> QED
  BY <1>2, <1>3, <1>4, <1>5 DEF DatasetSound, MarkOf, Active

\* So does an attempt ...
LEMMA AttemptStays ==
  ASSUME ExtractionTypeOK, SnapshotTypeOK, SnapshotTypeOK', Grown, NEW x \in Extractions,
         ExtractionSound(x), extraction'[x] = extraction[x]
  PROVE  ExtractionSound(x)'
<1> DEFINE t == extraction[x]  d == t.dataset
<1>0. now \in Nat /\ now' \in Nat /\ now <= now' /\ Overlap \in Nat
  BY SnapshotBounds, OverlapCoversCapture DEF SnapshotTypeOK, Grown
<1>1. d \in Datasets /\ t.high \in Cursor /\ t.high[1] \in Nat
  BY CursorParts DEF ExtractionTypeOK, ExtractionState
<1>2. /\ \A s \in Visible(d) : /\ s \in Visible(d)'
                               /\ snapshot'[s] = snapshot[s] /\ CursorOf(s)' = CursorOf(s)
      /\ \A c : MarkOf(d, c) => c = NoCursor \/ \E s \in Visible(d)' : c = CursorOf(s)'
  BY <1>1, VisibleGrows
<1>3. t.step \in Active => /\ t.there \subseteq Visible(d)'
                           /\ t.current = NoCursor \/ \E s \in Visible(d)' : t.current = CursorOf(s)'
  BY <1>2 DEF ExtractionSound, Active
<1>4. t.step \in {"high", "staged"} =>
        /\ t.high = NoCursor \/ \E s \in Visible(d)' : t.high = CursorOf(s)'
        /\ t.high[1] <= now' /\ ~Before(t.high, t.current)
        /\ \A s \in t.there : ~Before(t.high, CursorOf(s)')
  <2> SUFFICES ASSUME t.step \in {"high", "staged"}
               PROVE  /\ t.high = NoCursor \/ \E s \in Visible(d)' : t.high = CursorOf(s)'
                      /\ t.high[1] <= now' /\ ~Before(t.high, t.current)
                      /\ \A s \in t.there : ~Before(t.high, CursorOf(s)')
    OBVIOUS
  <2>1. /\ t.there \subseteq Visible(d) /\ MarkOf(d, t.high) /\ t.high[1] <= now
        /\ ~Before(t.high, t.current) /\ \A s \in t.there : ~Before(t.high, CursorOf(s))
    BY DEF ExtractionSound
  <2> HIDE DEF t, d
  <2>2. t.high[1] <= now'
    BY <1>0, <1>1, <2>1
  <2>3. \A s \in t.there : ~Before(t.high, CursorOf(s)')
    BY <1>2, <2>1
  <2> QED
    BY <1>2, <2>1, <2>2, <2>3
<1>5. t.step = "staged" =>
        /\ t.content \subseteq Visible(d)'
        /\ t.high # NoCursor => t.high[2] \in t.content
        /\ \A s \in t.content : ~Before(t.high, CursorOf(s)')
        /\ \A s \in t.there : s \in t.content \/ snapshot'[s].generatedAt + Overlap < t.current[1]
        /\ \A s \in Visible(d)' : \/ s \in t.content
                                  \/ t.high[1] <= snapshot'[s].generatedAt + Overlap
                                  \/ snapshot'[s].generatedAt + Overlap < t.current[1]
  <2> SUFFICES ASSUME t.step = "staged"
               PROVE  /\ t.content \subseteq Visible(d)'
                      /\ t.high # NoCursor => t.high[2] \in t.content
                      /\ \A s \in t.content : ~Before(t.high, CursorOf(s)')
                      /\ \A s \in t.there : \/ s \in t.content
                                            \/ snapshot'[s].generatedAt + Overlap < t.current[1]
                      /\ \A s \in Visible(d)' : \/ s \in t.content
                                                \/ t.high[1] <= snapshot'[s].generatedAt + Overlap
                                                \/ snapshot'[s].generatedAt + Overlap < t.current[1]
    OBVIOUS
  <2>1. /\ t.there \subseteq Visible(d) /\ t.high[1] <= now
        /\ t.content \subseteq Visible(d)
        /\ t.high # NoCursor => t.high[2] \in t.content
        /\ \A s \in t.content : ~Before(t.high, CursorOf(s))
        /\ \A s \in t.there : s \in t.content \/ snapshot[s].generatedAt + Overlap < t.current[1]
        /\ \A s \in Visible(d) : \/ s \in t.content
                                 \/ t.high[1] <= snapshot[s].generatedAt + Overlap
                                 \/ snapshot[s].generatedAt + Overlap < t.current[1]
    BY DEF ExtractionSound
  <2>2. \A s \in Visible(d)' : \/ s \in Visible(d)
                               \/ now' <= snapshot'[s].generatedAt + Overlap
    BY <1>1, VisibleGrows
  <2>3. \A s \in Visible(d)' : snapshot'[s].generatedAt \in Nat
    BY SnapshotBounds DEF SnapshotTypeOK, SnapshotRow, Visible
  <2> HIDE DEF t, d
  <2>4. \A s \in Visible(d)' : \/ s \in t.content
                               \/ t.high[1] <= snapshot'[s].generatedAt + Overlap
                               \/ snapshot'[s].generatedAt + Overlap < t.current[1]
    BY <1>0, <1>1, <1>2, <2>1, <2>2, <2>3
  <2>5. \A s \in t.content : ~Before(t.high, CursorOf(s)')
    BY <1>2, <2>1
  <2> QED
    BY <1>2, <2>1, <2>4, <2>5
<1> QED
  BY <1>3, <1>4, <1>5 DEF ExtractionSound, MarkOf, Active, Before

\* ... and a publication.
LEMMA PublicationStays ==
  ASSUME ExtractionTypeOK, SnapshotTypeOK, Grown, NEW i \in DOMAIN publication,
         PublicationSound(i), publication'[i] = publication[i],
         Mark(publication[i].dataset)' = Mark(publication[i].dataset)
  PROVE  PublicationSound(i)'
<1>0. publication[i] \in PublicationRow
  BY DEF ExtractionTypeOK
<1>1. publication[i].dataset \in Datasets
  BY <1>0 DEF PublicationRow
<1>2. \A s \in Visible(publication[i].dataset) : s \in Visible(publication[i].dataset)'
  BY <1>1, VisibleGrows
<1> QED
  BY <1>2 DEF PublicationSound, Mark, Before

\* Every step of the extraction keeps the types.
LEMMA ExtractionTypes ==
  ASSUME ExtractionTypeOK, SnapshotTypeOK, ExtractionNext
  PROVE  ExtractionTypeOK'
<1> DEFINE tokens == Extractions \cup {NoExtraction}
<1>0. /\ checkpoint \in [Datasets -> [mark : Cursor, token : tokens]]
      /\ run \in [Datasets \X RunKeys -> RunRow]
      /\ extraction \in [Extractions -> ExtractionState]
      /\ publication \in Seq(PublicationRow)
  BY DEF ExtractionTypeOK
<1>x. ASSUME NEW x \in Extractions
      PROVE  /\ extraction[x] \in ExtractionState
             /\ extraction[x].dataset \in Datasets /\ extraction[x].key \in RunKeys
             /\ RunOf(x) \in Datasets \X RunKeys
  BY <1>0 DEF ExtractionState, RunOf
<1>r. ASSUME NEW r \in Datasets \X RunKeys, NEW status \in {"COMPLETED", "FAILED"},
             run' = [run EXCEPT ![r].status = status]
      PROVE  run' \in [Datasets \X RunKeys -> RunRow]
  <2>0. run[r] \in RunRow
    BY <1>0
  <2>1. [run[r] EXCEPT !.status = status] \in RunRow
    BY <2>0 DEF RunRow
  <2>2. run' = [run EXCEPT ![r] = [run[r] EXCEPT !.status = status]]
    BY <1>0, <1>r
  <2> QED
    BY <1>0, <2>1, <2>2
<1>s. ASSUME NEW x \in Extractions, NEW step \in {"failed", "over"},
             extraction' = [extraction EXCEPT ![x].step = step]
      PROVE  extraction' \in [Extractions -> ExtractionState]
  BY <1>0, <1>s DEF ExtractionState
<1>u. \A x \in Extractions : \A new \in ExtractionState :
        extraction' = [extraction EXCEPT ![x] = new]
          => extraction' \in [Extractions -> ExtractionState]
  BY <1>0
<1>v. \A d \in Datasets : Visible(d) \in SUBSET Snapshots
  BY DEF Visible
<1>1. ASSUME NEW d \in Datasets, NEW k \in KeysFor(d), NEW full \in BOOLEAN,
             ClaimExtraction(d, k, full)
      PROVE  ExtractionTypeOK'
  <2>1. PICK x \in Extractions :
          /\ run' = [q \in DOMAIN run |->
               IF q = <<d, k>>
               THEN [status |-> "RUNNING", token |-> x, full |-> full]
               ELSE IF /\ q[1] = d /\ checkpoint[d].token # NoExtraction
                       /\ run[q].token = checkpoint[d].token /\ run[q].status = "RUNNING"
                    THEN [run[q] EXCEPT !.status = "SUPERSEDED"]
                    ELSE run[q]]
          /\ checkpoint' = [checkpoint EXCEPT ![d].token = x]
          /\ extraction' = [extraction EXCEPT ![x] =
               [step |-> "claimed", dataset |-> d, key |-> k, current |-> checkpoint[d].mark,
                high |-> NoCursor, content |-> {}, there |-> Visible(d)]]
    <3>1. (CHOOSE u \in UnusedExtractions : TRUE) \in Extractions
      BY <1>1 DEF ClaimExtraction, UnusedExtractions
    <3> QED
      BY <1>1, <3>1 DEF ClaimExtraction
  <2>2. k \in RunKeys
    BY DEF KeysFor
  <2>3. checkpoint' \in [Datasets -> [mark : Cursor, token : tokens]]
    BY <1>0, <2>1
  <2>4. \A q \in Datasets \X RunKeys : run'[q] \in RunRow
    <3> SUFFICES ASSUME NEW q \in Datasets \X RunKeys PROVE run'[q] \in RunRow
      OBVIOUS
    <3>1. [status |-> "RUNNING", token |-> x, full |-> full] \in RunRow
      BY DEF RunRow
    <3>2. [run[q] EXCEPT !.status = "SUPERSEDED"] \in RunRow
      BY <1>0, SMTT(30) DEF RunRow
    <3>3. run[q] \in RunRow
      BY <1>0
    <3>4. \/ run'[q] = [status |-> "RUNNING", token |-> x, full |-> full]
          \/ run'[q] = [run[q] EXCEPT !.status = "SUPERSEDED"]
          \/ run'[q] = run[q]
      BY <1>0, <2>1
    <3> QED
      BY <3>1, <3>2, <3>3, <3>4, Zenon
  <2>5. run' \in [Datasets \X RunKeys -> RunRow]
    BY <1>0, <2>1, <2>4
  <2>6. checkpoint[d].mark \in Cursor
    BY <1>0
  <2>7. extraction' \in [Extractions -> ExtractionState]
    BY <1>0, <1>v, <2>1, <2>2, <2>6, NoCursorIsFirst DEF ExtractionState
  <2> QED
    BY <1>0, <1>1, <2>3, <2>5, <2>7 DEF ClaimExtraction, ExtractionTypeOK
<1>2. ASSUME NEW x \in Extractions, ReadHigh(x)
      PROVE  ExtractionTypeOK'
  <2> DEFINE here == {CursorOf(s) : s \in Visible(extraction[x].dataset)}
                       \cup {extraction[x].current}
  <2>1. here \in SUBSET Cursor /\ here # {}
    BY <1>v, <1>x, CursorOfSnapshot DEF ExtractionState
  <2>2. (CHOOSE c \in here : \A b \in here : ~Before(c, b)) \in Cursor
    <3> HIDE DEF here
    <3>1. \E c \in here : \A b \in here : ~Before(c, b)
      BY <2>1, LatestCursor
    <3> QED
      BY <2>1, <3>1
  <2>3. PICK high \in Cursor : extraction' = [extraction EXCEPT ![x].step = "high",
                                                                ![x].high = high]
    BY <1>2, <2>2 DEF ReadHigh
  <2>4. extraction' \in [Extractions -> ExtractionState]
    <3> DEFINE new == [extraction[x] EXCEPT !.step = "high", !.high = high]
    <3>1. extraction' = [extraction EXCEPT ![x] = new]
      BY <1>0, <2>3
    <3>2. extraction[x] \in ExtractionState
      BY <1>0
    <3>3. new \in ExtractionState
      BY <3>2 DEF ExtractionState
    <3> HIDE DEF new
    <3> QED
      BY <1>u, <3>1, <3>3
  <2> QED
    BY <1>0, <1>2, <2>4 DEF ReadHigh, ExtractionTypeOK
<1>3. ASSUME NEW x \in Extractions, StageOutput(x)
      PROVE  ExtractionTypeOK'
  <2>1. PICK content \in SUBSET Snapshots :
          extraction' = [extraction EXCEPT ![x].step = "staged", ![x].content = content]
    BY <1>3, <1>v, <1>x DEF StageOutput
  <2>2. extraction' \in [Extractions -> ExtractionState]
    <3> DEFINE new == [extraction[x] EXCEPT !.step = "staged", !.content = content]
    <3>1. extraction' = [extraction EXCEPT ![x] = new]
      BY <1>0, <2>1
    <3>2. extraction[x] \in ExtractionState
      BY <1>0
    <3>3. new \in ExtractionState
      BY <3>2 DEF ExtractionState
    <3> HIDE DEF new
    <3> QED
      BY <1>u, <3>1, <3>3
  <2> QED
    BY <1>0, <1>3, <2>2 DEF StageOutput, ExtractionTypeOK
<1>4. ASSUME NEW x \in Extractions, PublishExtraction(x)
      PROVE  ExtractionTypeOK'
  <2> DEFINE t == extraction[x]  d == extraction[x].dataset
             row == [dataset |-> d, key |-> t.key, high |-> t.high, content |-> t.content,
                     there |-> t.there]
  <2>1. CASE Owns(x)
    <3>1. /\ publication' = Append(publication, row)
          /\ run' = [run EXCEPT ![RunOf(x)].status = "COMPLETED"]
          /\ checkpoint' = [checkpoint EXCEPT ![d].token = NoExtraction,
                                              ![d].mark = IF t.high = NoCursor THEN @ ELSE t.high]
          /\ extraction' = [extraction EXCEPT ![x].step = "over"]
      BY <1>4, <2>1 DEF PublishExtraction
    <3>2. row \in PublicationRow
      BY <1>x DEF PublicationRow, ExtractionState
    <3>3. publication' \in Seq(PublicationRow)
      <4> HIDE DEF row
      <4> QED
        BY <1>0, <3>1, <3>2
    <3>4. run' \in [Datasets \X RunKeys -> RunRow]
      BY <1>r, <1>x, <3>1
    <3>5. extraction' \in [Extractions -> ExtractionState]
      BY <1>s, <3>1
    <3>6. t.high \in Cursor /\ d \in Datasets
      BY <1>x DEF ExtractionState
    <3>7. checkpoint' \in [Datasets -> [mark : Cursor, token : tokens]]
      <4> HIDE DEF t, d
      <4> QED
        BY <1>0, <3>1, <3>6
    <3> QED
      BY <3>3, <3>4, <3>5, <3>7 DEF ExtractionTypeOK
  <2>2. CASE ~Owns(x)
    BY <1>0, <1>4, <1>s, <2>2 DEF PublishExtraction, ExtractionTypeOK
  <2> QED
    BY <2>1, <2>2
<1>5. ASSUME NEW x \in Extractions, ExtractionErrs(x) \/ ExtractionLost(x)
      PROVE  ExtractionTypeOK'
  BY <1>0, <1>5, <1>s DEF ExtractionErrs, ExtractionLost, ExtractionTypeOK
<1>6. ASSUME NEW x \in Extractions, RecordFailure(x)
      PROVE  ExtractionTypeOK'
  <2>1. extraction' \in [Extractions -> ExtractionState]
    BY <1>6, <1>s DEF RecordFailure
  <2>2. run' \in [Datasets \X RunKeys -> RunRow]
    BY <1>0, <1>6, <1>r, <1>x DEF RecordFailure
  <2>3. checkpoint' \in [Datasets -> [mark : Cursor, token : tokens]]
    BY <1>0, <1>6, <1>x DEF RecordFailure
  <2> QED
    BY <1>0, <1>6, <2>1, <2>2, <2>3 DEF RecordFailure, ExtractionTypeOK
<1> QED
  BY <1>1, <1>2, <1>3, <1>4, <1>5, <1>6 DEF ExtractionNext

\* Steps that leave the snapshots alone are such steps.
LEMMA StillGrown == SnapshotTypeOK /\ UNCHANGED snapshotVars => Grown
<1> SUFFICES ASSUME SnapshotTypeOK, UNCHANGED snapshotVars PROVE Grown
  OBVIOUS
<1>1. now \in Nat /\ now' = now /\ snapshot' = snapshot
  BY SnapshotBounds DEF SnapshotTypeOK, snapshotVars
<1> QED
  BY <1>1 DEF Grown, Completed

\* Snapshots are captured, and the extraction rests.
LEMMA ExtractionRests ==
  ASSUME ExtractionInv, SnapshotTypeOK, SnapshotTypeOK', Grown, UNCHANGED extractionVars
  PROVE  ExtractionInv'
<1>0. /\ ExtractionTypeOK /\ \A d \in Datasets : DatasetSound(d)
      /\ \A x \in Extractions : ExtractionSound(x)
      /\ \A i \in DOMAIN publication : PublicationSound(i)
  BY DEF ExtractionInv
<1>1. checkpoint' = checkpoint /\ run' = run /\ extraction' = extraction
      /\ publication' = publication
  BY DEF extractionVars
<1>2. ExtractionTypeOK'
  BY <1>0, <1>1 DEF ExtractionTypeOK
<1>3. ASSUME NEW d \in Datasets PROVE DatasetSound(d)'
  <2>1. ExtractedKept(d)
    BY <1>1 DEF ExtractedKept, Extracted, PublicationsOf
  <2>2. GoesOn(checkpoint[d].token)
    BY <1>1 DEF GoesOn
  <2> QED
    BY <1>0, <1>1, <2>1, <2>2, DatasetStays
<1>4. ASSUME NEW x \in Extractions PROVE ExtractionSound(x)'
  BY <1>0, <1>1, AttemptStays
<1>5. ASSUME NEW i \in DOMAIN publication PROVE PublicationSound(i)'
  <2>1. Mark(publication[i].dataset)' = Mark(publication[i].dataset)
    BY <1>1 DEF Mark
  <2> QED
    BY <1>0, <1>1, <2>1, PublicationStays
<1>p. TimesPast'
  BY TimesStayPast DEF ExtractionInv
<1> QED
  BY <1>1, <1>2, <1>3, <1>4, <1>5, <1>p DEF ExtractionInv

\* A step of one attempt that touches no checkpoint and no publication.
LEMMA AttemptSteps ==
  ASSUME ExtractionInv, ExtractionTypeOK', SnapshotTypeOK, SnapshotTypeOK',
         UNCHANGED snapshotVars, checkpoint' = checkpoint, publication' = publication,
         NEW x \in Extractions, GoesOn(x),
         \A y \in Extractions : y # x => extraction'[y] = extraction[y],
         ExtractionSound(x)'
  PROVE  ExtractionInv'
<1>0. /\ ExtractionTypeOK /\ \A d \in Datasets : DatasetSound(d)
      /\ \A y \in Extractions : ExtractionSound(y)
      /\ \A i \in DOMAIN publication : PublicationSound(i)
  BY DEF ExtractionInv
<1>1. Grown
  BY StillGrown
<1>2. \A y \in Extractions : GoesOn(y)
  BY DEF GoesOn
<1>3. ASSUME NEW d \in Datasets PROVE DatasetSound(d)'
  <2>1. ExtractedKept(d)
    BY DEF ExtractedKept, Extracted, PublicationsOf
  <2>2. checkpoint[d].token # NoExtraction => checkpoint[d].token \in Extractions
    BY <1>0 DEF ExtractionTypeOK
  <2>3. checkpoint[d].token # NoExtraction => GoesOn(checkpoint[d].token)
    BY <1>2, <2>2
  <2>4. DatasetSound(d) /\ checkpoint'[d] = checkpoint[d]
    BY <1>0
  <2> QED
    BY <1>0, <1>1, <2>1, <2>3, <2>4, DatasetStays
<1>4. ASSUME NEW y \in Extractions PROVE ExtractionSound(y)'
  <2>1. CASE y = x
    BY <2>1
  <2>2. CASE y # x
    BY <1>0, <1>1, <2>2, AttemptStays
  <2> QED
    BY <2>1, <2>2
<1>5. ASSUME NEW i \in DOMAIN publication PROVE PublicationSound(i)'
  <2>1. Mark(publication[i].dataset)' = Mark(publication[i].dataset)
    BY DEF Mark
  <2> QED
    BY <1>0, <1>1, <2>1, PublicationStays
<1>p. TimesPast'
  BY <1>1, TimesStayPast DEF ExtractionInv
<1> QED
  BY <1>3, <1>4, <1>5, <1>p DEF ExtractionInv

\* The claim: the new attempt starts at the mark, with what is visible.
LEMMA ClaimExtractionSound ==
  ASSUME ExtractionInv, ExtractionTypeOK', SnapshotTypeOK, SnapshotTypeOK', NEW d \in Datasets,
         NEW k \in KeysFor(d), NEW full \in BOOLEAN, ClaimExtraction(d, k, full)
  PROVE  ExtractionInv'
<1>0. /\ ExtractionTypeOK /\ \A c \in Datasets : DatasetSound(c)
      /\ \A y \in Extractions : ExtractionSound(y)
      /\ \A i \in DOMAIN publication : PublicationSound(i)
      /\ checkpoint \in [Datasets -> [mark : Cursor, token : Extractions \cup {NoExtraction}]]
      /\ extraction \in [Extractions -> ExtractionState]
  BY DEF ExtractionInv, ExtractionTypeOK
<1>1. UNCHANGED snapshotVars /\ publication' = publication
  BY DEF ClaimExtraction
<1>2. Grown /\ snapshot' = snapshot
  BY <1>1, StillGrown DEF snapshotVars
<1>3. PICK x \in Extractions :
        /\ extraction[x].step = "unused"
        /\ checkpoint' = [checkpoint EXCEPT ![d].token = x]
        /\ extraction' = [extraction EXCEPT ![x] =
             [step |-> "claimed", dataset |-> d, key |-> k, current |-> checkpoint[d].mark,
              high |-> NoCursor, content |-> {}, there |-> Visible(d)]]
  <2>1. (CHOOSE u \in UnusedExtractions : TRUE) \in UnusedExtractions
    BY DEF ClaimExtraction
  <2> QED
    BY <2>1 DEF ClaimExtraction, UnusedExtractions
<1>4. /\ checkpoint'[d].token = x /\ checkpoint'[d].mark = checkpoint[d].mark
      /\ \A c \in Datasets : c # d => checkpoint'[c] = checkpoint[c]
      /\ \A c \in Datasets : checkpoint'[c].mark = checkpoint[c].mark
  BY <1>0, <1>3
<1>5. /\ extraction'[x].step = "claimed" /\ extraction'[x].dataset = d
      /\ extraction'[x].current = checkpoint[d].mark /\ extraction'[x].there = Visible(d)
      /\ \A y \in Extractions : y # x => extraction'[y] = extraction[y]
  BY <1>0, <1>3
<1>6. \A c \in Datasets : Visible(c)' = Visible(c) /\ Extracted(c)' = Extracted(c)
  BY <1>1, <1>2 DEF Visible, Completed, Extracted, PublicationsOf
<1>7. ASSUME NEW c \in Datasets, c # d PROVE DatasetSound(c)'
  <2>1. ExtractedKept(c)
    BY <1>6 DEF ExtractedKept
  <2>2. DatasetSound(c) /\ checkpoint'[c] = checkpoint[c]
    BY <1>0, <1>4, <1>7
  <2>3. checkpoint[c].token # NoExtraction => checkpoint[c].token \in Extractions \ {x}
    BY <1>0, <1>3, <2>2 DEF DatasetSound
  <2>4. checkpoint[c].token # NoExtraction => GoesOn(checkpoint[c].token)
    BY <1>5, <2>3 DEF GoesOn
  <2> QED
    BY <1>0, <1>2, <2>1, <2>2, <2>4, DatasetStays
<1>8. DatasetSound(d)'
  <2>1. DatasetSound(d) /\ now' = now
    BY <1>0, <1>1 DEF snapshotVars
  <2> QED
    BY <1>2, <1>4, <1>5, <1>6, <2>1 DEF DatasetSound, MarkOf, CursorOf
<1>9. ExtractionSound(x)'
  <2>1. MarkOf(d, checkpoint[d].mark)
    BY <1>0 DEF DatasetSound
  <2> QED
    BY <1>2, <1>5, <1>6, <2>1 DEF ExtractionSound, MarkOf, CursorOf
<1>10. ASSUME NEW y \in Extractions, y # x PROVE ExtractionSound(y)'
  BY <1>0, <1>2, <1>5, <1>10, AttemptStays
<1>11. ASSUME NEW i \in DOMAIN publication PROVE PublicationSound(i)'
  <2>0. publication[i] \in PublicationRow
    BY <1>0 DEF ExtractionTypeOK
  <2>1. publication[i].dataset \in Datasets
    BY <2>0 DEF PublicationRow
  <2>2. Mark(publication[i].dataset)' = Mark(publication[i].dataset)
    BY <1>1, <1>4, <2>1 DEF Mark
  <2> QED
    BY <1>0, <1>1, <1>2, <2>2, PublicationStays
<1>p. TimesPast'
  BY <1>2, TimesStayPast DEF ExtractionInv
<1> QED
  BY <1>1, <1>7, <1>8, <1>9, <1>10, <1>11, <1>p DEF ExtractionInv

\* The high mark is the newest snapshot that is visible, or the mark of the checkpoint.
LEMMA ReadHighSound ==
  ASSUME ExtractionInv, ExtractionTypeOK', SnapshotTypeOK, SnapshotTypeOK',
         NEW x \in Extractions, ReadHigh(x)
  PROVE  ExtractionInv'
<1>d. PICK d \in Datasets : extraction[x].dataset = d
  BY DEF ExtractionInv, ExtractionTypeOK, ExtractionState
<1> DEFINE t == extraction[x]
           here == {CursorOf(s) : s \in Visible(d)} \cup {t.current}
<1>0. /\ ExtractionTypeOK /\ ExtractionSound(x) /\ t \in ExtractionState
      /\ extraction \in [Extractions -> ExtractionState]
  BY DEF ExtractionInv, ExtractionTypeOK, ExtractionState
<1>1. UNCHANGED snapshotVars /\ checkpoint' = checkpoint /\ publication' = publication
  BY DEF ReadHigh
<1>2. snapshot' = snapshot /\ now' = now
  BY <1>1 DEF snapshotVars
<1>3. here \in SUBSET Cursor /\ here # {}
  BY <1>0, CursorOfSnapshot DEF ExtractionState, Visible
<1>4. \E c \in here : \A b \in here : ~Before(c, b)
  <2> HIDE DEF here
  <2> QED
    BY <1>3, LatestCursor
<1>5. PICK high \in here : /\ \A b \in here : ~Before(high, b)
                           /\ extraction' = [extraction EXCEPT ![x].step = "high", ![x].high = high]
  BY <1>4, <1>d DEF ReadHigh
<1>6. /\ t.step = "claimed" /\ t.there \subseteq Visible(d) /\ MarkOf(d, t.current)
  BY <1>0, <1>d DEF ReadHigh, ExtractionSound
<1>7. high = t.current \/ \E s \in Visible(d) : high = CursorOf(s)
  BY <1>5
<1>8. /\ ~Before(high, t.current)
      /\ \A s \in Visible(d) : ~Before(high, CursorOf(s))
  BY <1>5
<1>9. MarkOf(d, high)
  BY <1>6, <1>7 DEF MarkOf
<1>10. high \in Cursor
  BY <1>3
<1> HIDE DEF here
<1>11. /\ extraction'[x].step = "high" /\ extraction'[x].high = high
       /\ extraction'[x].dataset = d /\ extraction'[x].current = t.current
       /\ extraction'[x].there = t.there
       /\ \A y \in Extractions : y # x => extraction'[y] = extraction[y]
  BY <1>0, <1>5, <1>d DEF ExtractionState
<1>12. high[1] <= now
  <2>1. CASE high = NoCursor
    BY <2>1, NoCursorIsFirst DEF SnapshotTypeOK
  <2>2. CASE high # NoCursor
    <3>1. PICK s \in Visible(d) : high = CursorOf(s)
      BY <1>9, <2>2 DEF MarkOf
    <3>2. s \in Snapshots /\ Completed(s)
      BY DEF Visible
    <3>3. high[1] = snapshot[s].generatedAt
      BY <3>1, <3>2, CursorOfSnapshot
    <3> QED
      BY <3>2, <3>3 DEF ExtractionInv, TimesPast
  <2> QED
    BY <2>1, <2>2
<1> HIDE DEF t
<1>13. Visible(d)' = Visible(d) /\ \A s \in Visible(d) : CursorOf(s)' = CursorOf(s)
  BY <1>2 DEF Visible, Completed, CursorOf
<1>14. ExtractionSound(x)'
  BY <1>2, <1>6, <1>8, <1>9, <1>11, <1>12, <1>13 DEF ExtractionSound, MarkOf, Before
<1>15. GoesOn(x)
  BY <1>6, <1>11, <1>d DEF GoesOn, Active, t
<1> QED
  BY <1>1, <1>11, <1>14, <1>15, AttemptSteps

\* The output has every visible snapshot between the window's ends.
LEMMA StageSound ==
  ASSUME ExtractionInv, ExtractionTypeOK', SnapshotTypeOK, SnapshotTypeOK',
         NEW x \in Extractions, StageOutput(x)
  PROVE  ExtractionInv'
<1>d. PICK d \in Datasets : extraction[x].dataset = d
  BY DEF ExtractionInv, ExtractionTypeOK, ExtractionState
<1> DEFINE t == extraction[x]
           high == t.high
           previous == IF run[RunOf(x)].full THEN NoCursor ELSE t.current
           content == {s \in Visible(d) : InWindow(s, previous, high)}
<1>0. /\ ExtractionTypeOK /\ ExtractionSound(x) /\ t \in ExtractionState
      /\ extraction \in [Extractions -> ExtractionState]
  BY DEF ExtractionInv, ExtractionTypeOK
<1>1. UNCHANGED snapshotVars /\ checkpoint' = checkpoint /\ publication' = publication
  BY DEF StageOutput
<1>2. snapshot' = snapshot /\ now' = now
  BY <1>1 DEF snapshotVars
<1>3. /\ t.step = "high"
      /\ extraction' = [extraction EXCEPT ![x].step = "staged", ![x].content = content]
  BY <1>d DEF StageOutput
<1>4. /\ t.there \subseteq Visible(d) /\ MarkOf(d, t.current) /\ MarkOf(d, high)
      /\ high[1] <= now /\ ~Before(high, t.current)
      /\ \A s \in t.there : ~Before(high, CursorOf(s))
  BY <1>0, <1>3, <1>d DEF ExtractionSound
<1>5. high \in Cursor /\ t.current \in Cursor /\ high[1] \in Nat /\ Overlap \in Nat
  BY <1>0, CursorParts, OverlapCoversCapture DEF ExtractionState
<1>6. \A s \in content : s \in Visible(d) /\ ~Before(high, CursorOf(s))
  BY DEF InWindow
<1>7. ASSUME NEW s \in Visible(d), s \notin content
      PROVE  Before(high, CursorOf(s)) \/ snapshot[s].generatedAt + Overlap < t.current[1]
  <2>1. ~InWindow(s, previous, high)
    BY <1>7
  <2>2. snapshot[s].generatedAt \in Nat /\ t.current[1] \in Nat
    BY <1>5, CursorParts, CursorOfSnapshot DEF Visible
  <2>3. previous = NoCursor \/ previous = t.current
    OBVIOUS
  <2> HIDE DEF previous, content, t
  <2> QED
    BY <1>5, <2>1, <2>2, <2>3 DEF InWindow
<1>8. ASSUME high # NoCursor
      PROVE  high[2] \in content
  <2>1. PICK s \in Visible(d) : high = CursorOf(s)
    BY <1>4, <1>8 DEF MarkOf
  <2>2. s \in Snapshots
    BY DEF Visible
  <2>3. high[2] = s /\ high[1] = snapshot[s].generatedAt
    BY <2>1, <2>2, CursorOfSnapshot
  <2>4. ~Before(high, CursorOf(s)) /\ t.current[1] <= high[1] /\ t.current[1] \in Nat
    BY <1>4, <1>5, <2>1, CursorOrder, CursorParts
  <2>5. s \in content
    BY <1>5, <1>7, <2>3, <2>4
  <2> QED
    BY <2>3, <2>5
<1>9. ASSUME NEW s \in t.there
      PROVE  s \in content \/ snapshot[s].generatedAt + Overlap < t.current[1]
  BY <1>4, <1>7
<1>10. ASSUME NEW s \in Visible(d)
       PROVE  \/ s \in content
              \/ high[1] <= snapshot[s].generatedAt + Overlap
              \/ snapshot[s].generatedAt + Overlap < t.current[1]
  <2>1. s \in Snapshots
    BY DEF Visible
  <2>2. CursorOf(s) \in Cursor /\ CursorOf(s)[1] = snapshot[s].generatedAt
        /\ snapshot[s].generatedAt \in Nat
    BY <2>1, CursorOfSnapshot
  <2>3. Before(high, CursorOf(s)) => high[1] <= snapshot[s].generatedAt
    BY <1>5, <2>2, CursorOrder
  <2>4. Before(high, CursorOf(s)) => high[1] <= snapshot[s].generatedAt + Overlap
    BY <1>5, <2>2, <2>3
  <2> QED
    BY <1>7, <2>4
<1> HIDE DEF content, previous, high
<1>11. /\ extraction'[x].step = "staged" /\ extraction'[x].high = t.high
       /\ extraction'[x].dataset = d /\ extraction'[x].current = t.current
       /\ extraction'[x].there = t.there /\ extraction'[x].content = content
       /\ \A y \in Extractions : y # x => extraction'[y] = extraction[y]
  BY <1>0, <1>3, <1>d DEF ExtractionState
<1> HIDE DEF t
<1>13. Visible(d)' = Visible(d) /\ \A s \in Visible(d) : CursorOf(s)' = CursorOf(s)
  BY <1>2 DEF Visible, Completed, CursorOf
<1>14. ExtractionSound(x)'
  <2>1. extraction'[x].there \subseteq Visible(d)' /\ MarkOf(d, extraction[x].current)
    BY <1>4, <1>11, <1>13 DEF t
  <2>2. \A s \in content : CursorOf(s)' = CursorOf(s)
    BY <1>6, <1>13
  <2> QED
    BY <1>2, <1>4, <1>6, <1>8, <1>9, <1>10, <1>11, <1>13, <2>2
       DEF ExtractionSound, MarkOf, Before, high
<1>15. GoesOn(x)
  BY <1>3, <1>11, <1>d DEF GoesOn, Active, t
<1> QED
  BY <1>1, <1>11, <1>14, <1>15, AttemptSteps

\* An attempt that ends without a publication leaves the checkpoint or gives it up.
LEMMA EndSound ==
  ASSUME ExtractionInv, ExtractionTypeOK', SnapshotTypeOK, SnapshotTypeOK',
         NEW x \in Extractions, NEW d \in Datasets, extraction[x].dataset = d,
         extraction[x].step # "unused", UNCHANGED snapshotVars, publication' = publication,
         \E step \in {"failed", "over"} : extraction' = [extraction EXCEPT ![x].step = step],
         \/ checkpoint' = checkpoint
         \/ checkpoint' = [checkpoint EXCEPT ![d].token = NoExtraction]
  PROVE  ExtractionInv'
<1>0. /\ ExtractionTypeOK /\ \A c \in Datasets : DatasetSound(c)
      /\ \A y \in Extractions : ExtractionSound(y)
      /\ \A i \in DOMAIN publication : PublicationSound(i)
      /\ checkpoint \in [Datasets -> [mark : Cursor, token : Extractions \cup {NoExtraction}]]
      /\ extraction \in [Extractions -> ExtractionState]
  BY DEF ExtractionInv, ExtractionTypeOK
<1>1. /\ extraction'[x].step \in {"failed", "over"} /\ extraction'[x].dataset = d
      /\ \A y \in Extractions : y # x => extraction'[y] = extraction[y]
  BY <1>0 DEF ExtractionState
<1>2. Grown /\ snapshot' = snapshot /\ now' = now
  BY StillGrown DEF snapshotVars
<1>3. \A y \in Extractions : GoesOn(y)
  BY <1>1 DEF GoesOn, Active
<1>4. ExtractionSound(x)'
  BY <1>1 DEF ExtractionSound
<1>5. CASE checkpoint' = checkpoint
  BY <1>1, <1>3, <1>4, <1>5, AttemptSteps
<1>6. CASE checkpoint' = [checkpoint EXCEPT ![d].token = NoExtraction]
  <2>1. /\ checkpoint'[d].token = NoExtraction /\ checkpoint'[d].mark = checkpoint[d].mark
        /\ \A c \in Datasets : c # d => checkpoint'[c] = checkpoint[c]
        /\ \A c \in Datasets : checkpoint'[c].mark = checkpoint[c].mark
    BY <1>0, <1>6
  <2>2. \A c \in Datasets : Visible(c)' = Visible(c) /\ Extracted(c)' = Extracted(c)
    BY <1>2 DEF Visible, Completed, Extracted, PublicationsOf
  <2>3. ASSUME NEW c \in Datasets PROVE DatasetSound(c)'
    <3>1. CASE c # d
      <4>1. ExtractedKept(c) /\ DatasetSound(c) /\ checkpoint'[c] = checkpoint[c]
        BY <1>0, <2>1, <2>2, <3>1 DEF ExtractedKept
      <4>2. checkpoint[c].token # NoExtraction => GoesOn(checkpoint[c].token)
        BY <1>0, <1>3
      <4> QED
        BY <1>0, <1>2, <4>1, <4>2, DatasetStays
    <3>2. CASE c = d
      <4>1. DatasetSound(d)
        BY <1>0
      <4> QED
        BY <1>2, <2>1, <2>2, <3>2, <4>1 DEF DatasetSound, MarkOf, CursorOf
    <3> QED
      BY <3>1, <3>2
  <2>4. ASSUME NEW y \in Extractions PROVE ExtractionSound(y)'
    <3>1. CASE y # x
      BY <1>0, <1>1, <1>2, <3>1, AttemptStays
    <3> QED
      BY <1>4, <3>1
  <2>5. ASSUME NEW i \in DOMAIN publication PROVE PublicationSound(i)'
    <3>0. publication[i] \in PublicationRow
      BY <1>0 DEF ExtractionTypeOK
    <3>1. publication[i].dataset \in Datasets
      BY <3>0 DEF PublicationRow
    <3>2. Mark(publication[i].dataset)' = Mark(publication[i].dataset)
      BY <2>1, <3>1 DEF Mark
    <3> QED
      BY <1>0, <1>2, <3>2, PublicationStays
  <2>6. TimesPast'
    BY <1>2, TimesStayPast DEF ExtractionInv
  <2> QED
    BY <2>3, <2>4, <2>5, <2>6 DEF ExtractionInv
<1> QED
  BY <1>5, <1>6

\* What a publication does: p follows the others, and its high mark is the new mark.
Publishes(x, d, p) ==
  /\ p.dataset = d /\ p.high = extraction[x].high
  /\ p.content = extraction[x].content /\ p.there = extraction[x].there
  /\ DOMAIN publication = 1..Len(publication) /\ DOMAIN publication' = 1..(Len(publication) + 1)
  /\ publication'[Len(publication) + 1] = p
  /\ \A i \in DOMAIN publication : publication'[i] = publication[i]
  /\ extraction[x].step = "staged" /\ extraction[x].current = Mark(d)
  /\ extraction[x].dataset = d
  /\ extraction'[x].step = "over"
  /\ \A y \in Extractions : y # x => extraction'[y] = extraction[y]
  /\ checkpoint'[d].token = NoExtraction /\ checkpoint'[d].mark = p.high
  /\ \A c \in Datasets : c # d => checkpoint'[c] = checkpoint[c]

\* What a publishing step does, of the attempt that owns run and checkpoint.
LEMMA PublishEffect ==
  ASSUME ExtractionInv, NEW x \in Extractions, PublishExtraction(x), Owns(x)
  PROVE  \E d \in Datasets, p \in PublicationRow : Publishes(x, d, p)
<1> DEFINE t == extraction[x]
<1>0. /\ ExtractionTypeOK /\ t \in ExtractionState /\ ExtractionSound(x)
      /\ checkpoint \in [Datasets -> [mark : Cursor, token : Extractions \cup {NoExtraction}]]
      /\ extraction \in [Extractions -> ExtractionState]
      /\ publication \in Seq(PublicationRow)
  BY DEF ExtractionInv, ExtractionTypeOK
<1>1. PICK d \in Datasets : t.dataset = d
  BY <1>0 DEF ExtractionState
<1>2. PICK p \in PublicationRow :
        p = [dataset |-> d, key |-> t.key, high |-> t.high, content |-> t.content,
             there |-> t.there]
  <2>1. [dataset |-> d, key |-> t.key, high |-> t.high, content |-> t.content, there |-> t.there]
          \in PublicationRow
    BY <1>0 DEF ExtractionState, PublicationRow
  <2> QED
    BY <2>1
<1>3. /\ t.step = "staged"
      /\ publication' = Append(publication, p)
      /\ checkpoint' = [checkpoint EXCEPT ![d].token = NoExtraction,
                                          ![d].mark = IF t.high = NoCursor THEN @ ELSE t.high]
      /\ extraction' = [extraction EXCEPT ![x].step = "over"]
  BY <1>1, <1>2 DEF PublishExtraction
<1>4. checkpoint[d].token = x /\ x # NoExtraction
  BY <1>1, NoExtractionIsNone DEF Owns
<1>5. t.current = checkpoint[d].mark
  BY <1>3, <1>4 DEF ExtractionInv, DatasetSound
<1>6. ~Before(t.high, t.current) /\ t.high \in Cursor /\ t.current \in Cursor
  BY <1>0, <1>3 DEF ExtractionSound, ExtractionState
<1>7. t.high = NoCursor => checkpoint[d].mark = NoCursor
  BY <1>5, <1>6, NoCursorIsFirst
<1>8. /\ p.dataset = d /\ p.high = t.high /\ p.content = t.content /\ p.there = t.there
  BY <1>2
<1>9. /\ DOMAIN publication = 1..Len(publication)
      /\ DOMAIN publication' = 1..(Len(publication) + 1)
      /\ publication'[Len(publication) + 1] = p
      /\ \A i \in DOMAIN publication : publication'[i] = publication[i]
  BY <1>0, <1>3
<1> HIDE DEF t
<1>10. /\ checkpoint'[d].token = NoExtraction /\ checkpoint'[d].mark = p.high
       /\ \A c \in Datasets : c # d => checkpoint'[c] = checkpoint[c]
  BY <1>0, <1>3, <1>7, <1>8
<1>11. /\ extraction'[x].step = "over"
       /\ \A y \in Extractions : y # x => extraction'[y] = extraction[y]
  BY <1>0, <1>3 DEF ExtractionState
<1>12. Publishes(x, d, p)
  BY <1>1, <1>3, <1>5, <1>8, <1>9, <1>10, <1>11 DEF Publishes, Mark, t
<1> QED
  BY <1>12

\* A publication completes what was extracted up to the new mark.
LEMMA PublishKeepsWindow ==
  ASSUME ExtractionInv, SnapshotTypeOK, SnapshotTypeOK', UNCHANGED snapshotVars,
         NEW x \in Extractions, NEW d \in Datasets, NEW p \in PublicationRow, Publishes(x, d, p)
  PROVE  /\ \A c \in Datasets : ExtractedKept(c) /\ DatasetSound(c)'
         /\ \A s \in p.there : s \in p.content \/ s \in Extracted(d)
<1>0. /\ ExtractionTypeOK /\ \A c \in Datasets : DatasetSound(c)
      /\ ExtractionSound(x) /\ DatasetSound(d)
      /\ checkpoint \in [Datasets -> [mark : Cursor, token : Extractions \cup {NoExtraction}]]
  BY DEF ExtractionInv, ExtractionTypeOK
<1>1. Grown /\ snapshot' = snapshot /\ now' = now
  BY StillGrown DEF snapshotVars
<1>2. /\ p.content \subseteq Visible(d) /\ p.there \subseteq Visible(d)
      /\ MarkOf(d, p.high) /\ p.high[1] <= now
      /\ \A s \in p.there : s \in p.content \/ snapshot[s].generatedAt + Overlap < Mark(d)[1]
      /\ \A s \in Visible(d) : \/ s \in p.content
                               \/ p.high[1] <= snapshot[s].generatedAt + Overlap
                               \/ snapshot[s].generatedAt + Overlap < Mark(d)[1]
  BY <1>0 DEF ExtractionSound, Publishes
<1>3. \A s \in Visible(d) : snapshot[s].generatedAt + Overlap < Mark(d)[1] => s \in Extracted(d)
  BY <1>0 DEF DatasetSound, Mark
<1>4. /\ DOMAIN publication = 1..Len(publication) /\ DOMAIN publication' = 1..(Len(publication) + 1)
      /\ publication'[Len(publication) + 1] = p /\ p.dataset = d
      /\ \A i \in DOMAIN publication : publication'[i] = publication[i]
      /\ Len(publication) \in Nat
  BY <1>0 DEF Publishes, ExtractionTypeOK
<1>5. ASSUME NEW c \in Datasets PROVE ExtractedKept(c)
  <2> SUFFICES ASSUME NEW s \in Extracted(c) PROVE s \in Extracted(c)'
    BY DEF ExtractedKept
  <2>1. PICK i \in PublicationsOf(c) : s \in publication[i].content
    BY DEF Extracted
  <2>2. i \in PublicationsOf(c)' /\ publication'[i] = publication[i]
    BY <1>4, <2>1 DEF PublicationsOf
  <2> QED
    BY <2>1, <2>2 DEF Extracted
<1>6. \A s \in p.content : s \in Extracted(d)'
  <2>1. Len(publication) + 1 \in PublicationsOf(d)'
    BY <1>4 DEF PublicationsOf
  <2> QED
    BY <1>4, <2>1 DEF Extracted
<1>7. Visible(d)' = Visible(d) /\ \A s \in Visible(d) : CursorOf(s)' = CursorOf(s)
  BY <1>1 DEF Visible, Completed, CursorOf
<1>8. DatasetSound(d)'
  <2>1. checkpoint'[d].mark = p.high /\ checkpoint'[d].token = NoExtraction
    BY DEF Publishes
  <2>2. ASSUME NEW s \in Visible(d), snapshot[s].generatedAt + Overlap < p.high[1]
        PROVE  s \in Extracted(d)'
    <3>1. s \in Snapshots
      BY DEF Visible
    <3>2. snapshot[s].generatedAt \in Nat /\ p.high[1] \in Nat /\ Overlap \in Nat
      BY <3>1, CursorParts, CursorOfSnapshot, OverlapCoversCapture DEF PublicationRow
    <3>3. s \in p.content \/ s \in Extracted(d)
      BY <1>2, <1>3, <2>2, <3>2
    <3> QED
      BY <1>5, <1>6, <3>3 DEF ExtractedKept
  <2> QED
    BY <1>1, <1>2, <1>7, <2>1, <2>2 DEF DatasetSound, MarkOf
<1>9. ASSUME NEW c \in Datasets, c # d PROVE DatasetSound(c)'
  <2>1. ExtractedKept(c) /\ DatasetSound(c) /\ checkpoint'[c] = checkpoint[c]
    BY <1>0, <1>5, <1>9 DEF Publishes
  <2>2. checkpoint[c].token # NoExtraction => /\ checkpoint[c].token \in Extractions
                                              /\ checkpoint[c].token # x
    BY <1>0, <1>9, <2>1 DEF DatasetSound, Publishes
  <2>3. checkpoint[c].token # NoExtraction => GoesOn(checkpoint[c].token)
    BY <2>2 DEF GoesOn, Publishes
  <2> QED
    BY <1>0, <1>1, <2>1, <2>3, DatasetStays
<1> QED
  BY <1>2, <1>3, <1>5, <1>8, <1>9

\* It preserves the invariant of the extraction.
LEMMA PublishExtractionSound ==
  ASSUME ExtractionInv, ExtractionTypeOK', SnapshotTypeOK, SnapshotTypeOK',
         UNCHANGED snapshotVars, NEW x \in Extractions, NEW d \in Datasets,
         NEW p \in PublicationRow, Publishes(x, d, p)
  PROVE  ExtractionInv'
<1>0. /\ ExtractionTypeOK /\ ExtractionSound(x) /\ DatasetSound(d)
      /\ \A y \in Extractions : ExtractionSound(y)
      /\ \A i \in DOMAIN publication : PublicationSound(i)
      /\ checkpoint \in [Datasets -> [mark : Cursor, token : Extractions \cup {NoExtraction}]]
      /\ \A i \in DOMAIN publication : publication[i] \in PublicationRow
  BY DEF ExtractionInv, ExtractionTypeOK
<1>1. Grown /\ snapshot' = snapshot
  BY StillGrown DEF snapshotVars
<1>2. \A c \in Datasets : DatasetSound(c)'
  BY PublishKeepsWindow
<1>3. ASSUME NEW y \in Extractions PROVE ExtractionSound(y)'
  <2>1. CASE y = x
    BY <2>1 DEF Publishes, ExtractionSound
  <2>2. CASE y # x
    <3>1. extraction'[y] = extraction[y]
      BY <2>2 DEF Publishes
    <3> QED
      BY <1>0, <1>1, <3>1, AttemptStays
  <2> QED
    BY <2>1, <2>2
<1>4. p.high \in Cursor /\ p.dataset = d
  BY DEF PublicationRow, Publishes
<1>5. ASSUME NEW i \in DOMAIN publication' PROVE PublicationSound(i)'
  <2>1. CASE i \notin DOMAIN publication
    <3>1. publication'[i] = p
      BY <1>5, <2>1 DEF Publishes
    <3>2. p.content \subseteq Visible(d)
      BY <1>0 DEF ExtractionSound, Publishes
    <3>3. ~Before(p.high, p.high)
      BY <1>4, CursorOrder
    <3>4. Visible(d)' = Visible(d) /\ Mark(d)' = p.high
      BY <1>1 DEF Visible, Completed, Publishes, Mark
    <3>5. p.content \subseteq Visible(p.dataset)' /\ ~Before(Mark(p.dataset)', p.high)
      BY <1>4, <3>2, <3>3, <3>4
    <3> QED
      BY <3>1, <3>5 DEF PublicationSound, Before, Mark
  <2>2. CASE i \in DOMAIN publication
    <3>1. publication'[i] = publication[i] /\ publication[i] \in PublicationRow
      BY <1>0, <2>2 DEF Publishes
    <3>2. PICK c \in Datasets : publication[i].dataset = c
      BY <3>1 DEF PublicationRow
    <3>3. CASE c # d
      <4>1. Mark(publication[i].dataset)' = Mark(publication[i].dataset)
        BY <3>1, <3>2, <3>3 DEF Mark, Publishes
      <4> QED
        BY <1>0, <1>1, <2>2, <3>1, <4>1, PublicationStays
    <3>4. CASE c = d
      <4>1. publication[i].content \subseteq Visible(d) /\ ~Before(Mark(d), publication[i].high)
        BY <1>0, <2>2, <3>2, <3>4 DEF PublicationSound
      <4>2. ~Before(p.high, Mark(d))
        BY <1>0 DEF Publishes, ExtractionSound
      <4>3. Mark(d) \in Cursor /\ publication[i].high \in Cursor
        BY <1>0, <3>1 DEF Mark, PublicationRow
      <4>4. ~Before(p.high, publication[i].high)
        BY <1>4, <4>1, <4>2, <4>3, CursorOrder
      <4>5. Visible(d)' = Visible(d) /\ Mark(d)' = p.high
        BY <1>1 DEF Visible, Completed, Publishes, Mark
      <4> QED
        BY <3>1, <3>2, <3>4, <4>1, <4>4, <4>5 DEF PublicationSound, Before, Mark
    <3> QED
      BY <3>3, <3>4
  <2> QED
    BY <2>1, <2>2
<1>6. TimesPast'
  BY <1>1, TimesStayPast DEF ExtractionInv
<1> QED
  BY <1>2, <1>3, <1>5, <1>6 DEF ExtractionInv

\* What publications hold follows from the invariant when one is added, and stays.
LEMMA PublicationsKept ==
  ASSUME ExtractionInv, NoSnapshotMissed, LatestSuppliesNewest, SnapshotTypeOK, Grown,
         publication' = publication
  PROVE  NoSnapshotMissed' /\ LatestSuppliesNewest'
<1>0. \A i \in DOMAIN publication : PublicationSound(i) /\ publication[i] \in PublicationRow
  BY DEF ExtractionInv, ExtractionTypeOK
<1>1. \A d \in Datasets : PublicationsOf(d)' = PublicationsOf(d)
  BY DEF PublicationsOf
<1>2. NoSnapshotMissed'
  BY <1>1 DEF NoSnapshotMissed
<1>3. ASSUME NEW d \in Datasets, NEW i \in PublicationsOf(d), NEW s \in publication[i].content
      PROVE  CursorOf(s)' = CursorOf(s)
  <2>1. s \in Visible(d)
    BY <1>0 DEF PublicationsOf, PublicationSound
  <2> QED
    BY <2>1, VisibleGrows
<1>4. LatestSuppliesNewest'
  BY <1>1, <1>3 DEF LatestSuppliesNewest, Before
<1> QED
  BY <1>2, <1>4

\* A new publication misses nothing and supplies the newest.
LEMMA PublicationAdded ==
  ASSUME ExtractionInv, ExtractionInv', NoSnapshotMissed, LatestSuppliesNewest, SnapshotTypeOK,
         SnapshotTypeOK', UNCHANGED snapshotVars, NEW x \in Extractions, NEW d \in Datasets,
         NEW p \in PublicationRow, Publishes(x, d, p)
  PROVE  NoSnapshotMissed' /\ LatestSuppliesNewest'
<1> DEFINE n == Len(publication) + 1
<1>0. /\ ExtractionTypeOK /\ ExtractionSound(x)
      /\ Len(publication) \in Nat
      /\ \A i \in DOMAIN publication : publication[i] \in PublicationRow
      /\ \A i \in DOMAIN publication' : PublicationSound(i)'
  BY DEF ExtractionInv, ExtractionTypeOK
<1>1. Grown /\ snapshot' = snapshot
  BY StillGrown DEF snapshotVars
<1>2. /\ DOMAIN publication = 1..(n - 1) /\ DOMAIN publication' = 1..n /\ n \in DOMAIN publication' /\ n \in Nat
      /\ publication'[n] = p /\ p.dataset = d
      /\ \A i \in DOMAIN publication : publication'[i] = publication[i]
  BY <1>0 DEF Publishes
<1> HIDE DEF n
<1>3. ASSUME NEW c \in Datasets
      PROVE  /\ PublicationsOf(c) \subseteq PublicationsOf(c)'
             /\ \A i \in PublicationsOf(c)' : i \in PublicationsOf(c) \/ (i = n /\ c = d)
             /\ \A i \in PublicationsOf(c) : i < n /\ i \in Nat /\ publication'[i] = publication[i]
  BY <1>2 DEF PublicationsOf
<1>n. n \in PublicationsOf(d)'
  BY <1>2 DEF PublicationsOf
<1>4. NoSnapshotMissed'
  <2> SUFFICES ASSUME NEW c \in Datasets, NEW i \in PublicationsOf(c)',
                      NEW s \in publication'[i].there
               PROVE  \E j \in PublicationsOf(c)' : j <= i /\ s \in publication'[j].content
    BY DEF NoSnapshotMissed
  <2>1. CASE i \in PublicationsOf(c)
    <3>1. \E j \in PublicationsOf(c) : j <= i /\ s \in publication[j].content
      BY <1>3, <2>1 DEF NoSnapshotMissed
    <3> QED
      BY <1>3, <3>1
  <2>2. CASE i = n /\ c = d
    <3>1. s \in p.content \/ s \in Extracted(d)
      BY <1>2, <2>2, PublishKeepsWindow
    <3>2. s \in p.content => n <= i /\ s \in publication'[n].content
      BY <1>2, <2>2
    <3>3. s \in Extracted(d) => \E j \in PublicationsOf(d) : s \in publication[j].content
      BY DEF Extracted
    <3> QED
      BY <1>2, <1>3, <1>n, <2>2, <3>1, <3>2, <3>3
  <2> QED
    BY <1>3, <2>1, <2>2
<1>5. /\ \A s \in p.content : ~Before(p.high, CursorOf(s))
      /\ p.high # NoCursor => p.high[2] \in p.content
  BY <1>0 DEF ExtractionSound, Publishes
<1>6. \A s : CursorOf(s)' = CursorOf(s)
  BY <1>1 DEF CursorOf
<1>7. LatestSuppliesNewest'
  <2> SUFFICES ASSUME NEW c \in Datasets, NEW i \in PublicationsOf(c)'
               PROVE  /\ publication'[i].high # NoCursor =>
                           publication'[i].high[2] \in publication'[i].content
                      /\ \A s \in publication'[i].content :
                           ~Before(publication'[i].high, CursorOf(s)')
                      /\ \A j \in PublicationsOf(c)' : i <= j =>
                           ~Before(publication'[j].high, publication'[i].high)
    BY DEF LatestSuppliesNewest, Before
  <2>1. CASE i \in PublicationsOf(c)
    <3>1. publication'[i] = publication[i]
      BY <1>3, <2>1
    <3>2. /\ publication[i].high # NoCursor => publication[i].high[2] \in publication[i].content
          /\ \A s \in publication[i].content : ~Before(publication[i].high, CursorOf(s))
          /\ \A j \in PublicationsOf(c) : i <= j => ~Before(publication[j].high, publication[i].high)
      BY <2>1 DEF LatestSuppliesNewest
    <3>3. c = d => ~Before(p.high, publication[i].high)
      <4>1. i \in DOMAIN publication' /\ publication[i].dataset = c
        BY <1>2, <2>1 DEF PublicationsOf
      <4>2. PublicationSound(i)' /\ checkpoint'[d].mark = p.high
        BY <1>0, <4>1 DEF Publishes
      <4> QED
        BY <3>1, <4>1, <4>2 DEF PublicationSound, Before, Mark
    <3>4. ASSUME NEW j \in PublicationsOf(c)', i <= j
          PROVE  ~Before(publication'[j].high, publication'[i].high)
      BY <1>2, <1>3, <3>1, <3>2, <3>3, <3>4
    <3> QED
      BY <1>6, <3>1, <3>2, <3>4
  <2>2. CASE i = n /\ c = d /\ i \notin PublicationsOf(c)
    <3>1. p.high \in Cursor /\ ~Before(p.high, p.high)
      BY CursorOrder DEF PublicationRow
    <3>2. \A j \in PublicationsOf(c)' : i <= j => j = n
      BY <1>2, <1>3, <2>2
    <3> QED
      BY <1>2, <1>5, <1>6, <2>2, <3>1, <3>2
  <2> QED
    BY <1>3, <2>1, <2>2
<1> QED
  BY <1>4, <1>7

PublicationsInv == ExtractionInv /\ NoSnapshotMissed /\ LatestSuppliesNewest

\* Nothing is published in the initial states.
LEMMA PublicationsStart == Init => PublicationsInv
<1> SUFFICES ASSUME Init PROVE NoSnapshotMissed /\ LatestSuppliesNewest
  BY ExtractionStart DEF PublicationsInv
<1>1. publication = <<>>
  BY DEF Init, ExtractionInit
<1>2. \A d \in Datasets : PublicationsOf(d) = {}
  BY <1>1 DEF PublicationsOf
<1> QED
  BY <1>2 DEF NoSnapshotMissed, LatestSuppliesNewest

\* Every step of extraction preserves the invariant.
LEMMA ExtractionStepSound ==
  ASSUME PublicationsInv, SnapshotTypeOK, SnapshotTypeOK', ExtractionNext
  PROVE  PublicationsInv'
<1>0. /\ ExtractionInv /\ NoSnapshotMissed /\ LatestSuppliesNewest
      /\ ExtractionTypeOK /\ extraction \in [Extractions -> ExtractionState]
      /\ \A x \in Extractions : extraction[x].dataset \in Datasets
  BY DEF PublicationsInv, ExtractionInv, ExtractionTypeOK, ExtractionState
<1>1. ExtractionTypeOK'
  BY <1>0, ExtractionTypes
<1>2. UNCHANGED snapshotVars
  BY DEF ExtractionNext, ClaimExtraction, ReadHigh, StageOutput, PublishExtraction, ExtractionErrs,
         RecordFailure, ExtractionLost
<1>3. Grown
  BY <1>2, StillGrown
<1>4. ASSUME publication' = publication, ExtractionInv' PROVE PublicationsInv'
  <2>1. NoSnapshotMissed' /\ LatestSuppliesNewest'
    BY <1>0, <1>3, <1>4, PublicationsKept
  <2> QED
    BY <1>4, <2>1 DEF PublicationsInv
<1>5. ASSUME NEW d \in Datasets, NEW k \in KeysFor(d), NEW full \in BOOLEAN,
             ClaimExtraction(d, k, full)
      PROVE  PublicationsInv'
  <2>1. publication' = publication
    BY <1>5 DEF ClaimExtraction
  <2> QED
    BY <1>0, <1>1, <1>4, <1>5, <2>1, ClaimExtractionSound
<1>6. ASSUME NEW x \in Extractions, ReadHigh(x) PROVE PublicationsInv'
  <2>1. publication' = publication
    BY <1>6 DEF ReadHigh
  <2> QED
    BY <1>0, <1>1, <1>4, <1>6, <2>1, ReadHighSound
<1>7. ASSUME NEW x \in Extractions, StageOutput(x) PROVE PublicationsInv'
  <2>1. publication' = publication
    BY <1>7 DEF StageOutput
  <2> QED
    BY <1>0, <1>1, <1>4, <1>7, <2>1, StageSound
<1>8. ASSUME NEW x \in Extractions, PublishExtraction(x), Owns(x) PROVE PublicationsInv'
  <2>1. PICK d \in Datasets, p \in PublicationRow : Publishes(x, d, p)
    BY <1>0, <1>8, PublishEffect
  <2>2. ExtractionInv'
    BY <1>0, <1>1, <1>2, <2>1, PublishExtractionSound
  <2>3. NoSnapshotMissed' /\ LatestSuppliesNewest'
    BY <1>0, <1>2, <2>1, <2>2, PublicationAdded
  <2> QED
    BY <2>2, <2>3 DEF PublicationsInv
<1>9. ASSUME NEW x \in Extractions,
             \/ PublishExtraction(x) /\ ~Owns(x)
             \/ ExtractionErrs(x) \/ RecordFailure(x) \/ ExtractionLost(x)
      PROVE  PublicationsInv'
  <2>1. PICK d \in Datasets : extraction[x].dataset = d
    BY <1>0
  <2>2. /\ publication' = publication /\ extraction[x].step # "unused"
        /\ \E step \in {"failed", "over"} : extraction' = [extraction EXCEPT ![x].step = step]
        /\ \/ checkpoint' = checkpoint
           \/ checkpoint' = [checkpoint EXCEPT ![d].token = NoExtraction]
    BY <1>9, <2>1 DEF PublishExtraction, ExtractionErrs, RecordFailure, ExtractionLost
  <2>3. ExtractionInv'
    BY <1>0, <1>1, <1>2, <2>1, <2>2, EndSound
  <2> QED
    BY <1>4, <2>2, <2>3
<1> QED
  BY <1>5, <1>6, <1>7, <1>8, <1>9 DEF ExtractionNext

\* Every step of the pipeline preserves the invariant of the extraction.
LEMMA PublicationsPreserved ==
  PublicationsInv /\ SnapshotInv /\ SnapshotInv' /\ [Next]_vars => PublicationsInv'
<1> SUFFICES ASSUME PublicationsInv, SnapshotInv, SnapshotInv', [Next]_vars
             PROVE  PublicationsInv'
  OBVIOUS
<1>0. /\ SnapshotTypeOK /\ SnapshotTypeOK'
      /\ ExtractionInv /\ NoSnapshotMissed /\ LatestSuppliesNewest
  BY DEF SnapshotInv, PublicationsInv
<1>1. CASE ExtractionNext
  BY <1>0, <1>1, ExtractionStepSound
<1>2. CASE UNCHANGED extractionVars /\ Grown
  <2>1. publication' = publication
    BY <1>2 DEF extractionVars
  <2>2. ExtractionInv'
    BY <1>0, <1>2, ExtractionRests
  <2>3. NoSnapshotMissed' /\ LatestSuppliesNewest'
    BY <1>0, <1>2, <2>1, PublicationsKept
  <2> QED
    BY <2>2, <2>3 DEF PublicationsInv
<1>3. UNCHANGED snapshotVars => Grown
  BY <1>0, StillGrown
<1>4. SnapshotNext => Grown
  BY SnapshotsGrow
<1>5. CuratedNext => UNCHANGED <<extractionVars, snapshotVars>>
  BY DEF CuratedNext, SelectSources, ClaimProcessing, StageManifest, Transform, PublishCurated,
         CuratingErrs, MarkFailure
<1> QED
  BY <1>1, <1>2, <1>3, <1>4, <1>5 DEF Next, Capturing, Exporting, Extracting, Curating, vars

\* Extraction misses no snapshot, for any number of datasets, attempts, modes and late
\* snapshots (services.py:92-103), as long as the overlap covers the time limit of a task.
THEOREM ExtractionComplete == Spec => []NoSnapshotMissed
<1>1. PublicationsInv => NoSnapshotMissed
  BY DEF PublicationsInv
<1> QED
  BY SnapshotStart, SnapshotsPreserved, PublicationsStart, PublicationsPreserved, <1>1, PTL DEF Spec

\* The latest batch supplies the latest snapshot, and marks never go back, whatever stale
\* attempts do (docs/analytics.md:222-224).
THEOREM ExtractionCurrent == Spec => []LatestSuppliesNewest
<1>1. PublicationsInv => LatestSuppliesNewest
  BY DEF PublicationsInv
<1> QED
  BY SnapshotStart, SnapshotsPreserved, PublicationsStart, PublicationsPreserved, <1>1, PTL DEF Spec

-----------------------------------------------------------------------------
(* Curating: source sets only grow *)

\* A source set is a function of some datasets.
LEMMA SourceParts ==
  ASSUME NEW a \in SourceSets
  PROVE  DOMAIN a \subseteq Datasets /\ \A d \in DOMAIN a : a[d] \in Nat
<1>1. PICK some \in SUBSET Datasets : a \in [some -> Nat]
  BY DEF SourceSets
<1> QED
  BY <1>1

\* NotBefore orders them.
LEMMA SourceOrder ==
  ASSUME NEW a \in SourceSets
  PROVE  /\ NotBefore(a, a)
         /\ \A b, c \in SourceSets : NotBefore(a, b) /\ NotBefore(b, c) => NotBefore(a, c)
<1>1. \A s \in SourceSets : \A d \in DOMAIN s : s[d] \in Nat
  BY SourceParts
<1>2. NotBefore(a, a)
  BY <1>1 DEF NotBefore
<1>3. ASSUME NEW b \in SourceSets, NEW c \in SourceSets, NotBefore(a, b), NotBefore(b, c)
      PROVE  NotBefore(a, c)
  <2> SUFFICES ASSUME NEW d \in DOMAIN a PROVE d \in DOMAIN c /\ a[d] <= c[d]
    BY DEF NotBefore
  <2>1. d \in DOMAIN b /\ a[d] <= b[d] /\ d \in DOMAIN c /\ b[d] <= c[d]
    BY <1>3 DEF NotBefore
  <2>2. a[d] \in Nat /\ b[d] \in Nat /\ c[d] \in Nat
    BY <1>1, <2>1
  <2> QED
    BY <2>1, <2>2
<1> QED
  BY <1>2, <1>3

\* the publications of a dataset that hold something
Full(d) == {i \in PublicationsOf(d) : publication[i].content # {}}
LatestSound ==
  /\ DOMAIN Latest = {c \in Datasets : Full(c) # {}}
  /\ \A d \in DOMAIN Latest : Latest[d] \in Full(d) /\ \A j \in Full(d) : j <= Latest[d]
  /\ Latest \in SourceSets

\* The latest source set names the last publication of each dataset that has one.
LEMMA LatestParts == ExtractionTypeOK => LatestSound
<1> SUFFICES ASSUME ExtractionTypeOK PROVE LatestSound
  OBVIOUS
<1> DEFINE last(d) == CHOOSE i \in Full(d) : \A j \in Full(d) : j <= i
           some == {c \in Datasets : Full(c) # {}}
<1>1. Latest = [d \in some |-> last(d)]
  BY DEF Latest, Full
<1>2. PICK n \in Nat : DOMAIN publication = 1..n
  BY DEF ExtractionTypeOK
<1>3. ASSUME NEW d \in some
      PROVE  last(d) \in Full(d) /\ \A j \in Full(d) : j <= last(d)
  <2>1. Full(d) \in SUBSET (0..n) /\ Full(d) # {}
    BY <1>2 DEF Full, PublicationsOf
  <2>2. \E i \in Full(d) : \A j \in Full(d) : j <= i
    BY <2>1, GreatestExists
  <2> QED
    BY <2>2
<1> HIDE DEF last
<1>4. \A d \in some : last(d) \in Nat
  <2> SUFFICES ASSUME NEW d \in some PROVE last(d) \in Nat
    OBVIOUS
  <2>1. last(d) \in 1..n
    BY <1>2, <1>3 DEF Full, PublicationsOf
  <2> QED
    BY <2>1
<1>5. Latest \in [some -> Nat] /\ some \in SUBSET Datasets
  BY <1>1, <1>4
<1>6. Latest \in SourceSets
  BY <1>5 DEF SourceSets
<1> QED
  BY <1>1, <1>3, <1>6 DEF LatestSound

\* publications stay, in their order
PublicationsStay ==
  /\ DOMAIN publication \subseteq DOMAIN publication'
  /\ \A i \in DOMAIN publication : publication'[i] = publication[i]

\* While publications are only added, the latest source set does not go back.
LEMMA LatestGrows ==
  ASSUME ExtractionTypeOK, ExtractionTypeOK', PublicationsStay
  PROVE  NotBefore(Latest, Latest')
<1>1. LatestSound
  BY LatestParts
<1>2. LatestSound'
  BY LatestParts, PTL
<1>4. \A d \in Datasets : Full(d) \subseteq Full(d)'
  BY DEF Full, PublicationsOf, PublicationsStay
<1>5. ASSUME NEW d \in DOMAIN Latest PROVE d \in DOMAIN Latest' /\ Latest[d] <= Latest'[d]
  <2>1. d \in Datasets /\ Latest[d] \in Full(d)
    BY <1>1, <1>5 DEF LatestSound
  <2>2. Latest[d] \in Full(d)'
    BY <1>4, <2>1
  <2>3. d \in DOMAIN Latest'
    BY <1>2, <2>1, <2>2 DEF LatestSound
  <2> QED
    BY <1>2, <2>2, <2>3 DEF LatestSound
<1> QED
  BY <1>5 DEF NotBefore

\* what is checked of curated data, with the invariant it needs
CuratedSafe == CuratedInv /\ CuratedMovesForward

\* Curated data stays sound while the latest source set grows.
LEMMA CuratedRests ==
  ASSUME CuratedSafe, processing' = processing, curated' = curated,
         curating' \in [Attempts -> [step : CuratingStep, sources : SourceSets]],
         NotBefore(Latest, Latest'), Latest \in SourceSets, Latest' \in SourceSets
  PROVE  CuratedSafe'
<1>1. \A key \in DOMAIN processing : NotBefore(key, Latest')
  BY SourceOrder DEF CuratedSafe, CuratedInv, ProcessingSound
<1>2. \A key \in DOMAIN processing : ProcessingSound(key)'
  BY <1>1 DEF CuratedSafe, CuratedInv, ProcessingSound, Curates
<1> QED
  BY <1>2 DEF CuratedSafe, CuratedInv, CuratedMovesForward

\* A running attempt changes its row, and publishes its source set only with it.
LEMMA RowAdvances ==
  ASSUME CuratedSafe, NEW key \in DOMAIN processing, Curates(key), NEW row \in ProcessingRow,
         processing' = [processing EXCEPT ![key] = row],
         \/ curated' = curated
         \/ row.status = "COMPLETED" /\ curated' = Append(curated, key),
         curating' \in [Attempts -> [step : CuratingStep, sources : SourceSets]],
         Latest' = Latest
  PROVE  CuratedSafe'
<1>0. /\ curated \in Seq(DOMAIN processing) /\ Len(curated) \in Nat
      /\ \A i \in DOMAIN curated : /\ curated[i] \in DOMAIN processing
                                   /\ processing[curated[i]].status = "COMPLETED"
                                   /\ NotBefore(curated[i], key)
      /\ ProcessingSound(key)
  BY DEF CuratedSafe, CuratedInv, ProcessingSound
<1>1. \A i \in DOMAIN curated : curated[i] # key
  BY <1>0 DEF Curates
<1>2. /\ DOMAIN processing' = DOMAIN processing /\ processing'[key] = row
      /\ \A k \in DOMAIN processing : k # key => processing'[k] = processing[k]
  OBVIOUS
<1>3. ASSUME NEW k \in DOMAIN processing
      PROVE  /\ processing'[k] \in ProcessingRow
             /\ Curates(k)' => k = key /\ row.status = "RUNNING"
  <2>1. processing[k] \in ProcessingRow
    BY DEF CuratedSafe, CuratedInv
  <2>2. CASE k = key
    BY <1>2, <2>2 DEF Curates
  <2>3. CASE k # key
    <3>1. processing'[k] = processing[k] /\ ~Curates(k)
      BY <1>0, <1>2, <2>3 DEF ProcessingSound
    <3> QED
      BY <2>1, <3>1 DEF Curates
  <2> QED
    BY <2>2, <2>3
<1>4. curated' \in Seq(DOMAIN processing')
  <2>1. curated' \in Seq(DOMAIN processing)
    <3>1. \A D : \A s \in Seq(D) : \A k \in D : Append(s, k) \in Seq(D)
      OBVIOUS
    <3> QED
      BY <1>0, <3>1
  <2> QED
    BY <1>2, <2>1
<1>5. \A i \in DOMAIN curated' : processing'[curated'[i]].status = "COMPLETED"
  <2>1. CASE curated' = curated
    BY <1>0, <1>1, <1>2, <2>1
  <2>2. CASE row.status = "COMPLETED" /\ curated' = Append(curated, key)
    BY <1>0, <1>1, <1>2, <2>2
  <2> QED
    BY <2>1, <2>2
<1>6. ASSUME NEW k \in DOMAIN processing PROVE ProcessingSound(k)'
  <2>1. NotBefore(k, Latest)
    BY DEF CuratedSafe, CuratedInv, ProcessingSound
  <2>2. ASSUME Curates(k)'
        PROVE  /\ \A other \in DOMAIN processing' : Curates(other)' => other = k
               /\ \A i \in DOMAIN curated' : NotBefore(curated'[i], k)
    <3>1. k = key /\ curated' = curated
      BY <1>3, <2>2
    <3> QED
      BY <1>0, <1>2, <1>3, <3>1
  <2> QED
    BY <2>1, <2>2 DEF ProcessingSound
<1>7. CuratedMovesForward'
  <2>1. CASE curated' = curated
    BY <2>1 DEF CuratedSafe, CuratedMovesForward
  <2>2. CASE curated' = Append(curated, key)
    <3>1. /\ DOMAIN curated = 1..Len(curated) /\ DOMAIN curated' = 1..(Len(curated) + 1)
          /\ curated'[Len(curated) + 1] = key
          /\ \A i \in DOMAIN curated : curated'[i] = curated[i]
      BY <1>0, <2>2
    <3> SUFFICES ASSUME NEW i \in DOMAIN curated', NEW j \in DOMAIN curated', i < j
                 PROVE  curated'[i] # curated'[j] /\ NotBefore(curated'[i], curated'[j])
      BY DEF CuratedMovesForward, NotBefore
    <3>2. i \in DOMAIN curated /\ (j \in DOMAIN curated \/ j = Len(curated) + 1)
      BY <1>0, <3>1
    <3>3. CASE j \in DOMAIN curated
      BY <3>1, <3>2, <3>3 DEF CuratedSafe, CuratedMovesForward, NotBefore
    <3>4. CASE j = Len(curated) + 1
      BY <1>0, <1>1, <3>1, <3>2, <3>4
    <3> QED
      BY <3>2, <3>3, <3>4
  <2> QED
    BY <2>1, <2>2
<1>8. DOMAIN processing' \subseteq SourceSets
  BY <1>2 DEF CuratedSafe, CuratedInv
<1>9. CuratedInv'
  BY <1>2, <1>3, <1>4, <1>5, <1>6, <1>8 DEF CuratedInv
<1> QED
  BY <1>7, <1>9 DEF CuratedSafe

\* the others of a source set that still run have failed, and its own row is taken up, or
\* stays if it is complete
Takes(key, row) ==
  /\ DOMAIN processing' = DOMAIN processing \cup {key}
  /\ \A k \in DOMAIN processing \ {key} :
       processing'[k] = IF Curates(k) THEN [processing[k] EXCEPT !.status = "FAILED"]
                        ELSE processing[k]
  /\ processing'[key] = row

\* A claim of the latest source set leaves no other run.
LEMMA ClaimTakes ==
  ASSUME CuratedSafe, NEW row \in ProcessingRow, Takes(Latest, row),
         Latest \in DOMAIN processing /\ processing[Latest].status = "COMPLETED"
           => row = processing[Latest],
         curated' = curated, Latest \in SourceSets, Latest' = Latest,
         curating' \in [Attempts -> [step : CuratingStep, sources : SourceSets]]
  PROVE  CuratedSafe'
<1>0. /\ curated \in Seq(DOMAIN processing) /\ DOMAIN processing \subseteq SourceSets
      /\ \A k \in DOMAIN processing : processing[k] \in ProcessingRow /\ NotBefore(k, Latest)
      /\ \A i \in DOMAIN curated : /\ curated[i] \in DOMAIN processing
                                   /\ processing[curated[i]].status = "COMPLETED"
  BY DEF CuratedSafe, CuratedInv, ProcessingSound
<1>1. ASSUME NEW k \in DOMAIN processing, k # Latest
      PROVE  /\ processing'[k] \in ProcessingRow /\ ~Curates(k)'
             /\ processing[k].status = "COMPLETED" => processing'[k] = processing[k]
  BY <1>0, <1>1, SMTT(30) DEF Takes, Curates, ProcessingRow
<1>2. \A k \in DOMAIN processing' : /\ k \in SourceSets /\ processing'[k] \in ProcessingRow
                                    /\ Curates(k)' => k = Latest
  BY <1>0, <1>1 DEF Takes
<1>3. curated' \in Seq(DOMAIN processing')
  <2>1. DOMAIN processing \subseteq DOMAIN processing'
    BY DEF Takes
  <2> QED
    BY <1>0, <2>1
<1>4. \A i \in DOMAIN curated' : processing'[curated'[i]].status = "COMPLETED"
  BY <1>0, <1>1 DEF Takes
<1>5. ASSUME NEW k \in DOMAIN processing' PROVE ProcessingSound(k)'
  <2>1. NotBefore(k, Latest)
    BY <1>0, SourceOrder DEF Takes
  <2>2. \A i \in DOMAIN curated : NotBefore(curated[i], Latest)
    BY <1>0
  <2> QED
    BY <1>2, <2>1, <2>2 DEF ProcessingSound
<1>6. CuratedMovesForward'
  BY DEF CuratedSafe, CuratedMovesForward
<1>7. CuratedInv'
  BY <1>2, <1>3, <1>4, <1>5 DEF CuratedInv
<1> QED
  BY <1>6, <1>7 DEF CuratedSafe

\* Every step of curating preserves it.
LEMMA CuratingSound ==
  ASSUME CuratedSafe, ExtractionTypeOK, CuratedNext
  PROVE  CuratedSafe'
<1>0. /\ curating \in [Attempts -> [step : CuratingStep, sources : SourceSets]]
      /\ \A k \in DOMAIN processing : processing[k] \in ProcessingRow
  BY DEF CuratedSafe, CuratedInv
<1>1. Latest \in SourceSets /\ NotBefore(Latest, Latest)
  BY LatestParts, SourceOrder DEF LatestSound
<1>2. Latest' = Latest
  <2>1. publication' = publication
    BY DEF CuratedNext, SelectSources, ClaimProcessing, StageManifest, Transform, PublishCurated,
           CuratingErrs, MarkFailure, extractionVars
  <2> QED
    BY <2>1 DEF Latest, PublicationsOf
<1>3. ASSUME NEW a \in Attempts, NEW step \in CuratingStep, Go(a, step)
      PROVE  curating' \in [Attempts -> [step : CuratingStep, sources : SourceSets]]
  BY <1>0, <1>3 DEF Go
<1>4. ASSUME processing' = processing, curated' = curated,
             curating' \in [Attempts -> [step : CuratingStep, sources : SourceSets]]
      PROVE  CuratedSafe'
  BY <1>1, <1>2, <1>4, CuratedRests
<1>5. ASSUME NEW a \in Attempts, SelectSources(a) PROVE CuratedSafe'
  <2>1. curating' \in [Attempts -> [step : CuratingStep, sources : SourceSets]]
    BY <1>0, <1>1, <1>5 DEF SelectSources, CuratingStep
  <2> QED
    BY <1>4, <1>5, <2>1 DEF SelectSources
<1>6. ASSUME NEW a \in Attempts, ClaimProcessing(a) PROVE CuratedSafe'
  <2> DEFINE key == curating[a].sources
             done == key \in DOMAIN processing /\ processing[key].status = "COMPLETED"
             new == [status |-> "RUNNING", token |-> a, manifest |-> NoAttempt]
             row == IF done THEN processing[key] ELSE new
  <2>1. curating' \in [Attempts -> [step : CuratingStep, sources : SourceSets]]
    <3>1. Go(a, "over") \/ Go(a, "claimed")
      BY <1>6 DEF ClaimProcessing
    <3> QED
      BY <1>3, <3>1 DEF CuratingStep
  <2>2. CASE processing' = processing
    BY <1>4, <1>6, <2>1, <2>2 DEF ClaimProcessing
  <2>3. CASE processing' # processing
    <3>1. key = Latest /\ curated' = curated
      BY <1>6, <2>3 DEF ClaimProcessing
    <3>2. processing' = IF done THEN Superseded(key)
                        ELSE [k \in DOMAIN processing \cup {key} |->
                                IF k = key THEN new ELSE Superseded(key)[k]]
      BY <1>6, <2>3 DEF ClaimProcessing, Superseded
    <3>3. row \in ProcessingRow
      BY <1>0 DEF ProcessingRow
    <3>4. Takes(key, row)
      BY <3>2 DEF Takes, Superseded, Curates
    <3> HIDE DEF key, row, new
    <3> QED
      BY <1>1, <1>2, <2>1, <3>1, <3>3, <3>4, ClaimTakes DEF row
  <2> QED
    BY <2>2, <2>3
<1>7. ASSUME NEW a \in Attempts, Holds(a), NEW step \in CuratingStep, Go(a, step),
             NEW row \in ProcessingRow,
             processing' = [processing EXCEPT ![curating[a].sources] = row],
             \/ curated' = curated
             \/ row.status = "COMPLETED" /\ curated' = Append(curated, curating[a].sources)
      PROVE  CuratedSafe'
  <2>1. PICK key \in DOMAIN processing : key = curating[a].sources /\ Curates(key)
    BY <1>7 DEF Holds, Curates
  <2> QED
    BY <1>2, <1>3, <1>7, <2>1, RowAdvances
<1>8. ASSUME NEW a \in Attempts, StageManifest(a) PROVE CuratedSafe'
  <2>1. CASE Holds(a)
    <3> DEFINE row == [processing[curating[a].sources] EXCEPT !.manifest = a]
    <3>1. row \in ProcessingRow
      BY <1>0, <2>1 DEF Holds, ProcessingRow
    <3>2. /\ processing' = [processing EXCEPT ![curating[a].sources] = row]
          /\ Go(a, "prepared") /\ curated' = curated
      BY <1>8, <2>1 DEF StageManifest
    <3> QED
      BY <1>7, <2>1, <3>1, <3>2 DEF CuratingStep
  <2>2. CASE ~Holds(a)
    <3>1. Go(a, "failed") /\ processing' = processing /\ curated' = curated
      BY <1>8, <2>2 DEF StageManifest
    <3> QED
      BY <1>3, <1>4, <3>1 DEF CuratingStep
  <2> QED
    BY <2>1, <2>2
<1>9. ASSUME NEW a \in Attempts, Transform(a) \/ CuratingErrs(a) PROVE CuratedSafe'
  <2>1. (Go(a, "transformed") \/ Go(a, "failed")) /\ processing' = processing /\ curated' = curated
    BY <1>9 DEF Transform, CuratingErrs
  <2> QED
    BY <1>3, <1>4, <2>1 DEF CuratingStep
<1>10. ASSUME NEW a \in Attempts, PublishCurated(a) PROVE CuratedSafe'
  <2>1. Go(a, "over")
    BY <1>10 DEF PublishCurated
  <2>2. CASE Holds(a) /\ processing[curating[a].sources].manifest = a
    <3> DEFINE row == [processing[curating[a].sources] EXCEPT !.status = "COMPLETED"]
    <3>1. row \in ProcessingRow /\ row.status = "COMPLETED"
      BY <1>0, <2>2 DEF Holds, ProcessingRow
    <3>2. /\ processing' = [processing EXCEPT ![curating[a].sources] = row]
          /\ curated' = Append(curated, curating[a].sources)
      BY <1>10, <2>2 DEF PublishCurated
    <3> QED
      BY <1>7, <2>1, <2>2, <3>1, <3>2 DEF CuratingStep
  <2>3. CASE ~(Holds(a) /\ processing[curating[a].sources].manifest = a)
    <3>1. processing' = processing /\ curated' = curated
      BY <1>10, <2>3 DEF PublishCurated
    <3> QED
      BY <1>3, <1>4, <2>1, <3>1 DEF CuratingStep
  <2> QED
    BY <2>2, <2>3
<1>11. ASSUME NEW a \in Attempts, MarkFailure(a) PROVE CuratedSafe'
  <2>1. Go(a, "over") /\ curated' = curated
    BY <1>11 DEF MarkFailure
  <2>2. CASE Holds(a)
    <3> DEFINE row == [processing[curating[a].sources] EXCEPT !.status = "FAILED"]
    <3>1. row \in ProcessingRow
      BY <1>0, <2>2 DEF Holds, ProcessingRow
    <3>2. processing' = [processing EXCEPT ![curating[a].sources] = row]
      BY <1>11, <2>2 DEF MarkFailure
    <3> QED
      BY <1>7, <2>1, <2>2, <3>1, <3>2 DEF CuratingStep
  <2>3. CASE ~Holds(a)
    <3>1. processing' = processing
      BY <1>11, <2>3 DEF MarkFailure
    <3> QED
      BY <1>3, <1>4, <2>1, <3>1 DEF CuratingStep
  <2> QED
    BY <2>2, <2>3
<1> QED
  BY <1>5, <1>6, <1>8, <1>9, <1>10, <1>11 DEF CuratedNext

\* Extraction only adds publications.
LEMMA PublicationsGrow ==
  ASSUME ExtractionInv, ExtractionNext
  PROVE  PublicationsStay
<1>1. ASSUME NEW x \in Extractions, PublishExtraction(x), Owns(x) PROVE PublicationsStay
  <2>1. PICK d \in Datasets, p \in PublicationRow : Publishes(x, d, p)
    BY <1>1, PublishEffect
  <2>2. Len(publication) \in Nat
    BY DEF ExtractionInv, ExtractionTypeOK
  <2> QED
    BY <2>1, <2>2 DEF Publishes, PublicationsStay
<1>2. ASSUME NEW x \in Extractions, PublishExtraction(x), ~Owns(x) PROVE publication' = publication
  BY <1>2 DEF PublishExtraction
<1>3. publication' = publication => PublicationsStay
  BY DEF PublicationsStay
<1> QED
  BY <1>1, <1>2, <1>3 DEF ExtractionNext, ClaimExtraction, ReadHigh, StageOutput, ExtractionErrs,
                          RecordFailure, ExtractionLost

\* Nothing is curated in the initial states.
LEMMA CuratedStart == Init => CuratedSafe
<1> SUFFICES ASSUME Init PROVE CuratedSafe
  OBVIOUS
<1>1. /\ processing = <<>> /\ curated = <<>>
      /\ curating = [a \in Attempts |-> [step |-> "unused", sources |-> <<>>]]
  BY DEF Init, CuratedInit
<1>2. <<>> \in SourceSets
  <2>1. <<>> \in [{} -> Nat]
    OBVIOUS
  <2> QED
    BY <2>1 DEF SourceSets
<1>3. curating \in [Attempts -> [step : CuratingStep, sources : SourceSets]]
  BY <1>1, <1>2 DEF CuratingStep
<1>4. CuratedInv
  BY <1>1, <1>3 DEF CuratedInv
<1>5. CuratedMovesForward
  BY <1>1 DEF CuratedMovesForward
<1> QED
  BY <1>4, <1>5 DEF CuratedSafe

\* Every step of the pipeline preserves what curated data is.
LEMMA CuratedPreserved ==
  CuratedSafe /\ PublicationsInv /\ PublicationsInv' /\ [Next]_vars => CuratedSafe'
<1> SUFFICES ASSUME CuratedSafe, PublicationsInv, PublicationsInv', [Next]_vars
             PROVE  CuratedSafe'
  OBVIOUS
<1>0. ExtractionInv /\ ExtractionTypeOK /\ ExtractionTypeOK'
  BY DEF PublicationsInv, ExtractionInv
<1>1. CASE CuratedNext
  BY <1>0, <1>1, CuratingSound
<1>2. ASSUME UNCHANGED curatedVars, PublicationsStay PROVE CuratedSafe'
  <2>1. NotBefore(Latest, Latest')
    BY <1>0, <1>2, LatestGrows
  <2>2. Latest \in SourceSets
    BY <1>0, LatestParts DEF LatestSound
  <2>3. LatestSound'
    BY <1>0, LatestParts, PTL
  <2>4. Latest' \in SourceSets
    BY <2>3 DEF LatestSound
  <2>5. /\ processing' = processing /\ curated' = curated
        /\ curating' \in [Attempts -> [step : CuratingStep, sources : SourceSets]]
    BY <1>2 DEF curatedVars, CuratedSafe, CuratedInv
  <2> QED
    BY <2>1, <2>2, <2>4, <2>5, CuratedRests
<1>3. CASE ExtractionNext /\ UNCHANGED curatedVars
  BY <1>0, <1>2, <1>3, PublicationsGrow
<1>4. CASE UNCHANGED <<extractionVars, curatedVars>>
  BY <1>2, <1>4 DEF extractionVars, PublicationsStay
<1> QED
  BY <1>1, <1>3, <1>4 DEF Next, Capturing, Exporting, Extracting, Curating, vars

\* Curated data never goes back, for any number of attempts, datasets and source sets, and
\* however extraction publishes meanwhile (curated_processing.py:164, 454).
THEOREM CuratedCorrect == Spec => []CuratedMovesForward
<1>1. CuratedSafe => CuratedMovesForward
  BY DEF CuratedSafe
<1> QED
  BY SnapshotStart, SnapshotsPreserved, PublicationsStart, PublicationsPreserved,
     CuratedStart, CuratedPreserved, <1>1, PTL DEF Spec

\* The whole pipeline keeps its types.
THEOREM TypesCorrect == Spec => []TypeOK
<1>1. SnapshotInv /\ ExportInv /\ PublicationsInv /\ CuratedSafe => TypeOK
  <2>1. CuratedInv => CuratedTypeOK
    BY DEF CuratedInv, CuratedTypeOK
  <2> QED
    BY <2>1 DEF SnapshotInv, ExportInv, PublicationsInv, ExtractionInv, CuratedSafe, TypeOK
<1> QED
  BY SnapshotStart, SnapshotsPreserved, ExportStart, ExportsPreserved, PublicationsStart,
     PublicationsPreserved, CuratedStart, CuratedPreserved, <1>1, PTL DEF Spec
=============================================================================
