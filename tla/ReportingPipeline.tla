------------------------- MODULE ReportingPipeline -------------------------
(***************************************************************************)
(* Report snapshots with everything that reads them: exports to private    *)
(* storage, extraction to analytics, and curated processing of what was    *)
(* extracted.  The readers meet in the snapshot rows and publications      *)
(* only; a workload says what is asked of the whole in one behaviour.      *)
(***************************************************************************)
EXTENDS ReportExports, CuratedProcessing

CONSTANT
  Workloads     \* a set of records: what is requested, how long it runs, how many faults

VARIABLE workload

vars == <<snapshotVars, exportVars, extractionVars, curatedVars, faults, workload>>

\* a workload may find snapshots that were captured before
Init ==
  /\ workload \in Workloads
  /\ SnapshotInit(workload.captured) /\ ExportInit /\ ExtractionInit /\ CuratedInit
  /\ faults = 0

Capturing == /\ SnapshotNext
             /\ \A s \in Snapshots \ workload.snapshots : UNCHANGED snapshot[s]
             /\ \A s \in Snapshots : snapshotQueue'[<<s, 0>>] <= workload.messages
             /\ now' <= workload.time
             /\ UNCHANGED <<exportVars, extractionVars, curatedVars>>
Exporting == /\ ExportNext
             /\ \A e \in Exports \ workload.exports : export'[e].status = "ABSENT"
             /\ UNCHANGED <<snapshotVars, extractionVars, curatedVars>>
Extracting == /\ ExtractionNext
              /\ \A d \in Datasets \ workload.datasets : checkpoint'[d].token = NoExtraction
              /\ \A r \in DOMAIN run : run'[r].full => workload.full
              /\ Cardinality({x \in Extractions : extraction'[x].step # "unused"})
                   <= workload.extractions
              /\ UNCHANGED <<exportVars, curatedVars>>
Curating == /\ CuratedNext
            /\ \A a \in Attempts \ workload.attempts : curating'[a].step = "unused"
            /\ UNCHANGED exportVars

Next == /\ Capturing \/ Exporting \/ Extracting \/ Curating
        /\ faults' <= workload.faults
        /\ UNCHANGED workload

Spec == Init /\ [][Next]_vars /\ SnapshotFairness /\ ExportFairness

TypeOK == SnapshotTypeOK /\ ExportTypeOK /\ ExtractionTypeOK /\ CuratedTypeOK

\* What was requested ends: exports through recovery, captures without it.
RequestsEnd == StartedSnapshotEnds /\ ExportEnds
=============================================================================
