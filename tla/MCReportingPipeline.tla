------------------------ MODULE MCReportingPipeline ------------------------
(* Instance of ReportingPipeline for TLC. *)
EXTENDS ReportingPipeline

MCDatasetOf == [s \in Snapshots |-> IF s = 3 THEN "disposals" ELSE "asset_register"]
MCSourceOf == [e \in Exports |-> 1]

Nothing == [captured |-> {}, snapshots |-> {}, time |-> 1, messages |-> 1, exports |-> {},
            datasets |-> {}, extractions |-> 0, full |-> FALSE, attempts |-> {}, faults |-> 0]
Register == {"asset_register"}

\* two deliveries of one snapshot; one snapshot is captured and exported; two snapshots of
\* one dataset are captured side by side and extracted meanwhile; three attempts, full or
\* not, extract one snapshot; two datasets are extracted and curated; extraction and
\* curating fail
MCWorkloads == {
  [Nothing EXCEPT !.snapshots = {1}, !.messages = 2, !.faults = 2],
  [Nothing EXCEPT !.snapshots = {1}, !.exports = Exports, !.faults = 2],
  [Nothing EXCEPT !.snapshots = {1, 2}, !.time = 2, !.datasets = Register, !.extractions = 2],
  [Nothing EXCEPT !.snapshots = {1}, !.datasets = Register, !.extractions = 3, !.full = TRUE],
  [Nothing EXCEPT !.captured = {1, 3}, !.datasets = Datasets, !.extractions = 2,
                  !.attempts = Attempts],
  [Nothing EXCEPT !.captured = {1}, !.datasets = Register, !.extractions = 2,
                  !.attempts = Attempts, !.faults = 1]}
=============================================================================
