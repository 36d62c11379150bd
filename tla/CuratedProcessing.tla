------------------------- MODULE CuratedProcessing -------------------------
(***************************************************************************)
(* Curated outputs of one organization.  A processing run is named by the  *)
(* latest publications of its datasets, its source set.  Airflow prepares  *)
(* (reads the set, claims its run under the lock of the organization,      *)
(* stages the input manifest), Spark writes the outputs of the attempt,    *)
(* and a last command verifies and publishes them, or marks a failure.     *)
(* DAG runs, retried tasks and commands by hand may overlap; extraction    *)
(* publishes new source sets meanwhile, without that lock.                 *)
(***************************************************************************)
EXTENDS AnalyticsExtraction

CONSTANTS
  Required,      \* REQUIRED_SOURCE_DATASETS
  Attempts,      \* attempt tokens
  NoAttempt

ASSUME RequiredAreDatasets == Required \subseteq Datasets
ASSUME NoAttemptIsNone == NoAttempt \notin Attempts

VARIABLES
  processing,   \* [source set -> ProcessingRow], CuratedProcessingRun by processing_key
  curating,     \* [Attempts -> CuratingState]
  curated       \* the source sets of the CuratedPublication rows, in the order of commits

curatedVars == <<processing, curating, curated>>

ProcessingRow == [status : {"RUNNING", "COMPLETED", "FAILED"}, token : Attempts,
                  manifest : Attempts \cup {NoAttempt}]
CuratingStep == {"unused", "selected", "claimed", "prepared", "transformed", "failed", "over"}

CuratedTypeOK ==
  /\ \A key \in DOMAIN processing : processing[key] \in ProcessingRow
  /\ \A a \in Attempts : curating[a].step \in CuratingStep
  /\ \A i \in DOMAIN curated : curated[i] \in DOMAIN processing

CuratedInit ==
  /\ processing = << >>
  /\ curating = [a \in Attempts |-> [step |-> "unused", sources |-> << >>]]
  /\ curated = << >>

\* _latest_source_publications: of each dataset the last publication that is not empty
Latest ==
  LET full(d) == {i \in PublicationsOf(d) : publication[i].content # {}}
  IN  [d \in {c \in Datasets : full(c) # {}} |->
         CHOOSE i \in full(d) : \A j \in full(d) : j <= i]

Go(a, step) == curating' = [curating EXCEPT ![a].step = step]
\* the run of the attempt is RUNNING under its token
Holds(a) == /\ curating[a].sources \in DOMAIN processing
            /\ processing[curating[a].sources].status = "RUNNING"
            /\ processing[curating[a].sources].token = a

-----------------------------------------------------------------------------
\* a plausible bug: a new source set leaves the running ones alone
NoneSuperseded(key) == processing

\* prepare_curated_runs selects the source set ...
SelectSources(a) ==
  /\ curating[a].step = "unused"
  /\ Required \subseteq DOMAIN Latest
  /\ curating' = [curating EXCEPT ![a] = [step |-> "selected", sources |-> Latest]]
  /\ UNCHANGED <<processing, curated, extractionVars, snapshotVars, faults>>

\* ... and claims its run: the set must still be the latest, runs of other sets are over,
\* a completed one is not repeated
Superseded(key) ==
  [k \in DOMAIN processing |->
     IF k # key /\ processing[k].status = "RUNNING"
     THEN [processing[k] EXCEPT !.status = "FAILED"] ELSE processing[k]]

ClaimProcessing(a) ==
  LET key == curating[a].sources
      done == key \in DOMAIN processing /\ processing[key].status = "COMPLETED"
  IN
  /\ curating[a].step = "selected"
  /\ \/ /\ key # Latest
        /\ Go(a, "over") /\ UNCHANGED processing
     \/ /\ key = Latest
        /\ LET others == Superseded(key) IN
           processing' = IF done THEN others
                         ELSE [k \in DOMAIN others \cup {key} |->
                                 IF k = key
                                 THEN [status |-> "RUNNING", token |-> a, manifest |-> NoAttempt]
                                 ELSE others[k]]
        /\ Go(a, IF done THEN "over" ELSE "claimed")
  /\ UNCHANGED <<curated, extractionVars, snapshotVars, faults>>

\* _stage_input_manifest: the manifest is stored before its key is recorded under the token
StageManifest(a) ==
  LET key == curating[a].sources IN
  /\ curating[a].step = "claimed"
  /\ IF Holds(a)
     THEN processing' = [processing EXCEPT ![key].manifest = a] /\ Go(a, "prepared")
     ELSE UNCHANGED processing /\ Go(a, "failed")
  /\ UNCHANGED <<curated, extractionVars, snapshotVars, faults>>

\* Spark writes the outputs and their manifest into the directory of the attempt
Transform(a) ==
  /\ curating[a].step = "prepared"
  /\ Go(a, "transformed")
  /\ UNCHANGED <<processing, curated, extractionVars, snapshotVars, faults>>

\* publish_curated_run verifies the outputs against the run it read, and publishes if the
\* run still holds the token; a repeated call finds its own publication
PublishCurated(a) ==
  LET key == curating[a].sources IN
  /\ curating[a].step = "transformed"
  /\ IF Holds(a) /\ processing[key].manifest = a
     THEN /\ processing' = [processing EXCEPT ![key].status = "COMPLETED"]
          /\ curated' = Append(curated, key)
     ELSE UNCHANGED <<processing, curated>>
  /\ Go(a, "over")
  /\ UNCHANGED <<extractionVars, snapshotVars, faults>>

\* Spark, the staging or the verification fails
CuratingErrs(a) ==
  /\ curating[a].step \in {"claimed", "prepared", "transformed"}
  /\ Go(a, "failed")
  /\ Fault
  /\ UNCHANGED <<processing, curated, extractionVars, snapshotVars>>

\* _mark_processing_failure: of a run the attempt still holds; or nobody calls it
MarkFailure(a) ==
  /\ curating[a].step = "failed"
  /\ processing' = IF Holds(a) THEN [processing EXCEPT ![curating[a].sources].status = "FAILED"]
                   ELSE processing
  /\ Go(a, "over")
  /\ UNCHANGED <<curated, extractionVars, snapshotVars, faults>>

CuratedNext ==
  \E a \in Attempts :
    \/ SelectSources(a) \/ ClaimProcessing(a) \/ StageManifest(a) \/ Transform(a)
    \/ PublishCurated(a) \/ CuratingErrs(a) \/ MarkFailure(a)

-----------------------------------------------------------------------------
\* Curated data never goes back: a source set is published after another only if it holds
\* no older publication of a dataset, although attempts of several sets overlap and
\* Spark takes any time (curated_processing.py:164, 454).
CuratedMovesForward ==
  \A i, j \in DOMAIN curated : i < j =>
    /\ curated[i] # curated[j]
    /\ \A d \in DOMAIN curated[i] : d \in DOMAIN curated[j] /\ curated[i][d] <= curated[j][d]
=============================================================================
