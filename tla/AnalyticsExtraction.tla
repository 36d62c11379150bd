------------------------ MODULE AnalyticsExtraction ------------------------
(***************************************************************************)
(* Extraction of completed report snapshots into published batches, one    *)
(* checkpoint for each dataset (report type) of an organization.  A run    *)
(* is named by the scheduler's run key.  An attempt claims the checkpoint  *)
(* under a fresh token, reads the newest completed snapshot and then the   *)
(* snapshots of its window, stages them outside any transaction, and       *)
(* publishes them only if run and checkpoint still hold its token.         *)
(*                                                                         *)
(* The window reaches back Overlap before the watermark, since a snapshot  *)
(* becomes visible later than the time it bears.  A cursor is the pair of  *)
(* that time and the primary key.  The staged file is the set of snapshots *)
(* it holds; an object that no publication names is ignored by everyone.   *)
(***************************************************************************)
EXTENDS ReportSnapshots, Sequences

CONSTANTS
  Datasets, DatasetOf,   \* [Snapshots -> Datasets], report_type
  RunKeys,
  Extractions,           \* attempt tokens
  NoExtraction,
  Overlap                \* ANALYTICS_LATE_ARRIVAL_OVERLAP_HOURS

ASSUME DatasetOfSnapshot == DatasetOf \in [Snapshots -> Datasets]
ASSUME NoExtractionIsNone == NoExtraction \notin Extractions
ASSUME RunsHaveKeys == RunKeys # {}
\* a task may run 30 minutes and the window reaches back 48 hours (config/settings.py)
ASSUME OverlapCoversCapture == Overlap \in Nat /\ CaptureLimit <= Overlap

VARIABLES
  checkpoint,   \* [Datasets -> [mark, token]], AnalyticsCheckpoint
  run,          \* [Datasets \X RunKeys -> RunRow], AnalyticsRun
  extraction,   \* [Extractions -> ExtractionState]
  publication   \* the AnalyticsPublication rows in the order of their commits

extractionVars == <<checkpoint, run, extraction, publication>>

Cursor == (0..MaxTime) \X (Snapshots \cup {0})
NoCursor == <<0, 0>>
CursorOf(s) == <<snapshot[s].generatedAt, s>>
Before(a, b) == a[1] < b[1] \/ (a[1] = b[1] /\ a[2] < b[2])

RunRow == [status : {"ABSENT", "RUNNING", "COMPLETED", "FAILED", "SUPERSEDED"},
           token : Extractions \cup {NoExtraction}, full : BOOLEAN]
\* the watermark of the checkpoint when it was claimed, and what the attempt read since;
\* there: the snapshots that were complete at the claim (no such record in the code)
ExtractionState == [step : {"unused", "claimed", "high", "staged", "failed", "over"},
                    dataset : Datasets, key : RunKeys, current : Cursor, high : Cursor,
                    content : SUBSET Snapshots, there : SUBSET Snapshots]
PublicationRow == [dataset : Datasets, key : RunKeys, high : Cursor,
                   content : SUBSET Snapshots, there : SUBSET Snapshots]

ExtractionTypeOK ==
  /\ checkpoint \in [Datasets -> [mark : Cursor, token : Extractions \cup {NoExtraction}]]
  /\ run \in [Datasets \X RunKeys -> RunRow]
  /\ extraction \in [Extractions -> ExtractionState]
  /\ publication \in Seq(PublicationRow)

ExtractionInit ==
  /\ checkpoint = [d \in Datasets |-> [mark |-> NoCursor, token |-> NoExtraction]]
  /\ run = [r \in Datasets \X RunKeys |->
              [status |-> "ABSENT", token |-> NoExtraction, full |-> FALSE]]
  /\ extraction \in [Extractions -> [step : {"unused"}, dataset : {CHOOSE d \in Datasets : TRUE},
                                     key : {CHOOSE k \in RunKeys : TRUE}, current : {NoCursor},
                                     high : {NoCursor}, content : {{}}, there : {{}}]]
  /\ publication = <<>>

\* _run_queryset
Visible(d) == {s \in Snapshots : DatasetOf[s] = d /\ Completed(s)}
UnusedExtractions == {x \in Extractions : extraction[x].step = "unused"}
\* run keys are names: which unused one a new run takes makes no difference
KeysFor(d) == LET free == {k \in RunKeys : run[<<d, k>>].status = "ABSENT"} IN
              (RunKeys \ free) \cup {k \in free : k = CHOOSE f \in free : TRUE}
RunOf(x) == <<extraction[x].dataset, extraction[x].key>>

-----------------------------------------------------------------------------
\* _claim, under the lock of the checkpoint: a completed run is not repeated, nor one
\* taken up in the other mode; the run of the active token is superseded
ClaimExtraction(d, k, full) ==
  LET x == CHOOSE u \in UnusedExtractions : TRUE
      r == <<d, k>>
      current == checkpoint[d].mark
  IN
  /\ UnusedExtractions # {}
  /\ run[r].status # "COMPLETED"
  /\ run[r].status # "ABSENT" => run[r].full = full
  /\ run' = [q \in DOMAIN run |->
       IF q = r
       THEN [status |-> "RUNNING", token |-> x, full |-> full]
       ELSE IF /\ q[1] = d /\ checkpoint[d].token # NoExtraction
               /\ run[q].token = checkpoint[d].token /\ run[q].status = "RUNNING"
            THEN [run[q] EXCEPT !.status = "SUPERSEDED"]
            ELSE run[q]]
  /\ checkpoint' = [checkpoint EXCEPT ![d].token = x]
  /\ extraction' = [extraction EXCEPT ![x] =
       [step |-> "claimed", dataset |-> d, key |-> k, current |-> current, high |-> NoCursor,
        content |-> {}, there |-> Visible(d)]]
  /\ UNCHANGED <<publication, snapshotVars, faults>>

\* _source_high_watermark: the newest visible snapshot, never below the checkpoint's
ReadHigh(x) ==
  LET here == {CursorOf(s) : s \in Visible(extraction[x].dataset)} \cup {extraction[x].current}
  IN
  /\ extraction[x].step = "claimed"
  /\ extraction' = [extraction EXCEPT ![x].step = "high",
                       ![x].high = CHOOSE c \in here : \A b \in here : ~Before(c, b)]
  /\ UNCHANGED <<checkpoint, run, publication, snapshotVars, faults>>

\* a plausible bug: the window begins at the watermark
InNarrowWindow(s, previous, high) ==
  /\ ~Before(high, CursorOf(s))
  /\ previous # NoCursor => ~Before(CursorOf(s), previous)

\* _snapshot_queryset: visible when it is read, up to the high mark and, after a mark,
\* back to the overlap
InWindow(s, previous, high) ==
  /\ ~Before(high, CursorOf(s))
  /\ previous # NoCursor => snapshot[s].generatedAt + Overlap >= previous[1]

\* a full refresh has no previous mark
StageOutput(x) ==
  LET d == extraction[x].dataset
      previous == IF run[RunOf(x)].full THEN NoCursor ELSE extraction[x].current
  IN
  /\ extraction[x].step = "high"
  /\ extraction' = [extraction EXCEPT ![x].step = "staged",
                      ![x].content = {s \in Visible(d) : InWindow(s, previous, extraction[x].high)}]
  /\ UNCHANGED <<checkpoint, run, publication, snapshotVars, faults>>

\* a plausible bug: the run's own token is enough
OwnsRun(x) == run[RunOf(x)].token = x

\* both the run and the checkpoint hold the token of the attempt
Owns(x) == run[RunOf(x)].token = x /\ checkpoint[extraction[x].dataset].token = x

PublishExtraction(x) ==
  LET d == extraction[x].dataset  high == extraction[x].high IN
  /\ extraction[x].step = "staged"
  /\ IF Owns(x)
     THEN /\ publication' = Append(publication, [dataset |-> d, key |-> extraction[x].key,
                                                 high |-> high,
                                                 content |-> extraction[x].content,
                                                 there |-> extraction[x].there])
          /\ run' = [run EXCEPT ![RunOf(x)].status = "COMPLETED"]
          /\ checkpoint' = [checkpoint EXCEPT ![d].token = NoExtraction,
                                              ![d].mark = IF high = NoCursor THEN @ ELSE high]
          /\ extraction' = [extraction EXCEPT ![x].step = "over"]
     ELSE /\ extraction' = [extraction EXCEPT ![x].step = "failed"]
          /\ UNCHANGED <<publication, run, checkpoint>>
  /\ UNCHANGED <<snapshotVars, faults>>

ExtractionErrs(x) ==
  /\ extraction[x].step \in {"claimed", "high", "staged"}
  /\ extraction' = [extraction EXCEPT ![x].step = "failed"]
  /\ Fault
  /\ UNCHANGED <<checkpoint, run, publication, snapshotVars>>

\* _record_failure: only what the attempt still owns is marked
RecordFailure(x) ==
  LET d == extraction[x].dataset IN
  /\ extraction[x].step = "failed"
  /\ extraction' = [extraction EXCEPT ![x].step = "over"]
  /\ IF Owns(x)
     THEN /\ run' = [run EXCEPT ![RunOf(x)].status = "FAILED"]
          /\ checkpoint' = [checkpoint EXCEPT ![d].token = NoExtraction]
     ELSE UNCHANGED <<run, checkpoint>>
  /\ UNCHANGED <<publication, snapshotVars, faults>>

\* the process dies and leaves run and checkpoint to whoever claims next
ExtractionLost(x) ==
  /\ extraction[x].step \in {"claimed", "high", "staged", "failed"}
  /\ extraction' = [extraction EXCEPT ![x].step = "over"]
  /\ Fault
  /\ UNCHANGED <<checkpoint, run, publication, snapshotVars>>

ExtractionNext ==
  \/ \E d \in Datasets : \E k \in KeysFor(d), full \in BOOLEAN : ClaimExtraction(d, k, full)
  \/ \E x \in Extractions :
       \/ ReadHigh(x) \/ StageOutput(x) \/ PublishExtraction(x) \/ RecordFailure(x)
       \/ ExtractionErrs(x) \/ ExtractionLost(x)

-----------------------------------------------------------------------------
PublicationsOf(d) == {i \in DOMAIN publication : publication[i].dataset = d}

\* A run leaves nothing behind: each snapshot that was complete when it was claimed is in
\* its publication or in an earlier one, although snapshots appear later than the time
\* they bear, and other attempts read and move the watermark meanwhile
\* (services.py:92-103).
NoSnapshotMissed ==
  \A d \in Datasets : \A i \in PublicationsOf(d) :
    publication[i].there
      \subseteq UNION {publication[j].content : j \in {k \in PublicationsOf(d) : k <= i}}

\* docs/analytics.md:222-224: the latest batch supplies the latest complete snapshot.  Each
\* publication holds the snapshot its mark names, no snapshot after it, and the marks of
\* a dataset never go back, whatever stale attempts do.
LatestSuppliesNewest ==
  \A d \in Datasets : \A i \in PublicationsOf(d) :
    LET p == publication[i] IN
    /\ p.high # NoCursor => p.high[2] \in p.content
    /\ \A s \in p.content : ~Before(p.high, CursorOf(s))
    /\ \A j \in PublicationsOf(d) : i <= j => ~Before(publication[j].high, p.high)
=============================================================================
